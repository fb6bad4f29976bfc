-------------------------------- MODULE Sync --------------------------------
(***************************************************************************)
(* csync (gg/base/sync.lua): once_do(id, func) runs func under a lock      *)
(* named id.  The locks are skynet queues (skynet/queue.lua) kept in       *)
(* reference-counted "lockers"; a locker whose count drops to zero goes to *)
(* a pool and later serves another id.                                     *)
(*                                                                         *)
(* A skynet service runs one coroutine at a time and switches only where a *)
(* coroutine yields, so a step of this model is the code between two       *)
(* yields: the call of once_do up to skynet.wait() or up to the first      *)
(* yield of func; the wake-up of a waiter; the end of func together with   *)
(* the hand-over of the lock and releaseLocker.                            *)
(***************************************************************************)
EXTENDS Naturals, Sequences, FiniteSets

CONSTANTS
    Coroutines,   \* the coroutines of one service
    Ids,          \* lock names, e.g. "EnterGame.<roleid>" and "player.<pid>"
    Lockers,      \* identities of locker tables
    Nests,        \* <<outer, inner>>: func under outer calls once_do(inner)
    MaxDepth,     \* bound on the nesting of once_do in one coroutine
    None          \* Lua's nil

ASSUME NestsAssumption == Nests \subseteq Ids \X Ids
ASSUME MaxDepthAssumption == MaxDepth \in Nat \ {0}

(* A pending or running call of once_do.                                   *)
Frame == [id : Ids, locker : Lockers]

ASSUME NoneAssumption == None \notin Coroutines \cup Lockers \cup Frame

VARIABLES
    lockers,      \* csync.lockers : id -> locker or nil
    lockerPool,   \* csync.lockerPool, first out at index 1
    created,      \* the lockers built so far
    ref,          \* locker.ref
    current,      \* current_thread of the locker's queue
    depth,        \* ref of the locker's queue
    threadQueue,  \* thread_queue of the locker's queue
    stack,        \* per coroutine, the once_do frames whose func is running
    waitOn,       \* per coroutine, the frame it sleeps for in skynet.wait()
    woken         \* coroutines skynet.wakeup has made runnable

vars == <<lockers, lockerPool, created, ref, current, depth, threadQueue,
          stack, waitOn, woken>>

-----------------------------------------------------------------------------
TypeOK ==
    /\ lockers \in [Ids -> Lockers \cup {None}]
    /\ lockerPool \in Seq(Lockers)
    /\ created \in SUBSET Lockers
    /\ ref \in [Lockers -> Nat]
    /\ current \in [Lockers -> Coroutines \cup {None}]
    /\ depth \in [Lockers -> Nat]
    /\ threadQueue \in [Lockers -> Seq(Coroutines)]
    /\ stack \in [Coroutines -> Seq(Frame)]
    /\ waitOn \in [Coroutines -> Frame \cup {None}]
    /\ woken \in SUBSET Coroutines

Init ==
    /\ lockers = [i \in Ids |-> None]
    /\ lockerPool = <<>>
    /\ created = {}
    /\ ref = [k \in Lockers |-> 0]
    /\ current = [k \in Lockers |-> None]
    /\ depth = [k \in Lockers |-> 0]
    /\ threadQueue = [k \in Lockers |-> <<>>]
    /\ stack = [c \in Coroutines |-> <<>>]
    /\ waitOn = [c \in Coroutines |-> None]
    /\ woken = {}

-----------------------------------------------------------------------------
(* Faulty variants, the plausible slips that the properties must catch.    *)
GetLocker_CountsOnlyNew(i, k) ==
    \/ /\ lockers[i] = k
       /\ UNCHANGED <<lockers, lockerPool, created, ref>>
    \/ /\ lockers[i] = None
       /\ \/ lockerPool # <<>> /\ k = Head(lockerPool) /\ created' = created
          \/ lockerPool = <<>> /\ k \notin created /\ created' = created \cup {k}
       /\ lockerPool' = IF lockerPool = <<>> THEN <<>> ELSE Tail(lockerPool)
       /\ lockers' = [lockers EXCEPT ![i] = k]
       /\ ref' = [ref EXCEPT ![k] = @ + 1]

ReleaseLocker_IgnoresCount(i) ==
    IF lockers[i] = None
    THEN UNCHANGED <<lockers, lockerPool, ref>>
    ELSE /\ ref' = [ref EXCEPT ![lockers[i]] = @ - 1]
         /\ lockers' = [lockers EXCEPT ![i] = None]
         /\ lockerPool' = Append(lockerPool, lockers[i])

StartFunc_ForgetsDepth(c, f) ==
    /\ current' = [current EXCEPT ![f.locker] = c]
    /\ stack' = [stack EXCEPT ![c] = Append(@, f)]
    /\ UNCHANGED depth

OnceDoWait_JumpsQueue(c, i, k) ==
    /\ waitOn[c] = None
    /\ Len(stack[c]) < MaxDepth
    /\ stack[c] # <<>> => <<stack[c][Len(stack[c])].id, i>> \in Nests
    /\ lockers[i] = k
    /\ current[k] \notin {None, c}
    /\ ref' = [ref EXCEPT ![k] = @ + 1]
    /\ threadQueue' = [threadQueue EXCEPT ![k] = <<c>> \o @]
    /\ waitOn' = [waitOn EXCEPT ![c] = [id |-> i, locker |-> k]]
    /\ UNCHANGED <<lockers, lockerPool, created, current, depth, stack, woken>>

HandOver_FreesLock(k) ==
    /\ depth' = [depth EXCEPT ![k] = @ - 1]
    /\ current' = IF depth[k] > 1 THEN current ELSE [current EXCEPT ![k] = None]
    /\ IF depth[k] > 1 \/ threadQueue[k] = <<>>
       THEN UNCHANGED <<threadQueue, woken>>
       ELSE /\ threadQueue' = [threadQueue EXCEPT ![k] = Tail(@)]
            /\ woken' = woken \cup {Head(threadQueue[k])}

HandOver_WakesNobody(k) ==
    /\ depth' = [depth EXCEPT ![k] = @ - 1]
    /\ current' = IF depth[k] > 1 THEN current ELSE [current EXCEPT ![k] = None]
    /\ UNCHANGED <<threadQueue, woken>>

HandOver_WakesLast(k) ==
    LET q == threadQueue[k] IN
    /\ depth' = [depth EXCEPT ![k] = @ - 1]
    /\ IF depth[k] > 1
       THEN UNCHANGED <<current, threadQueue, woken>>
       ELSE IF q = <<>>
       THEN current' = [current EXCEPT ![k] = None] /\ UNCHANGED <<threadQueue, woken>>
       ELSE /\ current' = [current EXCEPT ![k] = q[Len(q)]]
            /\ threadQueue' = [threadQueue EXCEPT ![k] = SubSeq(q, 1, Len(q) - 1)]
            /\ woken' = woken \cup {q[Len(q)]}

-----------------------------------------------------------------------------
(* getLocker(id): the locker in use for id, else the first of the pool,    *)
(* else a new one; its count goes up by one.                               *)
GetLocker(i, k) ==
    /\ \/ /\ lockers[i] = k
          /\ UNCHANGED <<lockers, lockerPool, created>>
       \/ /\ lockers[i] = None
          /\ lockerPool # <<>>
          /\ k = Head(lockerPool)
          /\ lockerPool' = Tail(lockerPool)
          /\ lockers' = [lockers EXCEPT ![i] = k]
          /\ UNCHANGED created
       \/ /\ lockers[i] = None
          /\ lockerPool = <<>>
          /\ k \notin created
          /\ created' = created \cup {k}
          /\ lockers' = [lockers EXCEPT ![i] = k]
          /\ UNCHANGED lockerPool
    /\ ref' = [ref EXCEPT ![k] = @ + 1]

(* releaseLocker(id): the count goes down; at zero the locker leaves the   *)
(* table and is pooled.                                                    *)
ReleaseLocker(i) ==
    IF lockers[i] = None
    THEN UNCHANGED <<lockers, lockerPool, ref>>
    ELSE LET k == lockers[i] IN
         /\ ref' = [ref EXCEPT ![k] = @ - 1]
         /\ IF ref[k] > 1
            THEN UNCHANGED <<lockers, lockerPool>>
            ELSE /\ lockers' = [lockers EXCEPT ![i] = None]
                 /\ lockerPool' = Append(lockerPool, k)

(* The queue lets a coroutine straight in when nobody runs under it, or    *)
(* when the caller itself already does (re-entrance).                      *)
Admits(k, c) == current[k] \in {None, c}

(* The body of the lock function once the caller may run: it becomes the   *)
(* current thread, one level deeper, and func starts.                      *)
StartFunc(c, f) ==
    /\ current' = [current EXCEPT ![f.locker] = c]
    /\ depth' = [depth EXCEPT ![f.locker] = @ + 1]
    /\ stack' = [stack EXCEPT ![c] = Append(@, f)]

(* A coroutine may call once_do(i) at top level or, inside func, on an id  *)
(* that func's code nests.                                                 *)
Calls(c, i) ==
    /\ waitOn[c] = None
    /\ Len(stack[c]) < MaxDepth
    /\ stack[c] # <<>> => <<stack[c][Len(stack[c])].id, i>> \in Nests

(* _once_do(id, func) on a lock that admits the caller.                    *)
OnceDoRun(c, i, k) ==
    /\ Calls(c, i)
    /\ GetLocker(i, k)
    /\ Admits(k, c)
    /\ StartFunc(c, [id |-> i, locker |-> k])
    /\ UNCHANGED <<threadQueue, waitOn, woken>>

(* _once_do(id, func) on a busy lock: join thread_queue and skynet.wait(). *)
OnceDoWait(c, i, k) ==
    /\ Calls(c, i)
    /\ GetLocker(i, k)
    /\ ~Admits(k, c)
    /\ threadQueue' = [threadQueue EXCEPT ![k] = Append(@, c)]
    /\ waitOn' = [waitOn EXCEPT ![c] = [id |-> i, locker |-> k]]
    /\ UNCHANGED <<current, depth, stack, woken>>

(* The scheduler resumes a woken waiter: skynet.wait() returns and func    *)
(* starts.                                                                 *)
Resume(c) ==
    /\ c \in woken
    /\ woken' = woken \ {c}
    /\ waitOn' = [waitOn EXCEPT ![c] = None]
    /\ StartFunc(c, waitOn[c])
    /\ UNCHANGED <<lockers, lockerPool, created, ref, threadQueue>>

(* xpcall_ret: one level up; the outermost return hands the lock to the    *)
(* first of thread_queue and wakes it.  skynet.wakeup has an effect only   *)
(* on a coroutine that sleeps.                                             *)
HandOver(k) ==
    /\ depth' = [depth EXCEPT ![k] = @ - 1]
    /\ IF depth[k] > 1
       THEN UNCHANGED <<current, threadQueue, woken>>
       ELSE IF threadQueue[k] = <<>>
       THEN /\ current' = [current EXCEPT ![k] = None]
            /\ UNCHANGED <<threadQueue, woken>>
       ELSE LET c == Head(threadQueue[k]) IN
            /\ current' = [current EXCEPT ![k] = c]
            /\ threadQueue' = [threadQueue EXCEPT ![k] = Tail(@)]
            /\ woken' = IF waitOn[c] # None THEN woken \cup {c} ELSE woken

(* func of the innermost frame returns or raises (_once_do runs it under   *)
(* xpcall, so both end the same way): hand-over, then releaseLocker.       *)
Finish(c) ==
    /\ waitOn[c] = None
    /\ stack[c] # <<>>
    /\ LET f == stack[c][Len(stack[c])] IN
       /\ HandOver(f.locker)
       /\ ReleaseLocker(f.id)
    /\ stack' = [stack EXCEPT ![c] = SubSeq(@, 1, Len(@) - 1)]
    /\ UNCHANGED <<created, waitOn>>

OnceDo(c) == \E i \in Ids, k \in Lockers : OnceDoRun(c, i, k) \/ OnceDoWait(c, i, k)

Next == \E c \in Coroutines : OnceDo(c) \/ Resume(c) \/ Finish(c)

(* The scheduler resumes every woken coroutine, and every func ends: it    *)
(* makes finitely many nested calls, so a func that could return again and *)
(* again does return.                                                      *)
Fairness ==
    \A c \in Coroutines :
        /\ WF_vars(Resume(c))
        /\ \A n \in 1..MaxDepth : SF_vars(Len(stack[c]) = n /\ Finish(c))

Spec == Init /\ [][Next]_vars

FairSpec == Spec /\ Fairness
-----------------------------------------------------------------------------
Holds(c, i) == \E n \in 1..Len(stack[c]) : stack[c][n].id = i

(* Two coroutines never run func under the same id at the same time, even  *)
(* though getLocker may have given the id a recycled locker while others   *)
(* waited on it under another name.                                        *)
MutualExclusion ==
    \A c, d \in Coroutines : \A i \in Ids :
        Holds(c, i) /\ Holds(d, i) => c = d

(* The assertion of skynet/queue.lua after skynet.wait(), assert(ref == 0) *)
(* with its comment current_thread == thread, holds when a waiter resumes. *)
ResumeAssertion ==
    \A c \in woken : /\ waitOn[c] # None
                     /\ current[waitOn[c].locker] = c
                     /\ depth[waitOn[c].locker] = 0

(* A pooled locker is quiescent: no id maps to it, nobody runs under it or *)
(* sleeps on it, its count is zero and it is pooled once.  releaseLocker   *)
(* would otherwise hand one queue to two ids.                              *)
PoolQuiescent ==
    /\ \A n \in 1..Len(lockerPool) : LET k == lockerPool[n] IN
          /\ \A i \in Ids : lockers[i] # k
          /\ current[k] = None /\ threadQueue[k] = <<>> /\ ref[k] = 0
          /\ \A c \in Coroutines : waitOn[c] # None => waitOn[c].locker # k
    /\ \A m, n \in 1..Len(lockerPool) :
          lockerPool[m] = lockerPool[n] => m = n

(* No wake-up is lost: a coroutine that sleeps in skynet.wait() is either  *)
(* queued behind a current thread or has been made runnable.               *)
NoLostWakeup ==
    \A c \in Coroutines : waitOn[c] # None =>
        LET k == waitOn[c].locker IN
        \/ c \in woken
        \/ /\ current[k] \notin {None, c}
           /\ \E n \in 1..Len(threadQueue[k]) : threadQueue[k][n] = c

(* Every call of once_do that had to wait runs its func in the end, given  *)
(* that every func ends.                                                   *)
WaitersServed ==
    \A c \in Coroutines : waitOn[c] # None ~> waitOn[c] = None

-----------------------------------------------------------------------------
(* csync implements one first-come first-served re-entrant lock per id:    *)
(* the table of lockers, their counts and the pool cannot be observed.     *)
QueueOf(i) ==
    IF lockers[i] = None \/ current[lockers[i]] = None THEN <<>>
    ELSE <<current[lockers[i]]>> \o threadQueue[lockers[i]]

Locks == INSTANCE FifoLock WITH
    queue <- [i \in Ids |-> QueueOf(i)],
    level <- [i \in Ids |-> IF lockers[i] = None THEN 0 ELSE depth[lockers[i]]]

ImplementsFifoLock == Locks!Spec
=============================================================================
