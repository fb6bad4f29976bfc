---------------------------- MODULE ClusterQueue ----------------------------
(***************************************************************************)
(* The lock that the nodes of the cluster share                            *)
(* (common/gg/ClusterQueue.lua): the centerserver keeps for a lock the     *)
(* coroutines that wait for it; a coroutine of another node asks with a    *)
(* call, sleeps when the answer is no, and is woken by a message that the  *)
(* centerserver sends on a connection of its own.  One lock is modelled:   *)
(* the locks share nothing.                                                *)
(***************************************************************************)
EXTENDS Integers, Sequences, FiniteSets

CONSTANTS
    Clients,    \* coroutines that lock
    Local,      \* those of the service that keeps the locks
    MaxLocks,   \* bound: the locks a client asks for
    None

ASSUME ClusterQueueAssumption ==
    /\ Local \subseteq Clients /\ None \notin Clients
    /\ MaxLocks \in Nat \ {0}

Lock == "lock"

VARIABLES
    exists,   \* self.locks[lockId] is there
    waiting,  \* lock.waiting
    requests, \* what a client has sent to the centerserver, in order
    answers,  \* the answers of its calls that are on their way
    wakeups,  \* the recover points the centerserver wakes
    pc,       \* "idle", "calling", "asleep", "running"; "failed", "stopped"
    point,    \* the recoverPointId of its last lock
    owner,    \* history: the lock that was given last, and whether at once
    lost      \* history: whether an unlock or a wakeup was sent in vain

vars == <<exists, waiting, requests, answers, wakeups, pc, point, owner, lost>>

Points == 0..MaxLocks
Unlock == 0  \* the request that is none for a lock with a recover point
Waiter == [client : Clients, point : Points]
Owner == [of : Waiter, atOnce : BOOLEAN]

TypeOK ==
    /\ exists \in BOOLEAN
    /\ waiting \in Seq(Waiter)
    /\ requests \in [Clients -> Seq(Points)]
    /\ answers \in [Clients -> SUBSET [point : Points, ok : BOOLEAN]]
    /\ wakeups \in SUBSET Waiter
    /\ pc \in [Clients -> {"idle", "calling", "asleep", "running", "failed", "stopped"}]
    /\ point \in [Clients -> Points]
    /\ owner \in Owner \cup {None}
    /\ lost \in BOOLEAN

Init ==
    /\ exists = FALSE
    /\ waiting = <<>>
    /\ requests = [c \in Clients |-> <<>>]
    /\ answers = [c \in Clients |-> {}]
    /\ wakeups = {}
    /\ pc = [c \in Clients |-> "idle"]
    /\ point = [c \in Clients |-> 0]
    /\ owner = None
    /\ lost = FALSE
-----------------------------------------------------------------------------
(* _lock                                                                   *)
Granted(c, p) ==
    IF exists THEN waiting' = Append(waiting, [client |-> c, point |-> p])
                   /\ UNCHANGED <<exists, owner>>
    ELSE /\ exists' = TRUE /\ UNCHANGED waiting
         /\ owner' = [of |-> [client |-> c, point |-> p], atOnce |-> TRUE]

(* _unlock does not ask who unlocks.                                       *)
Released_Forgets ==
    IF waiting = <<>> \/ ~exists THEN /\ exists' = FALSE /\ owner' = None
                                      /\ UNCHANGED <<waiting, wakeups>>
    ELSE /\ exists' = FALSE /\ owner' = [of |-> Head(waiting), atOnce |-> FALSE]
         /\ waiting' = Tail(waiting)
         /\ wakeups' = wakeups \cup {Head(waiting)}

Released_Last ==
    IF waiting = <<>> \/ ~exists THEN /\ exists' = FALSE /\ owner' = None
                                      /\ UNCHANGED <<waiting, wakeups>>
    ELSE /\ owner' = [of |-> waiting[Len(waiting)], atOnce |-> FALSE]
         /\ waiting' = SubSeq(waiting, 1, Len(waiting) - 1)
         /\ wakeups' = wakeups \cup {waiting[Len(waiting)]}
         /\ UNCHANGED exists

Released_NoWakeup ==
    /\ UNCHANGED wakeups
    /\ IF waiting = <<>> \/ ~exists THEN exists' = FALSE /\ owner' = None /\ UNCHANGED waiting
       ELSE owner' = [of |-> Head(waiting), atOnce |-> FALSE] /\ waiting' = Tail(waiting) /\ UNCHANGED exists

Released ==
    IF waiting = <<>> \/ ~exists THEN /\ exists' = FALSE /\ owner' = None
                                      /\ UNCHANGED <<waiting, wakeups>>
    ELSE /\ owner' = [of |-> Head(waiting), atOnce |-> FALSE]
         /\ waiting' = Tail(waiting)
         /\ wakeups' = wakeups \cup {Head(waiting)}
         /\ UNCHANGED exists

(* lock: in the service of the locks, or with a call.                      *)
LockLocally(c) ==
    /\ c \in Local /\ pc[c] = "idle" /\ point[c] < MaxLocks
    /\ point' = [point EXCEPT ![c] = @ + 1]
    /\ Granted(c, point'[c])
    /\ pc' = [pc EXCEPT ![c] = IF exists THEN "asleep" ELSE "running"]
    /\ UNCHANGED <<requests, answers, wakeups, lost>>

LockCalls(c) ==
    /\ c \notin Local /\ pc[c] = "idle" /\ point[c] < MaxLocks
    /\ point' = [point EXCEPT ![c] = @ + 1]
    /\ requests' = [requests EXCEPT ![c] = Append(@, point'[c])]
    /\ pc' = [pc EXCEPT ![c] = "calling"]
    /\ UNCHANGED <<exists, waiting, answers, wakeups, owner, lost>>

(* api.lock and api.unlock of the centerserver                             *)
ApiLock(c) ==
    LET p == Head(requests[c]) IN
    /\ requests[c] # <<>> /\ p # Unlock
    /\ Granted(c, p)
    /\ requests' = [requests EXCEPT ![c] = Tail(@)]
    /\ answers' = [answers EXCEPT ![c] = @ \cup {[point |-> p, ok |-> ~exists]}]
    /\ UNCHANGED <<wakeups, pc, point, lost>>

ApiUnlock(c) ==
    /\ requests[c] # <<>> /\ Head(requests[c]) = Unlock
    /\ Released
    /\ requests' = [requests EXCEPT ![c] = Tail(@)]
    /\ UNCHANGED <<answers, pc, point, lost>>

(* The call returns.  The answer of a call that has failed is for nobody.  *)
LockReturns(c) ==
    \E a \in answers[c] :
        /\ answers' = [answers EXCEPT ![c] = @ \ {a}]
        /\ pc' = IF pc[c] = "calling" /\ a.point = point[c]
                 THEN [pc EXCEPT ![c] = IF a.ok THEN "running" ELSE "asleep"] ELSE pc
        /\ UNCHANGED <<exists, waiting, requests, wakeups, point, owner, lost>>

(* skynet.wakeup: only a coroutine that sleeps on the recover point.       *)
Wakeup(w) ==
    /\ w \in wakeups
    /\ wakeups' = wakeups \ {w}
    /\ IF pc[w.client] = "asleep" /\ point[w.client] = w.point
       THEN pc' = [pc EXCEPT ![w.client] = "running"] /\ UNCHANGED lost
       ELSE lost' = TRUE /\ UNCHANGED pc
    /\ UNCHANGED <<exists, waiting, requests, answers, point, owner>>

(* xpcallReturn: unlock, whether the function has failed or not.           *)
UnlockLocally(c) ==
    /\ c \in Local /\ pc[c] = "running"
    /\ pc' = [pc EXCEPT ![c] = "idle"]
    /\ Released
    /\ UNCHANGED <<requests, answers, point, lost>>

UnlockSends(c) ==
    /\ c \notin Local /\ pc[c] = "running"
    /\ pc' = [pc EXCEPT ![c] = "idle"]
    /\ requests' = [requests EXCEPT ![c] = Append(@, Unlock)]
    /\ UNCHANGED <<exists, waiting, answers, wakeups, point, owner, lost>>

(* The connection breaks while the call waits: the error ends the          *)
(* coroutine, what it has sent may have arrived or not.                    *)
CallFails(c) ==
    /\ pc[c] = "calling"
    /\ pc' = [pc EXCEPT ![c] = "failed"]
    /\ \/ UNCHANGED requests
       \/ requests' = [requests EXCEPT ![c] = <<>>]
    /\ UNCHANGED <<exists, waiting, answers, wakeups, point, owner, lost>>

(* It breaks otherwise: what was sent on it is lost, and nobody is told.   *)
SendsLost(c) ==
    /\ requests[c] # <<>> /\ pc[c] # "calling"
    /\ requests' = [requests EXCEPT ![c] = <<>>]
    /\ lost' = TRUE
    /\ UNCHANGED <<exists, waiting, answers, wakeups, pc, point, owner>>

WakeupLost(w) ==
    /\ w \in wakeups /\ w.client \notin Local
    /\ wakeups' = wakeups \ {w}
    /\ lost' = TRUE
    /\ UNCHANGED <<exists, waiting, requests, answers, pc, point, owner>>

(* A node other than the centerserver stops, its coroutine asleep or in    *)
(* the function under the lock.                                            *)
Stops(c) ==
    /\ c \notin Local /\ pc[c] \in {"asleep", "running"}
    /\ pc' = [pc EXCEPT ![c] = IF pc[c] = "running" THEN "stopped" ELSE "failed"]
    /\ UNCHANGED <<exists, waiting, requests, answers, wakeups, point, owner, lost>>

Center == \E c \in Clients : ApiLock(c) \/ ApiUnlock(c)

Next ==
    \/ \E c \in Clients :
          \/ LockLocally(c) \/ LockCalls(c) \/ LockReturns(c) \/ CallFails(c)
          \/ UnlockLocally(c) \/ UnlockSends(c) \/ SendsLost(c) \/ Stops(c)
    \/ Center
    \/ \E w \in wakeups : Wakeup(w) \/ WakeupLost(w)

Spec == Init /\ [][Next]_vars

(* Messages arrive, and the functions under the lock return.               *)
Fairness ==
    \A c \in Clients :
        /\ WF_vars(ApiLock(c)) /\ WF_vars(ApiUnlock(c)) /\ WF_vars(LockReturns(c))
        /\ WF_vars(UnlockLocally(c)) /\ WF_vars(UnlockSends(c))
        /\ \A p \in Points : WF_vars(Wakeup([client |-> c, point |-> p]))

FairSpec == Spec /\ Fairness
-----------------------------------------------------------------------------
(* No two functions run under the lock, whatever overtakes what, and also  *)
(* when calls fail and unlock does not ask who it comes from.              *)
MutualExclusion ==
    /\ TypeOK
    /\ \A c, d \in Clients : pc[c] = "running" /\ pc[d] = "running" => c = d

(* The lock is the one that csync is within a service: granted in the      *)
(* order in which the requests arrive.  Level 0 is the lock handed over to *)
(* a coroutine that has not gone on, and never will when it has failed.    *)
HandedOver ==
    LET c == owner.of.client IN
    /\ ~owner.atOnce /\ owner.of.point = point[c]
    /\ pc[c] \in {"calling", "asleep", "failed"}
Fifo == INSTANCE FifoLock WITH
    Coroutines <- Waiter,
    Ids <- {Lock},
    queue <- [i \in {Lock} |-> IF exists THEN <<owner.of>> \o waiting ELSE <<>>],
    level <- [i \in {Lock} |-> IF ~exists \/ HandedOver THEN 0 ELSE 1]
ImplementsFifoLock == Fifo!Spec

(* Nobody has the lock or will be told of it: the call that was answered   *)
(* has failed, a node has stopped, the unlock or the wakeup was lost, or   *)
(* the wakeup came when nobody slept on it yet.                            *)
HeldByNobody ==
    /\ exists /\ wakeups = {}
    /\ \A c \in Clients :
          /\ pc[c] # "running"
          /\ \A n \in DOMAIN requests[c] : requests[c][n] # Unlock
          /\ pc[c] = "calling" => [point |-> point[c], ok |-> TRUE] \notin answers[c]

Failed == \E c \in Clients : pc[c] \in {"failed", "stopped"}

(* Whoever asks for the lock gets it, or its call fails: queue is a        *)
(* skynet.queue for the whole cluster (common/gg/ClusterQueue.lua:92).     *)
(* This is so unless a failure, a stop, a lost message or a wakeup that    *)
(* came too early has left the lock with nobody: then nobody ever gets it. *)
Served ==
    \A c \in Clients : pc[c] \in {"calling", "asleep"} ~>
        pc[c] \in {"running", "failed"} \/ (HeldByNobody /\ (Failed \/ lost))
=============================================================================
