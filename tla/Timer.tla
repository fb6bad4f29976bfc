------------------------------- MODULE Timer --------------------------------
(***************************************************************************)
(* The timers of the Lua services (gg/base/timer.lua, ctimer): a table of  *)
(* timers by id, the ids by name, and a pool of the records of timers that *)
(* are over.  The closures given to skynet.timeout cannot be taken back;   *)
(* they look their timer up when they run.  A callback may yield, so it is *)
(* a step to enter it and another to come back, and anything may happen in *)
(* between, by the callback itself or by others.                           *)
(***************************************************************************)
EXTENDS Integers, Sequences, FiniteSets

CONSTANTS
    MaxId,       \* bound: timers that are made
    Names,
    LoopCounts,  \* the loopcnt given to timeloop, -1 for endless loops
    MaxCalls,    \* bound: how often a timer is called back
    None

ASSUME TimerAssumption ==
    {MaxId, MaxCalls} \subseteq Nat \ {0} /\ LoopCounts \subseteq Int

Ids == 1..MaxId
Records == 1..MaxId  \* a record is made when the pool is empty

ASSUME NoneAssumption == None \notin Records

VARIABLES
    id,       \* self.id
    timers,   \* self.timers[id]: the record
    named,    \* self.timers[name]: the ids
    record,   \* the fields of the records
    pool,     \* self.timerpool
    armed,    \* the closures that skynet.timeout has still to run
    running,  \* the closures that are in their callback
    calls,    \* history: how often the callback was called
    asked,    \* history: loopcnt, 0 for the timers that are no loops
    deleted,  \* history: the timers deleted otherwise than by their end
    midway,   \* history: those deleted while their callback ran
    unarmed   \* history: the timers whose arming raised an error

vars == <<id, timers, named, record, pool, armed, running, calls, asked, deleted, midway, unarmed>>

Record == [id : 0..MaxId, callback : BOOLEAN, cnt : Nat, loopcnt : Int,
           name : Names \cup {None}]
Kinds == {"once", "loop", "cron"}
Closure == [id : Ids, kind : Kinds]

TypeOK ==
    /\ id \in 0..MaxId
    /\ timers \in [Ids -> Records \cup {None}]
    /\ named \in [Names -> SUBSET Ids]
    /\ record \in [Records -> Record]
    /\ pool \in Seq(Records)
    /\ armed \in SUBSET Closure
    /\ running \in SUBSET [closure : Closure, obj : Records]
    /\ calls \in [Ids -> Nat] /\ asked \in [Ids -> Int] /\ deleted \in SUBSET Ids
    /\ midway \in SUBSET deleted /\ unarmed \in SUBSET Ids

Init ==
    /\ id = 0
    /\ timers = [i \in Ids |-> None]
    /\ named = [n \in Names |-> {}]
    /\ record = [r \in Records |-> [id |-> 0, callback |-> FALSE, cnt |-> 0, loopcnt |-> 0,
                                    name |-> None]]
    /\ pool = <<>>
    /\ armed = {} /\ running = {}
    /\ calls = [i \in Ids |-> 0] /\ asked = [i \in Ids |-> 0] /\ deleted = {} /\ midway = {}
    /\ unarmed = {}
-----------------------------------------------------------------------------
InPool == {pool[n] : n \in DOMAIN pool}
Registered == {i \in Ids : timers[i] # None}

(* genid                                                                   *)
GenId == id + 1

(* addtimer: the last record of the pool, with the fields nobody resets,   *)
(* or a new one.                                                           *)
Unused == Records \ (InPool \cup {timers[i] : i \in Registered} \cup {f.obj : f \in running})
NextRecord == IF pool # <<>> THEN pool[Len(pool)] ELSE CHOOSE x \in Unused : TRUE
Filled(old, new, kind, loopcnt) ==
    [old EXCEPT !.id = new, !.callback = TRUE,
                !.cnt = IF kind = "loop" THEN 0 ELSE @,
                !.loopcnt = IF kind = "loop" THEN loopcnt ELSE @]
AddTimer(kind, loopcnt) ==
    LET new == GenId
        r == NextRecord
    IN
    /\ id < MaxId
    /\ id' = new
    /\ pool' = IF pool # <<>> THEN SubSeq(pool, 1, Len(pool) - 1) ELSE pool
    /\ record' = [record EXCEPT ![r] = Filled(@, new, kind, loopcnt)]
    /\ timers' = [timers EXCEPT ![new] = r]
    /\ asked' = [asked EXCEPT ![new] = loopcnt]
    /\ UNCHANGED <<named, running, calls, deleted, midway>>

(* skynet_timeout, or the error that comes before it: the timer stays in   *)
(* the table, and nothing waits for it.                                    *)
Armed(c) == armed' = armed \cup {c} /\ UNCHANGED unarmed
ArmingFails(c) == unarmed' = unarmed \cup {c.id} /\ UNCHANGED armed

Added(kind, loopcnt) ==
    AddTimer(kind, loopcnt) /\ Armed([id |-> GenId, kind |-> kind])
AddedUnarmed(kind, loopcnt) ==
    AddTimer(kind, loopcnt) /\ ArmingFails([id |-> GenId, kind |-> kind])

(* timeout, timeout2                                                       *)
Timeout == Added("once", 0)

(* timeloop: error("timeloop 0 interval") comes after addtimer.            *)
TimeLoop == \E n \in LoopCounts : Added("loop", n)
TimeLoopFails == \E n \in LoopCounts : AddedUnarmed("loop", n)

(* cron_timeout arms the first time at once.  cronexpr.nexttime raises an  *)
(* error when it finds no time in this year and the next, and the interval *)
(* to the time it finds is asserted to be positive.                        *)
CronTimeout == Added("cron", 0)
CronTimeoutFails == AddedUnarmed("cron", 0)

(* deltimer, for a set of timers in some order; fields are those of the    *)
(* records before.                                                         *)
Forgets(ids, fields) ==
    /\ timers' = [i \in Ids |-> IF i \in ids THEN None ELSE timers[i]]
    /\ record' = [r \in Records |->
                    IF \E i \in ids : timers[i] = r THEN [fields[r] EXCEPT !.callback = FALSE]
                    ELSE fields[r]]
    /\ \E order \in [1..Cardinality(ids) -> ids] :
          /\ \A i \in ids : \E n \in DOMAIN order : order[n] = i
          /\ pool' = pool \o [n \in DOMAIN order |-> timers[order[n]]]

Deleted(ids, fields) ==
    /\ Forgets(ids, fields)
    /\ named' = [n \in Names |-> named[n] \ {i \in ids : record[timers[i]].name = n}]

CalledBack(ids) == {i \in ids : \E f \in running : f.closure.id = i}

DelTimer(i) ==
    /\ i \in Registered
    /\ Deleted({i}, record)
    /\ deleted' = deleted \cup {i} /\ midway' = midway \cup CalledBack({i})
    /\ UNCHANGED <<id, armed, running, calls, asked, unarmed>>

UnTimeout(n) ==
    LET ids == named[n] \cap Registered IN
    /\ ids # {}
    /\ Deleted(ids, record)
    /\ deleted' = deleted \cup ids /\ midway' = midway \cup CalledBack(ids)
    /\ UNCHANGED <<id, armed, running, calls, asked, unarmed>>

(* name: the timer leaves the name its record has.                         *)
Name(i, n) ==
    LET r == timers[i] IN
    /\ i \in Registered /\ record[r].name # n
    /\ named' = [m \in Names |-> IF m = n THEN named[m] \cup {i}
                                 ELSE IF m = record[r].name THEN named[m] \ {i}
                                 ELSE named[m]]
    /\ record' = [record EXCEPT ![r].name = n]
    /\ UNCHANGED <<id, timers, pool, armed, running, calls, asked, deleted, midway, unarmed>>
-----------------------------------------------------------------------------
(* skynet runs a closure: it looks its timer up, and calls the callback.   *)
Fire(c) ==
    /\ c \in armed /\ calls[c.id] < MaxCalls
    /\ armed' = armed \ {c}
    /\ IF c.id \in Registered
       THEN /\ running' = running \cup {[closure |-> c, obj |-> timers[c.id]]}
            /\ calls' = [calls EXCEPT ![c.id] = @ + 1]
       ELSE UNCHANGED <<running, calls>>
    /\ UNCHANGED <<id, timers, named, record, pool, asked, deleted, midway, unarmed>>

(* ontimeout deletes the timer, if it is still there.                      *)
OnceReturns_Blind(f) ==
    /\ f \in running /\ f.closure.kind = "once"
    /\ running' = running \ {f}
    /\ pool' = Append(pool, f.obj)
    /\ timers' = [timers EXCEPT ![f.closure.id] = None]
    /\ UNCHANGED <<id, named, record, armed, calls, asked, deleted, midway, unarmed>>

OnceReturns(f) ==
    /\ f \in running /\ f.closure.kind = "once"
    /\ running' = running \ {f}
    /\ Deleted({f.closure.id} \cap Registered, record)
    /\ UNCHANGED <<id, armed, calls, asked, deleted, midway, unarmed>>

(* timeloop_ontimeout goes on with the record it found before.             *)
LoopReturns_OneMore(f) ==
    LET r == f.obj
        counted == [record EXCEPT ![r].cnt = @ + 1]
        over == record[r].loopcnt # -1 /\ counted[r].cnt > record[r].loopcnt
    IN
    /\ f \in running /\ f.closure.kind = "loop"
    /\ running' = running \ {f}
    /\ Deleted(IF over THEN {f.closure.id} \cap Registered ELSE {}, counted)
    /\ armed' = IF over THEN armed ELSE armed \cup {f.closure}
    /\ UNCHANGED <<id, calls, asked, deleted, midway, unarmed>>

LoopReturns(f) ==
    LET r == f.obj
        counted == [record EXCEPT ![r].cnt = @ + 1]
        over == record[r].loopcnt # -1 /\ counted[r].cnt >= record[r].loopcnt
    IN
    /\ f \in running /\ f.closure.kind = "loop"
    /\ running' = running \ {f}
    /\ Deleted(IF over THEN {f.closure.id} \cap Registered ELSE {}, counted)
    /\ armed' = IF over THEN armed ELSE armed \cup {f.closure}
    /\ UNCHANGED <<id, calls, asked, deleted, midway, unarmed>>

CronReturns_NotArmed(f) ==
    /\ f \in running /\ f.closure.kind = "cron"
    /\ running' = running \ {f}
    /\ UNCHANGED <<id, timers, named, record, pool, armed, calls, asked, deleted, midway, unarmed>>

CronReturns(f) ==
    /\ f \in running /\ f.closure.kind = "cron"
    /\ running' = running \ {f}
    /\ Armed(f.closure) \/ ArmingFails(f.closure)
    /\ UNCHANGED <<id, timers, named, record, pool, calls, asked, deleted, midway>>

Next ==
    \/ Timeout \/ TimeLoop \/ TimeLoopFails \/ CronTimeout \/ CronTimeoutFails
    \/ \E i \in Ids : DelTimer(i) \/ \E n \in Names : Name(i, n)
    \/ \E n \in Names : UnTimeout(n)
    \/ \E c \in armed : Fire(c)
    \/ \E f \in running : OnceReturns(f) \/ LoopReturns(f) \/ CronReturns(f)

Spec == Init /\ [][Next]_vars
-----------------------------------------------------------------------------
(* A record belongs to one timer, or is once in the pool: no timer runs    *)
(* the callback of another, though callbacks delete timers, their own too, *)
(* and make new ones before they return.  What untimeout finds under a     *)
(* name are timers with records of that name.                              *)
RecordsApart ==
    /\ TypeOK
    /\ \A i, j \in Registered : timers[i] = timers[j] => i = j
    /\ \A n, m \in DOMAIN pool : pool[n] = pool[m] => n = m
    /\ \A i \in Registered :
          /\ timers[i] \notin InPool
          /\ record[timers[i]].id = i /\ record[timers[i]].callback
    /\ \A n \in Names : named[n] \subseteq {i \in Registered : record[timers[i]].name = n}

(* Nobody is waited for twice, and a timer that is there is waited for or  *)
(* in its callback, so it does not sleep for ever: but for those whose     *)
(* arming raised an error (timer.lua:73, 115, 117), which stay in the      *)
(* table, and nothing will ever wake.                                      *)
Waits(i) ==
    Cardinality({c \in armed : c.id = i}) + Cardinality({f \in running : f.closure.id = i})

WaitedForOnce ==
    \A i \in Ids : Waits(i) <= 1 /\ (i \in Registered \ unarmed => Waits(i) = 1)

(* A loop is called back loopcnt times (gg/base/timer.lua:47), once at     *)
(* least: not fewer when it has come to its end, and never more,           *)
AsOften ==
    \A i \in 1..id :
        asked[i] > 0 =>
            /\ calls[i] <= asked[i]
            /\ i \notin Registered \cup deleted => calls[i] = asked[i]

(* which may only fail by a timer deleted while its callback runs.         *)
LoopsAsOften == midway = {} => AsOften
=============================================================================
