------------------------------ MODULE FifoLock ------------------------------
(***************************************************************************)
(* What csync promises its callers: for every id, a re-entrant lock that   *)
(* is granted in the order of the requests.  The first of queue[i] owns    *)
(* the lock; level[i] counts the funcs it runs under it, 0 between the     *)
(* hand-over of the lock and the moment the new owner is scheduled.        *)
(***************************************************************************)
EXTENDS Naturals, Sequences

CONSTANTS Coroutines, Ids

VARIABLES queue, level

lockVars == <<queue, level>>

Init ==
    /\ queue = [i \in Ids |-> <<>>]
    /\ level = [i \in Ids |-> 0]

(* A request joins the queue; on a free lock the requester runs at once.   *)
Request(c, i) ==
    /\ \A n \in 1..Len(queue[i]) : queue[i][n] # c
    /\ queue' = [queue EXCEPT ![i] = Append(@, c)]
    /\ level' = IF queue[i] = <<>> THEN [level EXCEPT ![i] = 1] ELSE level

(* The owner starts to run, or runs one level deeper.                      *)
Enter(i) ==
    /\ queue[i] # <<>>
    /\ level' = [level EXCEPT ![i] = @ + 1]
    /\ UNCHANGED queue

(* The owner ends one func; ending the outermost one passes the lock on.   *)
Leave(i) ==
    /\ level[i] > 0
    /\ level' = [level EXCEPT ![i] = @ - 1]
    /\ queue' = IF level[i] = 1 THEN [queue EXCEPT ![i] = Tail(@)] ELSE queue

Next == \E i \in Ids : (\E c \in Coroutines : Request(c, i)) \/ Enter(i) \/ Leave(i)

Spec == Init /\ [][Next]_lockVars
=============================================================================
