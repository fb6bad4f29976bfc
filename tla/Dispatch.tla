------------------------------ MODULE Dispatch ------------------------------
(***************************************************************************)
(* The scheduler of the skynet that the server ships and has changed       *)
(* (gg/skynet/skynet-src): the queues of the services and the global queue *)
(* (skynet_mq.c), the contexts with their counts (skynet_server.c) and the *)
(* threads (skynet_start.c).                                               *)
(*                                                                         *)
(* A step is one section under a lock, or one atomic operation, of one     *)
(* thread.  What a thread does in between is its own: the callback of a    *)
(* service is a choice of sends, kills and launches.  A call that takes    *)
(* several such steps (skynet_context_push, skynet_handle_retire,          *)
(* skynet_context_release, skynet_context_new, skynet_mq_release) is a     *)
(* list of operations the thread has yet to do.  The handles are modelled  *)
(* in module Handle; here the registered ones are a set.                   *)
(***************************************************************************)
EXTENDS Integers, Sequences, FiniteSets

CONSTANTS
    Services,      \* contexts, each with its handle and its queue
    Boot,          \* the service that bootstrap launches
    Workers,       \* thread_worker
    TimerThread, SocketThread,
    Weight,        \* the weight of each worker
    MaxMessages,   \* bound: messages sent by callbacks, timers and sockets
    IdleLoops,     \* rounds of thread_timer until it wakes a worker anyway, 25
    None

Threads == Workers \cup {TimerThread, SocketThread}

ASSUME WorkersAssumption ==
    /\ Boot \in Services /\ None \notin Services
    /\ IsFiniteSet(Services) /\ IsFiniteSet(Workers)
    /\ TimerThread # SocketThread /\ Workers \cap {TimerThread, SocketThread} = {}
(* The table of weights of start (skynet_start.c).                         *)
ASSUME BoundsAssumption ==
    /\ Weight \in [Workers -> (-1)..3]
    /\ MaxMessages \in Nat \ {0} /\ IdleLoops \in Nat \ {0}

(* A message: its source, None for timers and sockets, and a number; the   *)
(* PTYPE_ERROR a dropped message is answered with has number 0.            *)
Message == [from : Services \cup {None}, id : 0..MaxMessages]
NoMessage == [from |-> None, id |-> 0]
ASSUME MessageAssumption == None \notin Message

Ops == {"grab", "push", "unref", "delete", "retire", "init", "settle", "launch", "publish",
        "report", "giveup", "drop", "visit", "exit", "abort"}
Op == [op : Ops, s : Services, m : Message]

VARIABLES
    created,   \* contexts that were allocated
    alive,     \* contexts the handle table maps to
    ref,       \* ctx->ref
    freed,     \* contexts that were freed
    inited,    \* ctx->init
    queue,     \* the messages of q, from head to tail
    inGlobal,  \* q->in_global
    release,   \* q->release
    gone,      \* queues that were freed
    global,    \* the queues in Q, from head to tail
    pc,        \* of the workers
    hold,      \* q of a worker: the queue it has taken from Q
    next,      \* nq: the queue it takes next
    msg,       \* the message it handles
    left,      \* n - i: messages it may handle before it goes on
    todo,      \* per thread, the operations of the calls it is in
    sleepers,  \* m->sleep
    mutex,     \* the owner of m->mutex
    quit,      \* m->quit
    tpc, idle, due,  \* of thread_timer: due is n > 0
    spc,       \* of thread_socket
    sent,      \* messages sent so far
    failed     \* the assertions that have failed

contexts == <<created, alive, ref, freed, inited>>
queues == <<queue, inGlobal, release, gone, global>>
working == <<pc, hold, next, msg, left>>
waiting == <<sleepers, mutex, quit>>
feeding == <<tpc, idle, due, spc>>
vars == <<contexts, queues, working, todo, waiting, feeding, sent, failed>>

WorkerSteps == {"next", "grab", "first", "pop", "call", "turn", "requeue", "pick",
                "drowsy", "doze", "asleep", "waking", "over"}

TypeOK ==
    /\ created \in SUBSET Services /\ alive \in SUBSET created
    /\ freed \in SUBSET created /\ gone \in SUBSET created
    /\ ref \in [Services -> Int]
    /\ inited \in [Services -> BOOLEAN]
    /\ queue \in [Services -> Seq(Message)]
    /\ inGlobal \in [Services -> BOOLEAN] /\ release \in [Services -> BOOLEAN]
    /\ global \in Seq(Services)
    /\ pc \in [Workers -> WorkerSteps]
    /\ hold \in [Workers -> Services \cup {None}]
    /\ next \in [Workers -> Services \cup {None}]
    /\ msg \in [Workers -> Message]
    /\ left \in [Workers -> Nat]
    /\ todo \in [Threads -> Seq(Op)]
    /\ sleepers \in Int
    /\ mutex \in Workers \cup {None}
    /\ quit \in BOOLEAN
    /\ tpc \in {"update", "check", "leave", "over"} /\ idle \in 0..(IdleLoops - 1)
    /\ due \in BOOLEAN /\ spc \in {"poll", "wake"}
    /\ sent \in 0..MaxMessages
    /\ failed \in SUBSET {"init", "release"}

(* When start() makes the threads: bootstrap has launched its service,     *)
(* whose init has sent it a first message.                                 *)
Init ==
    /\ created = {Boot} /\ alive = {Boot} /\ freed = {} /\ gone = {}
    /\ ref = [s \in Services |-> IF s = Boot THEN 1 ELSE 0]
    /\ inited = [s \in Services |-> s = Boot]
    /\ queue = [s \in Services |->
                  IF s = Boot THEN <<[from |-> Boot, id |-> 1]>> ELSE <<>>]
    /\ inGlobal = [s \in Services |-> s = Boot]
    /\ release = [s \in Services |-> FALSE]
    /\ global = <<Boot>>
    /\ pc = [w \in Workers |-> "next"]
    /\ hold = [w \in Workers |-> None] /\ next = [w \in Workers |-> None]
    /\ msg = [w \in Workers |-> NoMessage]
    /\ left = [w \in Workers |-> 0]
    /\ todo = [t \in Threads |-> <<>>]
    /\ sleepers = 0 /\ mutex = None /\ quit = FALSE
    /\ tpc = "update" /\ idle = 0 /\ due = FALSE /\ spc = "poll"
    /\ sent = 1
    /\ failed = {}
-----------------------------------------------------------------------------
(* The calls of a thread, one operation at a time.  Returns(t, ops): the   *)
(* first operation of t is done and goes on with ops.                      *)
Doing(t, op) == todo[t] # <<>> /\ Head(todo[t]).op = op
Calls(op, s) == [op |-> op, s |-> s, m |-> NoMessage]
Sends(s, m) == [op |-> "grab", s |-> s, m |-> m]
Returns(t, ops) == todo' = [todo EXCEPT ![t] = ops \o Tail(@)]

(* skynet_globalmq_push, under the lock of Q.                              *)
GlobalPush(s) == global' = Append(global, s)

(* skynet_handle_grab in skynet_context_push: no context, no message.      *)
Grab(t) ==
    LET a == Head(todo[t]) IN
    /\ Doing(t, "grab")
    /\ IF a.s \in alive
       THEN /\ ref' = [ref EXCEPT ![a.s] = @ + 1]
            /\ Returns(t, <<[a EXCEPT !.op = "push"], Calls("unref", a.s)>>)
       ELSE Returns(t, <<>>) /\ UNCHANGED ref
    /\ UNCHANGED <<created, alive, freed, inited, queues, working, waiting, feeding, sent, failed>>

(* skynet_mq_push: a queue that is nowhere goes to the global queue.       *)
Push(t) ==
    LET a == Head(todo[t]) IN
    /\ Doing(t, "push")
    /\ queue' = [queue EXCEPT ![a.s] = Append(@, a.m)]
    /\ inGlobal' = [inGlobal EXCEPT ![a.s] = TRUE]
    /\ IF inGlobal[a.s] THEN UNCHANGED global ELSE GlobalPush(a.s)
    /\ Returns(t, <<>>)
    /\ UNCHANGED <<contexts, release, gone, working, waiting, feeding, sent, failed>>

(* skynet_context_release: the last one deletes the context.               *)
Unref(t) ==
    LET s == Head(todo[t]).s IN
    /\ Doing(t, "unref")
    /\ ref' = [ref EXCEPT ![s] = @ - 1]
    /\ Returns(t, IF ref[s] = 1 THEN <<Calls("delete", s)>> ELSE <<>>)
    /\ UNCHANGED <<created, alive, freed, inited, queues, working, waiting, feeding, sent, failed>>

(* delete_context with skynet_mq_mark_release, which makes sure that a     *)
(* worker finds the queue, without in_global.                              *)
Delete(t) ==
    LET s == Head(todo[t]).s IN
    /\ Doing(t, "delete")
    /\ failed' = IF release[s] THEN failed \cup {"release"} ELSE failed
    /\ release' = [release EXCEPT ![s] = TRUE]
    /\ IF inGlobal[s] THEN UNCHANGED global ELSE GlobalPush(s)
    /\ freed' = freed \cup {s}
    /\ Returns(t, <<>>)
    /\ UNCHANGED <<created, alive, ref, inited, queue, inGlobal, gone, working, waiting, feeding,
                   sent>>

(* skynet_handle_retire: the table gives up its reference.                 *)
Retire(t) ==
    LET s == Head(todo[t]).s IN
    /\ Doing(t, "retire")
    /\ alive' = alive \ {s}
    /\ Returns(t, IF s \in alive THEN <<Calls("unref", s)>> ELSE <<>>)
    /\ UNCHANGED <<created, ref, freed, inited, queues, working, waiting, feeding, sent, failed>>

(* skynet_handle_retireall, which ABORT calls: a pass visits the slots, and *)
(* a pass that has retired a context is followed by another.  What a visit *)
(* finds, under the lock of the table, is used without it and without a    *)
(* reference (exit), until it is retired by its handle.                    *)
Abort(t) ==
    /\ Doing(t, "abort")
    /\ \E order \in [1..Cardinality(Services) -> Services] :
          /\ \A s \in Services : \E n \in DOMAIN order : order[n] = s
          /\ Returns(t, [n \in DOMAIN order |-> Calls("visit", order[n])])
    /\ UNCHANGED <<contexts, queues, working, waiting, feeding, sent, failed>>

Visit(t) ==
    LET s == Head(todo[t]).s IN
    /\ Doing(t, "visit")
    /\ Returns(t, IF s \in alive THEN <<Calls("exit", s)>> ELSE <<>>)
    /\ UNCHANGED <<contexts, queues, working, waiting, feeding, sent, failed>>

Exit(t) ==
    LET a == Head(todo[t])
        rest == Tail(todo[t])
        again == IF rest # <<>> /\ rest[Len(rest)].op = "abort" THEN <<>>
                 ELSE <<[a EXCEPT !.op = "abort"]>>
    IN
    /\ Doing(t, "exit")
    /\ todo' = [todo EXCEPT ![t] = IF a.s \in alive
                                   THEN <<Calls("unref", a.s)>> \o rest \o again
                                   ELSE rest]
    /\ alive' = alive \ {a.s}
    /\ UNCHANGED <<created, ref, freed, inited, queues, working, waiting, feeding, sent, failed>>

(* skynet_context_new: the init of the module may send its own service a   *)
(* message, and it may fail.                                               *)
InitSends(t) ==
    LET s == Head(todo[t]).s IN
    /\ Doing(t, "init")
    /\ sent < MaxMessages /\ queue[s] = <<>>
    /\ sent' = sent + 1
    /\ todo' = [todo EXCEPT ![t] = <<Sends(s, [from |-> s, id |-> sent'])>> \o @]
    /\ UNCHANGED <<contexts, queues, working, waiting, feeding, failed>>

InitEnds(t, ok) ==
    LET s == Head(todo[t]).s IN
    /\ Doing(t, "init")
    /\ Returns(t, IF ok THEN <<Calls("settle", s)>>
                  ELSE <<Calls("unref", s), Calls("retire", s), Calls("giveup", s)>>)
    /\ UNCHANGED <<contexts, queues, working, waiting, feeding, sent, failed>>

(* After the init: release the reference of the creator, then, unless that *)
(* was the last one, mark the context (launch); give its queue to the      *)
(* workers (publish); and log and return its handle (report).              *)
Settle(t) ==
    LET s == Head(todo[t]).s IN
    /\ Doing(t, "settle")
    /\ ref' = [ref EXCEPT ![s] = @ - 1]
    /\ Returns(t, IF ref[s] = 1 THEN <<Calls("delete", s), Calls("publish", s)>>
                  ELSE <<Calls("launch", s)>>)
    /\ UNCHANGED <<created, alive, freed, inited, queues, working, waiting, feeding, sent, failed>>

Launch_WithoutInit(t) ==
    LET s == Head(todo[t]).s IN
    /\ Doing(t, "launch")
    /\ Returns(t, <<Calls("publish", s), Calls("report", s)>>)
    /\ UNCHANGED <<contexts, queues, working, waiting, feeding, sent, failed>>

Launch(t) ==
    LET s == Head(todo[t]).s IN
    /\ Doing(t, "launch")
    /\ inited' = [inited EXCEPT ![s] = TRUE]
    /\ Returns(t, <<Calls("publish", s), Calls("report", s)>>)
    /\ UNCHANGED <<created, alive, ref, freed, queues, working, waiting, feeding, sent, failed>>

Publish(t) ==
    /\ Doing(t, "publish")
    /\ GlobalPush(Head(todo[t]).s)
    /\ Returns(t, <<>>)
    /\ UNCHANGED <<contexts, queue, inGlobal, release, gone, working, waiting, feeding, sent,
                   failed>>

Report(t) ==
    /\ Doing(t, "report")
    /\ Returns(t, <<>>)
    /\ UNCHANGED <<contexts, queues, working, waiting, feeding, sent, failed>>

(* skynet_mq_release: the queue of a service that is gone is dropped when  *)
(* its context is deleted, else somebody still uses it and it goes round.  *)
GiveUp_Drop(t) ==
    /\ Doing(t, "giveup")
    /\ Returns(t, <<Calls("drop", Head(todo[t]).s)>>)
    /\ UNCHANGED <<contexts, queues, working, waiting, feeding, sent, failed>>

GiveUp(t) ==
    LET s == Head(todo[t]).s IN
    /\ Doing(t, "giveup")
    /\ IF release[s] THEN Returns(t, <<Calls("drop", s)>>) /\ UNCHANGED global
       ELSE Returns(t, <<>>) /\ GlobalPush(s)
    /\ UNCHANGED <<contexts, queue, inGlobal, release, gone, working, waiting, feeding, sent,
                   failed>>

(* _drop_queue: every message is answered with an error, then the queue is *)
(* freed.                                                                  *)
Drop(t) ==
    LET s == Head(todo[t]).s
        m == Head(queue[s])
    IN
    /\ Doing(t, "drop") /\ queue[s] # <<>>
    /\ queue' = [queue EXCEPT ![s] = Tail(@)]
    /\ todo' = [todo EXCEPT ![t] = (IF m.from = None THEN <<>>
                                    ELSE <<Sends(m.from, [from |-> s, id |-> 0])>>) \o @]
    /\ UNCHANGED <<contexts, inGlobal, release, gone, global, working, waiting, feeding, sent,
                   failed>>

Dropped(t) ==
    LET s == Head(todo[t]).s IN
    /\ Doing(t, "drop") /\ queue[s] = <<>>
    /\ inGlobal' = [inGlobal EXCEPT ![s] = FALSE]
    /\ gone' = gone \cup {s}
    /\ Returns(t, <<>>)
    /\ UNCHANGED <<contexts, queue, release, global, working, waiting, feeding, sent, failed>>

Call(t) ==
    \/ Grab(t) \/ Push(t) \/ Unref(t) \/ Delete(t) \/ Retire(t)
    \/ InitSends(t) \/ (\E ok \in BOOLEAN : InitEnds(t, ok)) \/ Settle(t) \/ Launch(t)
    \/ Publish(t) \/ Report(t)
    \/ GiveUp(t) \/ Drop(t) \/ Dropped(t) \/ Abort(t) \/ Visit(t) \/ Exit(t)
-----------------------------------------------------------------------------
(* thread_worker and skynet_context_message_dispatch.                      *)
At(w, step) == pc[w] = step /\ todo[w] = <<>>
Goes(w, step) == pc' = [pc EXCEPT ![w] = step]

(* The worker pops a queue, if it has none and there is one.               *)
Pops(w, found, nothing) ==
    IF global = <<>>
    THEN hold' = [hold EXCEPT ![w] = None] /\ Goes(w, nothing) /\ UNCHANGED global
    ELSE hold' = [hold EXCEPT ![w] = Head(global)] /\ Goes(w, found) /\ global' = Tail(global)

Enter(w) ==
    /\ At(w, "next")
    /\ IF quit THEN Goes(w, "over") /\ UNCHANGED <<hold, global>>
       ELSE IF hold[w] # None THEN Goes(w, "grab") /\ UNCHANGED <<hold, global>>
       ELSE Pops(w, "grab", "drowsy")
    /\ UNCHANGED <<contexts, queue, inGlobal, release, gone, next, msg, left, todo, waiting,
                   feeding, sent, failed>>

Context(w) ==
    LET s == hold[w] IN
    /\ At(w, "grab")
    /\ IF s \in alive
       THEN /\ ref' = [ref EXCEPT ![s] = @ + 1]
            /\ Goes(w, "first")
            /\ UNCHANGED <<hold, todo>>
       ELSE /\ todo' = [todo EXCEPT ![w] = <<Calls("giveup", s)>>]
            /\ hold' = [hold EXCEPT ![w] = None]
            /\ Goes(w, "pick")
            /\ UNCHANGED ref
    /\ UNCHANGED <<created, alive, freed, inited, queues, next, msg, left, waiting, feeding, sent,
                   failed>>

(* After its first message a worker goes on for a share of the queue that  *)
(* its weight gives; with a negative weight it goes on to the next queue.  *)
Share(w, n) == IF Weight[w] < 0 THEN 0 ELSE n \div 2^Weight[w]

Take_Newest(w) ==
    LET s == hold[w]
        last == Len(queue[s])
        n == Share(w, last - 1)
    IN
    /\ At(w, "first") \/ At(w, "pop")
    /\ queue[s] # <<>>
    /\ queue' = [queue EXCEPT ![s] = SubSeq(@, 1, last - 1)]
    /\ msg' = [msg EXCEPT ![w] = queue[s][last]]
    /\ left' = [left EXCEPT ![w] = IF pc[w] = "pop" THEN @ - 1
                                   ELSE IF n > 0 THEN n - 1 ELSE 0]
    /\ failed' = IF inited[s] THEN failed ELSE failed \cup {"init"}
    /\ Goes(w, "call")
    /\ UNCHANGED <<contexts, inGlobal, release, gone, global, hold, next, todo, waiting, feeding,
                   sent>>

(* skynet_mq_pop; the length is read in a section of its own, but only     *)
(* what others push can come between.  dispatch_message asserts init.      *)
Take(w) ==
    LET s == hold[w]
        n == Share(w, Len(queue[s]) - 1)
    IN
    /\ At(w, "first") \/ At(w, "pop")
    /\ queue[s] # <<>>
    /\ queue' = [queue EXCEPT ![s] = Tail(@)]
    /\ msg' = [msg EXCEPT ![w] = Head(queue[s])]
    /\ left' = [left EXCEPT ![w] = IF pc[w] = "pop" THEN @ - 1
                                   ELSE IF n > 0 THEN n - 1 ELSE 0]
    /\ failed' = IF inited[s] THEN failed ELSE failed \cup {"init"}
    /\ Goes(w, "call")
    /\ UNCHANGED <<contexts, inGlobal, release, gone, global, hold, next, todo, waiting, feeding,
                   sent>>

Empty_KeepsFlag(w) ==
    LET s == hold[w] IN
    /\ At(w, "first") \/ At(w, "pop")
    /\ queue[s] = <<>>
    /\ todo' = [todo EXCEPT ![w] = <<Calls("unref", s)>>]
    /\ hold' = [hold EXCEPT ![w] = None]
    /\ Goes(w, "pick")
    /\ UNCHANGED <<contexts, queues, next, msg, left, waiting, feeding, sent, failed>>

(* An empty queue is let go.                                               *)
Empty(w) ==
    LET s == hold[w] IN
    /\ At(w, "first") \/ At(w, "pop")
    /\ queue[s] = <<>>
    /\ inGlobal' = [inGlobal EXCEPT ![s] = FALSE]
    /\ todo' = [todo EXCEPT ![w] = <<Calls("unref", s)>>]
    /\ hold' = [hold EXCEPT ![w] = None]
    /\ Goes(w, "pick")
    /\ UNCHANGED <<contexts, queue, release, gone, global, next, msg, left, waiting, feeding, sent,
                   failed>>

Pick(w) ==
    /\ At(w, "pick")
    /\ Pops(w, "next", "drowsy")
    /\ UNCHANGED <<contexts, queue, inGlobal, release, gone, next, msg, left, todo, waiting,
                   feeding, sent, failed>>

Turn_KeepsRef(w) ==
    /\ At(w, "turn")
    /\ IF global = <<>> THEN Goes(w, "next") /\ UNCHANGED <<next, global>>
       ELSE /\ next' = [next EXCEPT ![w] = Head(global)]
            /\ global' = Tail(global)
            /\ Goes(w, "requeue")
    /\ UNCHANGED <<contexts, queue, inGlobal, release, gone, hold, msg, left, todo, waiting,
                   feeding, sent, failed>>

(* The next queue: if there is one, the present one goes to the end.       *)
Turn(w) ==
    /\ At(w, "turn")
    /\ IF global = <<>>
       THEN /\ todo' = [todo EXCEPT ![w] = <<Calls("unref", hold[w])>>]
            /\ Goes(w, "next")
            /\ UNCHANGED <<next, global>>
       ELSE /\ next' = [next EXCEPT ![w] = Head(global)]
            /\ global' = Tail(global)
            /\ Goes(w, "requeue")
            /\ UNCHANGED todo
    /\ UNCHANGED <<contexts, queue, inGlobal, release, gone, hold, msg, left, waiting, feeding,
                   sent, failed>>

Requeue(w) ==
    /\ At(w, "requeue")
    /\ GlobalPush(hold[w])
    /\ todo' = [todo EXCEPT ![w] = <<Calls("unref", hold[w])>>]
    /\ hold' = [hold EXCEPT ![w] = next[w]]
    /\ next' = [next EXCEPT ![w] = None]
    /\ Goes(w, "next")
    /\ UNCHANGED <<contexts, queue, inGlobal, release, gone, msg, left, waiting, feeding, sent,
                   failed>>
-----------------------------------------------------------------------------
(* What the callback of a service may do: skynet_send, KILL and EXIT,      *)
(* ABORT, LAUNCH.  Nobody knows a service whose skynet_context_new   *)
(* has not returned, but the service itself.                               *)
InLaunch(s) ==
    \E t \in Threads : \E n \in 1..Len(todo[t]) :
        todo[t][n].s = s /\ todo[t][n].op \in {"init", "settle", "launch", "publish", "report", "giveup"}
Knows(w, s) == s \in created /\ (s = hold[w] \/ ~InLaunch(s))

HandlerSends(w, s) ==
    /\ At(w, "call") /\ Knows(w, s) /\ sent < MaxMessages
    /\ sent' = sent + 1
    /\ todo' = [todo EXCEPT ![w] = <<Sends(s, [from |-> hold[w], id |-> sent'])>>]
    /\ UNCHANGED <<contexts, queues, working, waiting, feeding, failed>>

HandlerKills(w, s) ==
    /\ At(w, "call") /\ Knows(w, s) /\ s \in alive
    /\ todo' = [todo EXCEPT ![w] = <<Calls("retire", s)>>]
    /\ UNCHANGED <<contexts, queues, working, waiting, feeding, sent, failed>>

HandlerAborts(w) ==
    /\ At(w, "call") /\ alive # {}
    /\ todo' = [todo EXCEPT ![w] = <<Calls("abort", hold[w])>>]
    /\ UNCHANGED <<contexts, queues, working, waiting, feeding, sent, failed>>

(* skynet_context_new up to the init: two references, and a queue that     *)
(* counts as being in the global queue.                                    *)
HandlerLaunches(w, s) ==
    /\ At(w, "call") /\ s \notin created
    /\ created' = created \cup {s} /\ alive' = alive \cup {s}
    /\ ref' = [ref EXCEPT ![s] = 2]
    /\ inGlobal' = [inGlobal EXCEPT ![s] = TRUE]
    /\ todo' = [todo EXCEPT ![w] = <<Calls("init", s)>>]
    /\ UNCHANGED <<freed, inited, queue, release, gone, global, working, waiting, feeding, sent,
                   failed>>

HandlerReturns(w) ==
    /\ At(w, "call")
    /\ Goes(w, IF left[w] > 0 THEN "pop" ELSE "turn")
    /\ UNCHANGED <<contexts, queues, hold, next, msg, left, todo, waiting, feeding, sent, failed>>
-----------------------------------------------------------------------------
(* A worker without a queue sleeps.                                        *)
Drowsy(w) ==
    /\ At(w, "drowsy") /\ mutex = None
    /\ mutex' = w
    /\ sleepers' = sleepers + 1
    /\ Goes(w, "doze")
    /\ UNCHANGED <<contexts, queues, hold, next, msg, left, todo, quit, feeding, sent, failed>>

Doze(w) ==
    /\ At(w, "doze")
    /\ mutex' = None
    /\ IF quit THEN sleepers' = sleepers - 1 /\ Goes(w, "next")
       ELSE UNCHANGED sleepers /\ Goes(w, "asleep")
    /\ UNCHANGED <<contexts, queues, hold, next, msg, left, todo, quit, feeding, sent, failed>>

SpuriousWakeup(w) ==
    /\ At(w, "asleep")
    /\ Goes(w, "waking")
    /\ UNCHANGED <<contexts, queues, hold, next, msg, left, todo, waiting, feeding, sent, failed>>

Wake(w) ==
    /\ At(w, "waking") /\ mutex = None
    /\ sleepers' = sleepers - 1
    /\ Goes(w, "next")
    /\ UNCHANGED <<contexts, queues, hold, next, msg, left, todo, mutex, quit, feeding, sent,
                   failed>>

(* wakeup(m, busy), with n the number of sleepers it takes.                *)
WakeOne(n) ==
    IF sleepers >= n /\ \E w \in Workers : pc[w] = "asleep"
    THEN \E w \in Workers : pc[w] = "asleep" /\ Goes(w, "waking")
    ELSE UNCHANGED pc

(* thread_timer: timeouts that are due, then the wakeup when there were    *)
(* some, or after a number of rounds without.                              *)
TimerSends(s) ==
    /\ tpc = "update" /\ todo[TimerThread] = <<>>
    /\ s \in created /\ sent < MaxMessages
    /\ sent' = sent + 1
    /\ due' = TRUE
    /\ todo' = [todo EXCEPT ![TimerThread] = <<Sends(s, [from |-> None, id |-> sent'])>>]
    /\ UNCHANGED <<contexts, queues, working, waiting, tpc, idle, spc, failed>>

TimerUpdated ==
    /\ tpc = "update" /\ todo[TimerThread] = <<>>
    /\ tpc' = "check"
    /\ UNCHANGED <<contexts, queues, working, todo, waiting, idle, due, spc, sent, failed>>

Total == Cardinality(created \ freed)

TimerChecks ==
    /\ tpc = "check"
    /\ IF Total = 0 THEN tpc' = "leave" /\ UNCHANGED <<pc, idle, due>>
       ELSE /\ IF due \/ idle + 1 = IdleLoops THEN WakeOne(1) /\ idle' = 0
               ELSE UNCHANGED pc /\ idle' = idle + 1
            /\ due' = FALSE /\ tpc' = "update"
    /\ UNCHANGED <<contexts, queues, hold, next, msg, left, todo, waiting, spc, sent, failed>>

TimerLeaves_OnlyFlag ==
    /\ tpc = "leave" /\ mutex = None
    /\ quit' = TRUE /\ tpc' = "over"
    /\ UNCHANGED <<contexts, queues, working, todo, sleepers, mutex, idle, due, spc, sent, failed>>

TimerLeaves ==
    /\ tpc = "leave" /\ mutex = None
    /\ quit' = TRUE /\ tpc' = "over"
    /\ pc' = [w \in Workers |-> IF pc[w] = "asleep" THEN "waking" ELSE pc[w]]
    /\ UNCHANGED <<contexts, queues, hold, next, msg, left, todo, sleepers, mutex, idle, due, spc,
                   sent, failed>>

(* thread_socket, until it gets the command to exit.                       *)
SocketSends(s) ==
    /\ spc = "poll" /\ todo[SocketThread] = <<>> /\ tpc \in {"update", "check"}
    /\ s \in created /\ sent < MaxMessages
    /\ sent' = sent + 1
    /\ spc' = "wake"
    /\ todo' = [todo EXCEPT ![SocketThread] = <<Sends(s, [from |-> None, id |-> sent'])>>]
    /\ UNCHANGED <<contexts, queues, working, waiting, tpc, idle, due, failed>>

SocketWakes ==
    /\ spc = "wake" /\ todo[SocketThread] = <<>>
    /\ WakeOne(Cardinality(Workers))
    /\ spc' = "poll"
    /\ UNCHANGED <<contexts, queues, hold, next, msg, left, todo, waiting, tpc, idle, due, sent,
                   failed>>
-----------------------------------------------------------------------------
Loop(w) ==
    \/ Enter(w) \/ Context(w) \/ Take(w) \/ Empty(w) \/ Pick(w) \/ Turn(w) \/ Requeue(w)
    \/ HandlerReturns(w) \/ Doze(w)

Handler(w) ==
    \/ HandlerAborts(w)
    \/ \E s \in Services : HandlerSends(w, s) \/ HandlerKills(w, s) \/ HandlerLaunches(w, s)

Next ==
    \/ \E t \in Threads : Call(t)
    \/ \E w \in Workers : Loop(w) \/ Handler(w) \/ Drowsy(w) \/ Wake(w) \/ SpuriousWakeup(w)
    \/ \E s \in Services : TimerSends(s) \/ SocketSends(s)
    \/ TimerUpdated \/ TimerChecks \/ TimerLeaves \/ SocketWakes

Spec == Init /\ [][Next]_vars

-----------------------------------------------------------------------------
(* Operations on s that threads have yet to do.                            *)
Pending(s, ops) ==
    UNION {{t} \X {n \in DOMAIN todo[t] : todo[t][n].s = s /\ todo[t][n].op \in ops} :
           t \in Threads}

(* Where a queue can be: in Q, with a worker, or in a call that has still  *)
(* to hand it on.                                                          *)
Carries == {"init", "settle", "launch", "publish", "giveup", "drop"}
Places(s) ==
    Cardinality({n \in DOMAIN global : global[n] = s})
    + Cardinality({w \in Workers : hold[w] = s}) + Cardinality({w \in Workers : next[w] = s})
    + Cardinality(Pending(s, Carries))

(* A queue that has messages, or whose context was deleted, is somewhere a *)
(* worker finds it, until it is freed; in_global says where it is; and the *)
(* queue that was freed is nowhere.  It is never in two places, so no two  *)
(* workers run the callback of one service: what skynet_globalmq_push      *)
(* asserts of queue->next (skynet_mq.c:47) and every Lua service relies    *)
(* on.  skynet_mq_push, the deletion of the context and the failed launch  *)
(* put it there independently of each other.                               *)
Scheduled ==
    /\ TypeOK
    /\ \A s \in created :
          Places(s) = IF s \notin gone /\ (queue[s] # <<>> \/ release[s] \/ inGlobal[s])
                      THEN 1 ELSE 0

(* ctx->ref counts those who may use the context without a lock: the       *)
(* handle table, the launch until it settles, the workers that dispatch    *)
(* its queue, and every call that has still to release it.                 *)
Owes == {"unref", "init", "settle"}
RefCounted ==
    \A s \in Services :
        ref[s] = (IF s \in alive THEN 1 ELSE 0)
                 + Cardinality({w \in Workers : hold[w] = s /\
                        pc[w] \in {"first", "pop", "call", "turn", "requeue"}})
                 + Cardinality(Pending(s, Owes))

(* No context is used after delete_context and no queue after _release, by *)
(* those who own a reference, though nothing but the count keeps them.     *)
(* Three uses own none, and the context may be freed before them: in       *)
(* skynet_handle_retireall (exit, skynet_server.c:387 and 390), when       *)
(* another thread has retired it since the visit; in skynet_context_new    *)
(* after it has released its own (launch, line 168), when ABORT has come   *)
(* before; and there and in cmd_launch once the service runs (report,      *)
(* lines 172 and 502), when it has ended itself as well.                   *)
References(t) ==
    IF todo[t] = <<>> THEN {}
    ELSE {s \in Services : Head(todo[t]).s = s
                           /\ Head(todo[t]).op \in {"push", "unref", "init", "settle", "delete"}}
NotFreedWhileReferenced ==
    /\ \A t \in Threads : References(t) \cap freed = {}
    /\ \A w \in Workers :
          pc[w] \in {"first", "pop", "call", "turn", "requeue"} /\ hold[w] # None
             => hold[w] \notin freed
    /\ \A s \in freed : ref[s] = 0
    /\ gone \subseteq freed

(* No assertion of the code fails: the context is initialised when it      *)
(* handles a message (skynet_server.c:264), and is deleted once            *)
(* (skynet_mq.c:222).                                                      *)
AssertionsHold == failed = {}

(* The runtime is the system of actors of Services: what a worker runs is  *)
(* what its service handles, and a service is down when its context was    *)
(* deleted.                                                                *)
Handling(s) == {w \in Workers : pc[w] = "call" /\ hold[w] = s}
Running == [s \in Services |->
              IF Handling(s) = {} THEN None ELSE msg[CHOOSE w \in Handling(s) : TRUE]]
Status == [s \in Services |->
             IF s \notin created THEN "none" ELSE IF s \in freed THEN "down" ELSE "up"]
Actors == INSTANCE Services WITH
    Messages <- Message, mail <- queue, running <- Running, status <- Status
ImplementsServices == Actors!Spec

(* When thread_timer has ended nobody wakes a worker any more: none sleeps *)
(* then, whatever it did while the timer set m->quit and broadcast.        *)
AllAwake == tpc = "over" => \A w \in Workers : pc[w] # "asleep"
=============================================================================
