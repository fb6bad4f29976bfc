# A verification development for BasWarServer

BasWarServer is the server side of a strategy game: Lua services on skynet,
spread over several processes, with MongoDB and Redis behind them. This
directory holds TLA+ modules of the parts where a wrong order of steps loses
what a player owns, the TLC configurations that check them on small instances,
and theorems about them with proofs that TLAPS checks. `PROJECT.json` lists the
runs, the mutants that show each property can fail, the source lines of every
definition, the findings, the hazards and the theorems.

Paths below are relative to `src/server/src/`.

Most of the repository's lines are C and Lua it did not write: jemalloc, Lua,
cjson and the drivers, several times over. What the server wrote itself is the
Lua of `app/`, `common/` and `gg/`, and what it changed is the runtime in
`gg/skynet/skynet-src`. The modules are about these two.

## How the program runs

One rule of skynet shapes every module. A service handles its messages in
coroutines of which one runs at a time; a handler runs without interruption
until it *yields*: in `skynet.call`, `skynet.sleep`, `skynet.wait`, or in
anything that reaches one of them, which includes every access to MongoDB,
Redis and another service. Between two yields a handler is atomic. Across a
yield anything may have changed. So an action of these modules is one stretch
of a handler between two yields, and the hazards sit where the code reads a
table, yields, and then uses what it read.

The rule is itself the work of a C program, which the server ships in a copy with
changes of its own (ticks of a millisecond, an abort by commands): module
`Dispatch` models it, threads and locks and counts, and shows that it is the
system of actors described by `Services`, which all other modules build on.

Within one node a service answers in the order it was asked, and all database
access of a service goes to one mongodb service: `PlayerMgr` models the database
as served in the order of the calls. Between nodes a `send` is not answered and
is lost when the connection or the other side is down (`Recharge` models that).

## The system's parts

| component | state it keeps | operations | talks to |
|---|---|---|---|
| sync (`gg/base/sync.lua`, `skynet/queue.lua`) | locker per id, its count, a pool of lockers; in a locker the holder, its depth, the waiting coroutines | `once_do(id, func)` | callers in the same service |
| playermgr (`app/game/player/playermgr/`) | registered players, players by link, last use, players being loaded | load, add, delete, bind, kick, unload idle players every minute | savemgr, database, login |
| login handlers (`app/game/client/`) | pid and role of a link | enter game, exit game, filter of every request, close of a link | playermgr, sync, login server |
| player commands (`app/game/cluster/api.lua`) | none | load the player, do a command on it | all services send them |
| savemgr (`gg/base/savemgr.lua`) | objects saved by timer | autosave, nowsave, closesave | timer, database |
| roaming (`gg.route`, `go_server`) | server of a role | route a link at login | center, other game servers |
| chainbridge (`app/chainbridge/`, the player's `ChainBridgeBag`) | orders in MongoDB, marks and credits of the player | look up confirmed orders and send them, credit them, report them; withdrawals, NFTs | game servers, share |
| cluster queue (`common/gg/ClusterQueue.lua`) | locks of the center, their waiting nodes | lock, unlock over the cluster | center and every node |
| cluster and internal actors (`common/actor/`, `common/gg/PlayerProxy.lua`) | sessions, callbacks, cached node of a role | call, send, call with timeout | all nodes |
| brief (`common/brief/`) | copies of players' briefs and their subscribers | get, subscribe, set, sync | center |
| center (`app/center/gg/NodeMgr.lua`) | nodes and their last heartbeat | login, logout, heartbeat, down | all nodes |
| timer (`gg/base/timer.lua`, `cronexpr`) | timers by id, a pool of records | timeout, timeloop, cron, delete | everything |
| skynet scheduler (`skynet_mq.c`, `skynet_server.c`, `skynet_start.c`) | mailboxes, the global queue, contexts with their counts, sleeping workers | push, dispatch, launch, release, abort, wake and quit | every service |
| skynet handles (`skynet_handle.c`) | slots by handle, names | register, retire, retire all, grab, name, find | scheduler |
| skynet timer (`skynet_timer.c`) | wheel of ticks, levels of coarser slots, 32 bit clock | timeout, update | scheduler, every Lua timer |
| shutdown (`gg.exit`) | state of the service | ban logins, kick all, save all | playermgr, savemgr |
| starmap, match, bigmap, union, mail, chat | grids, matches, members, letters | game rules across players | game servers |
| player bags | content of one player | sequential commands | the player only |
| login server, gate, mongodb, redis, rank, share, admin, battle, base containers | requests, sockets, queries, fights | mostly one step each | |

What makes them correct, and what is hard about it:

- **sync**: at most one coroutine works under an id, nested calls of the holder
  pass, every waiter is woken once, a locker in the pool is quiet. Hard because a
  locker returns to the pool while other coroutines still refer to it, and
  because the wakeup of a waiter is delayed.
- **playermgr, login, commands, savemgr**: whatever is executed on a role is
  saved, the registered object is the one that gets saved, a link and a player
  point to each other, a banned player stays out, an idle player is unloaded, a
  login ends. Hard because login, logout, kick, commands from other services and
  the minute timer share the registry, and each of them yields in the middle.
- **chainbridge**: a paid order is credited once, is not reported settled
  without being credited, and is settled in the end. Hard because orders are sent
  again every few seconds without acknowledgement, marks and credits are in
  memory until the next save, and one handler yields between mark and credit.
- **cluster queue, brief, center, cluster**: no lost wakeup, converging copies,
  no request executed twice or given to the wrong server. Hard because answers
  and notifications travel on different connections, and nodes come and go.
- **timer**: a callback runs as often as asked and never after its deletion.
  Hard because records are pooled while a callback still runs.
- **skynet**: one worker at most runs a service, its messages in order; a queue
  with messages is where a worker finds it; a context is not used after it was
  freed; a handle and a name find their service and no other; a timeout rings
  once, at its tick; nobody sleeps through the end. Hard because a queue, a
  context and a handle are given back under different locks by whichever thread
  comes last, and because handles and ticks come round.

`PROJECT.json` lists each hazard at its line, with the properties that catch it
going wrong, or a note saying why none does yet.

## Modules

| module | models | checked by | proved in |
|---|---|---|---|
| `Sync` | `csync` and the queue of skynet under it | `Sync.cfg` | `SyncProofs` |
| `FifoLock` | what `Sync` and `ClusterQueue` promise: a FIFO lock per id, with re-entry | as a property of `Sync.cfg` and `ClusterQueue.cfg` | |
| `PlayerMgr` | one game server's registry, logins, commands, kicks, saves, minutes | `PlayerMgr.cfg`, `PlayerMgrLive.cfg`, `PlayerMgrFilter.cfg`, `PlayerMgrKuafu.cfg`, `PlayerMgrLinks.cfg` | `PlayerMgrProofs` |
| `Recharge` | paid orders from the chainbridge service into the saved player | `Recharge.cfg` | `RechargeProofs` |
| `ClusterQueue` | the lock of the cluster: center, nodes and the messages between them | `ClusterQueue.cfg` | `ClusterQueueProofs` |
| `Timer` | `ctimer` of the Lua services | `Timer.cfg` | `TimerProofs` |
| `Dispatch` | scheduler, contexts and threads of skynet | `Dispatch.cfg` | `DispatchProofs` |
| `Services` | what `Dispatch` promises: actors with a mailbox each | as a property of `Dispatch.cfg` | |
| `Handle` | the handle table and the names of skynet | `Handle.cfg` | `HandleProofs` |
| `TimerWheel` | the timer of skynet, and the way of a delay from Lua to it | `TimerWheel.cfg` | `TimerWheelProofs` |
| `Alarm` | what `TimerWheel` promises: each timeout rings once, at its tick | as a property of `TimerWheel.cfg` | |

`MCSync`, `MCPlayerMgr`, `MCRecharge`, `MCDispatch` and `MCHandle` only add symmetry
sets and values for TLC. The type invariant of a module is a conjunct of its first
invariant where the run does not name it. Definitions named `<Definition>_<Slip>` are
faulty variants of the definition before the underscore; nothing uses them but the
list of mutants.

### Sync and FifoLock

`once_do(id, func)` takes the locker of the id (`getLocker`, which counts the
calls and takes lockers from a pool), runs `func` through the queue of that
locker, and gives the locker back when the count falls to zero. The queue of
skynet, vendored but part of the promise, remembers the coroutine that runs and
how deep it is nested, and parks the others. `Sync` has the table, the counts,
the pool, the state of each locker, the frames of each coroutine (nested calls,
also of other ids) and the coroutines that were woken but do not run yet. One
action per stretch: `Enter`, `Resume`, `Finish`, with the release of the locker
and the wakeup of the next waiter in the step in which the code does them.

`FifoLock` keeps only the holder, the depth and the waiting list of each id. The
property `ImplementsFifoLock` says that `Sync` refines it: the handing of lockers
from the table to the pool and back is invisible to callers.

### PlayerMgr

One variable per table of the code: the registered objects, the objects by
link, the last use, the loading waiters, the database and its queue of calls, the
savemgr's objects, the links with their role. A task is a coroutine: a program
counter that names the yield it sleeps in and the local variables the code uses
after it. Its kinds are a login (`_entergame` under `sync` of its role), a
command (`doPlayerCmd`), a kick, a close of a link and a run of `onMinute`, which
visits the roles it saw at its start. Time is abstracted: a player may have been
idle for long or not, whichever `onMinute` finds. The lock of a login is the
abstract one, a queue of tasks per role, as `FifoLock` gives.

A command is a model value that becomes part of the content of the object it runs
on. `nowsave` may fail, and does not tell `delplayer` (its `xpcall` keeps the
error). The load of a command may find no such role, or fail (`CmdLoadRefused`).
`save_to_db` writes always: the flag `no_save_to_db` is set nowhere in the
repository, and `checkSaveData` answers true for every player; what it leaves out is
a malformed part of the content, which no command makes.

`Durable` says that a command is in the database or in the registered object,
whatever logins, kicks, timeouts and loads follow. The history variable `atRisk` has the
commands of which this is not so, because the code loses them:

- those that run while another task loads or unloads the player (`Moving`: its
  content has been read or saved, and what happens now is in neither);
- those that were in an object `delplayer` dropped after its save had failed;
- those of a player that is *split*, from then on until the server stops. Two
  `delplayer` of one object overlap, say a kick's and a login's: both save the
  object, the first removes it and the login registers its own, then the second
  removes that one, which nobody has saved. The removed object stays on autosave
  while nothing is executed on it any more, and its timer keeps overwriting what
  later objects of the role have saved. This is a defect of the code (see Findings).

### Recharge

The chainbridge service looks up the oldest confirmed orders every few seconds
(`Check`), asks share for the owner of those that do not name one (`Ask`,
`Answered`), and sends the valid ones to the game server (`Send`). Several such
passes can be under way, as `onSecond` does not wait for the earlier one. An order is
a recharge of tokens, a payment, or a payment that pays a rebate to an inviter.

On the game server an order is dealt with at once when the player is loaded
(`DealHere`); otherwise its handler waits for the lock of the load (`DealLoads`), has the
document read (`Reads`), and registers what it has read unless somebody else has registered
the player meanwhile (`DealReturns`). A login loads in the same way, but when it finds
the player registered it removes that object and registers the content *it* has read
(`LoginReturns`, `LoginEnds`). Dealing marks, credits and reports an order (`DealNow`), or
only reports it again (`DealAgain`); `dealPayOrder` with a rebate yields between mark and
credit (`DealOrder`, `Rebated`). The timer saves every object on autosave (`Autosave`),
`delplayer` saves the registered object, or fails to, yields, and removes whatever is
registered then (`BeginUnload`, `EndUnload`). Either process may stop, any message may be
lost, and orders are repeated because they are looked up again. Resources and amounts
are abstracted to the number of times an order was credited.

`SettledIsCredited` says that an order that is reported settled has its credit saved,
registered or about to be made. The code does not keep this promise for all orders;
the history variable `exposed` names those it may lose: an order marked or credited
while another handler loads or removes the player (then a login can replace
the credited object by the content it read before, with no crash at all), or after an
object went astray (see split above); one whose rebate was under way when the player
was removed; and what was not saved at a crash or when a save failed. For every other
order it holds.

### ClusterQueue

The center keeps for a lock the coroutines that wait (`waiting`), a node asks with a
call (`requests`, in order; `answers`), sleeps when the answer is no, and is woken by
a message on another connection (`wakeups`), which may come before the answer. The
clients of the center's own service skip the messages (`Local`). A call may fail,
before or after the center has seen it; the send of an unlock or of a wakeup may be
lost (`SendsLost`, `WakeupLost`); the node of a client may stop, while
it sleeps or runs under the lock (`Stops`), and stays in the queue, as the center
takes nobody out. One lock is modelled, as locks share nothing. The history variables
`owner` and `lost` say to whom the center has given the lock, and whether an unlock or a
wakeup was sent in vain, because it was lost or found nobody asleep.

### Timer

A record per timer, taken from a pool (`pool`) and put back when the timer is over
or deleted; `armed` are the closures that skynet has promised to call, which look
their timer up by id; `running` are the callbacks that yield. Callbacks and others
start, name and delete timers, also the one that is called back. A cron timer is a
loop that may find no next time, or one that is no later than now. Then, and for a loop
with neither delay nor interval, the code raises an error after the timer was entered
(`TimeLoopFails`, `CronTimeoutFails`, `ArmingFails`): the timer stays in the table and
nothing waits for it (`unarmed`).

### Dispatch and Services

An action is a section under a lock, or one atomic operation, of one thread. A
call that takes several (`skynet_context_push`, `skynet_handle_retire`,
`skynet_context_release`, `skynet_context_new`, `skynet_mq_release`) is a list
of operations (`todo`) its thread has yet to do; between two of them all others
go on. `pc` is the place of a worker in `thread_worker` and
`skynet_context_message_dispatch`; `tpc` and `spc` are those of the timer and the
socket thread. What the callback of a service does is a choice: it sends, kills,
launches (with an init that sends, and may fail) or aborts. `skynet_handle_retireall`
reads a context under the lock and uses it without one in `skynet_handle_exit`
(`Visit`, `Exit`), and `skynet_context_new` goes on with a context after it has given back
its own reference (`Launch`, `Publish`, `Report`): each of these is a step of its own, at
which the context may be freed already. The weights of the
workers are kept, as they decide when a worker turns to the next queue.

`Services` has three variables: the mail of a service, what it handles, its
status. Under `ImplementsServices` a service handles what a worker calls back
with, is down when its context was freed, and its mail is what its queue holds.

### Handle

Slots by the low bits of the handle, doubled when no slot is free, handles that
come round after `HANDLE_MASK`, the sorted array of names with its binary search.
A context that is launched is in the table before it knows its handle, and
`skynet_handle_retireall` gives the lock back after each slot, so that others
register and retire while it looks.

### TimerWheel and Alarm

`skynet_updatetime` moves the clock by however many milliseconds have passed, and for
each of them a tick: `Shift` moves the nodes of coarser slots down and takes the list
of the tick, `Send` sends it, without the lock. `Slot` is `add_node`, with quotients
and remainders for the shifts and masks of the code; a slot of level i spans `Unit[i]`
ticks. The delay comes from Lua as an int32, as `lintcommand` takes it, so that a
delay of 2^31 or more is another number for the wheel, and one that is negative then
is answered at once (`TimeoutNow`). `Alarm` has nothing but the ticks that remain of
each timeout, and time stops in it until everything due has rung.

## Runs

| run | asks | instance | distinct states |
|---|---|---|---|
| `sync` | does the lock exclude, wake everybody, pool only quiet lockers, refine `FifoLock`, serve every waiter? | 3 coroutines, 3 lockers, ids of two logins that nest the load of one player, and a load that re-enters | 11275 |
| `player` | do handlers of one role keep the registry, saves, links and bans consistent? | 1 role, 2 links, 2 commands of which one freezes, 4 tasks, 3 objects | 277861 |
| `player_live` | do logins end and kicked objects leave, with roaming on? | 1 role, 2 links, 1 command, 3 tasks, 3 objects | 188423 |
| `player_filter` | the assertion of `cclient:filter`; TLC violates it | 1 role, 2 links, 3 tasks, 2 objects | |
| `player_kuafu` | the assertion of `recoverplayer`; TLC violates it | 1 role, 1 link, 2 tasks, roaming on | |
| `player_links` | does a link enter once? TLC violates it | 2 roles, 1 link, 3 tasks, 2 objects | |
| `recharge` | is an order credited once, not settled without a credit, and settled in the end? | 2 orders of any kind, of which one may never find its player, look-up of 2, 1 pass, 1 copy of a message, 2 objects, 1 crash | 125934 |
| `cluster_queue` | is the lock of the cluster FIFO and exclusive, and granted to whoever asks? | 3 clients, one of them local, 3 locks each, lost calls, unlocks and wakeups, stopped nodes, early wakeups | 29731 |
| `timer` | are records never shared, timers waited for once, loops as long as asked? | 3 ids, 1 name, loops of 1 and 2 | 2758224 |
| `dispatch` | does the runtime implement the actors of `Services`, with counts that fit and nothing freed that somebody refers to? | 2 services, 2 workers of different weight, 2 messages | 561909 |
| `handle` | does every handle and name find its service, over expansions and the turn of the handles? | 3 contexts, 2 names, slots from 2 to 4, 3 handles | 57142 |
| `timer_wheel` | is the wheel an alarm that rings for everyone, in time? | 2 timeouts, slots of 2, 3 levels, a clock of 16 ticks, delays up to 18 | 46096 |

Deadlock is checked in `sync`, whose coroutines can always call again, and in
`timer_wheel`, whose clock goes on. The other systems really may stop: tasks,
links, commands, objects, orders, messages and handles are used once or up to a
bound.

### Bounds, and why they are enough

- *Sync.* Three coroutines give a holder, a waiter and a third that takes a
  recycled locker. `Nests` lists which id may be nested in which: a login nests
  the load of the player, as the code does. Mutual nesting of two ids would
  deadlock any lock; no caller in the repository does it. Three ids never need
  more than three lockers.
- *PlayerMgr.* Each hazard needs an object that leaves, a handler that loads or
  binds the next one and a third that saves or commands: three objects and four
  tasks. Tasks and objects are used once, which also bounds the run; commands
  are executed at most once, so that content is a set.
- *Recharge.* Two orders show one overtaking or delaying the other, one of them
  stuck takes a place of the look-up, one crash is a restart in every state. Two
  objects are a player and the one that replaces it; for two `delplayer` to overlap,
  which can leave an object astray, the model asks for a third (`Bound`), so that the run
  does not reach it; with three objects and one order TLC does (478742 states, the
  invariants hold), and the proof is for any number, as for passes, copies and crashes.
  Further copies, when the bound is reached, are dropped in `Send`, which is a loss. The
  stuck order is of one kind, as handlers of the others find nobody either. That
  settled orders can be in danger is within reach of the run: without the exception for
  `Moving` TLC refutes `SettledIsCredited` on it.
- *ClusterQueue.* A holder, a waiter in line and one behind it; a third lock per
  client lets a wakeup of its first lock meet its later ones. The proof is for any
  number.
- *Timer.* One timer that is called back, one made inside the callback that gets
  its record, and a third; a loop that goes on once shows every stale record.
- *Dispatch.* Two services launch, kill and send to each other and to themselves; two
  workers race for a queue, a context and the end; one handles a message at a turn,
  the other the whole queue. The second message comes while the first is being
  handled. A worker takes a whole queue only from three messages on (the loop of `pc`
  "pop"), which the run does not reach; the theorems cover it. `IdleLoops` is 25
  rounds in the code; one round reaches the same states earlier.
- *Handle.* Three contexts force one expansion and fill the table after it; three
  handles make a handle be given a second time while names of the first are left.
  `Launchers` is 1: launches go through the service `launcher`, which has one at a
  time (see the observations for more).
- *TimerWheel.* The sizes of the levels are parameters, and 16 ticks have everything
  2^32 have: a near wheel, levels that move down, a top level, a turn of the clock.
  `MaxDelay` is more than a turn, so that delays come out of the int32 as themselves
  (below 8), as negative numbers (8 to 15) and as small ones (from 16 on); an update
  may be late by two ticks.

### Fairness

Five runs check liveness, and each assumption is about a part that the code
does not wait for.

- `Sync!Fairness`: the scheduler resumes a woken coroutine (weak), and every
  func ends. The latter is strong fairness of `Finish` at each depth: a func
  makes finitely many nested calls, so it cannot go on calling and returning
  below for ever.
- `PlayerMgr!FairSpec`: weak fairness of `Resume(t)`, that is, a service that is
  called answers and skynet schedules the coroutine. Clients, kicks, commands and
  the minute are not assumed to happen.
- `Recharge!Fairness`: called services answer (weak), the database a login and the
  rebate among them. `onSecond` runs for ever, so a look-up that is possible again and
  again is made (strong), and a message that is sent again and again arrives
  (strong): without the latter no retry ever settles anything. The lock of the load is
  first come first served (`Sync`), so an order that waits again and again is read for
  (strong on `Reads`), and a load that is tried again and again succeeds once (strong on
  `DealReturns`): a load that is refused for ever is an order of `Stuck`. Saves, logins,
  unloadings and payments are not assumed.
- `ClusterQueue!Fairness`: messages arrive, and functions under the lock return
  (weak). No call need be made, and a call may fail at any time.
- `TimerWheel!Fairness`: the timer thread runs, and the clock goes on (weak).
- `Dispatch` has none: the instance is too large for liveness. `Scheduled` and
  `AllAwake` are the safety forms of it: a queue with messages is always where a
  worker will find it, and nobody sleeps after the last wakeup.

## Proofs

TLAPS checks every step for arbitrary constants, under the assumptions named in
the modules. They say that the constants are of their kind: that bounds and sizes are
numbers, that the sets of services and workers are finite, that a value like
`None` is no role, link, object or message, nor one of the words the model uses; the
weights of the workers are those of the table in `skynet_start.c`, and the handle
table starts no larger than the handles reach. TLC evaluates the assumptions in the
runs, and checked the inductive invariants on the instances of the runs before the
proofs were written.

Every invariant of the runs that hold, and every refinement, is a theorem. Those of
`HandleProofs` say `Launchers = 1`, since `Reachable` is false with two (see the
observations). No other theorem has a hypothesis.

Three definitions are recursive functions: the binary search and the compaction of
the names in `Handle`, the units and the moving of a list in `TimerWheel`. What they
compute is proved as well. `Induction` says that a set of numbers with 0 in it and
closed under successors is `Nat` (from the library's theorem on minimal elements),
and is applied to sets of the numbers up to which a claim holds. A recursive
definition is a choice among the functions that obey its equation, so each is first
shown to have one (`SearchExists`, `LeavingExists`, `Recursion`).

### SyncProofs

`TypeCorrect`, `Exclusion`, `AssertionHolds`, `PoolIsQuiescent` and `WakeupsArrive`
give the type invariant and the four safety properties of `Sync`. None of them is
inductive: exclusion needs that the coroutine that runs a frame is the current
thread of the locker to which the table *still* maps the id, which needs the
locker not to be released under it, which needs the counts. The invariant `IInv`
has these parts:

- `TableOK`: a locker serves one id; a pooled one serves none, is pooled once and
  is idle.
- `CountOK`: `locker.ref` is the number of coroutines that wait in the queue plus
  the depth of the running one (or one, for an owner that is woken and does not
  run yet). This is what makes the release at zero safe.
- `FramesOK`: a running frame uses the locker of its id, its coroutine is the
  current thread, and the depth is the number of its frames there. That number
  is a cardinality, and the lemmas on `FramesOn` say what a push and a pop do to it.
- `WaitersOK`: a sleeper is either in the queue of the locker of its id, once, or
  woken and the owner.

The second half proves from the same invariant that csync implements `FifoLock`
(`Implements`, the property `ImplementsFifoLock`): a `once_do` that is admitted takes a
free lock or enters its own one level deeper, one that waits joins the queue, a
resumption enters, and the end of a func leaves. Each of these steps touches one
locker, and as a locker serves one id (`ServesOne`) the locks of the other ids do not
change (`OthersUntouched`); that is what recycling lockers could have broken.

### RechargeProofs

`TypeCorrect`, `CreditsOnce` and `SettledOrdersAreCredited` give the three
invariants of `Recharge`, for any orders, passes, copies, loads and crashes. The
argument: a credit is never without its mark, in any object and in the document
(`ContentOK`), so a copy of a credited order finds the mark. A handler that waits
for the rebate has marked and not credited (`PendingOK`), so its credit is the
first, and it is on the registered object unless the order was exposed. Whatever makes
an order look done (`Known`: a mark in a content that is or will be written, a report under
way, the state `success`) implies that the order was exposed or has reached the player
(`ReachedOK`), which is one of two things. `Saved`: the credit is in the document, and in
every content that will be written or registered later, so that no stale object and no
login takes it back. `Held`: it is in the registered object, or about to be, while
nobody loads or removes the player (`Quiet`), so that there is no other content. An order
goes from `Held` to `Saved` with the save of `delplayer`, an autosave or a new load, and
is exposed when it leaves `Held` in any other way.

### PlayerMgrProofs

`NothingIsLost`, `Autosaved` and `AddsAreAsserted` give `Durable`,
`RegisteredIsAutosaved` and `AddAssertion`, for any number of roles, links,
objects and handlers, with roaming and without. Handlers compute the next state
as a record (`State`, `Become`), so there is one lemma for each helper on such
records and one for each action.

- `Sound` is what every record is like: typed, a registered object is under its own
  pid and on autosave, whatever is saved was built, and `container.add` has not
  failed.
- `TaskOK` is what a handler may rely on after a yield: the object it was unloading
  or logging out was built, and is of its role. It does not say that the object
  is still registered, because that is not so. `Keeps` makes `TaskOK` last: an
  object keeps its pid and forgets no command.
- `Safe` is why a command is not lost, and is the strengthening of `Durable`. It is
  written, or with the registered object while no other task that could remove it
  has saved less (`Stays`); and moreover no saved object of the role (`Held`), no answer
  of `findOne` that a handler is about to use, and no object of a login that waits for
  `delplayer` is without it (`Brings`). The second half is what `Durable` lacks: an object
  that is saved later, or registered later, would take the command back. An object on
  autosave that nothing else refers to makes its role `split` (`Recorded`).

The locks of the login and the load are not needed for any of the three. They are
the subject of a part of their own: `Queued` says of a lock that whoever waits is in
its queue and whoever holds it is the head; three lemmas say what joining, leaving
and going on do to it, one lemma per action says which of them it is for each
of the two locks (`LocksMove`). `TypeCorrect` follows, as an unlock takes the head off
a queue that is not empty, and `LocksExclude`: one login and one load of a role at
a time.

`FrozenRolesStayOut` and `NoPlayerIsForgotten` give `FrozenStaysOut` and
`NoForgottenPlayer`. Both look at one role at a time, and so does a handler: `Role` says
what a handler of a role may have changed and `Adds` which commands it has brought
where, and each helper is shown to do no more, so that the invariant `RInv` need only
be looked at for the handler's own role. Its parts:

- `Clean`: no object with a link has the freeze in its data. A freeze closes the link in
  the step that writes it, and a login reads the data before it binds. This is
  stronger than `FrozenStaysOut` in that it is also about objects that are not
  registered.
- `Homes` and `Pending`: a command is known with one role only, and one that waits for its
  load has not been executed. Without them a freeze of one role could appear in
  another's data.
- `Covered`: a loaded role without a link has its tick set, or its logout or unload
  is under way. `Kept`: the object of a login that waits for `delplayer` is not
  registered, keeps its link, and is nobody else's, so that registering it
  afterwards does not leave a role without one.

### ClusterQueueProofs

`TypeCorrect` and `MutuallyExclusive`, for any number of clients and locks, also when
calls fail, messages are lost, nodes stop, answers are overtaken and an unlock comes
from whoever. The argument is a token (`Token`): it is a running client, an answer
that grants, a wakeup or an unlock on its way (a lost one is no more); there is at
most one (`OneToken`), and only while the center has the lock (`TokenOfHeld`).

The second half proves that it implements `FifoLock` (`Implements`, the property
`ImplementsFifoLock`). The token alone does not say whose lock an unlock ends, so
`RInv` ties what is on its way to the present owner: a request is the last its client
has sent, behind the unlock of an older lock if it is still the owner (`RequestsOK`);
who is queued sleeps, or will, on the recover point it is queued with, once, and has
nothing else on its way (`WaitingOK`); an answer, a wakeup, an unlock and a run are
the present owner's (`TokensOK`); an owner that has ended has an unlock on its way
(`OwnerOK`). A request or a local lock is a `Request`, a wakeup that finds its
coroutine asleep an `Enter`, the carrying out of an unlock a `Leave` (`PassedOn`), and
calls, answers and failures change nothing that the lock sees.

### TimerProofs

`RecordsStayApart`, `EachWaitedForOnce` and `LoopsAreCalledAsOften`, for any number of
timers, names and loops. `RecordsApart` is nearly inductive: what it lacks is that a
record is left when the pool is empty (`RecordLeft`), which holds because the timers
there are were all made before (`Traced`), and that a deletion of several timers pools
each record once (`OrderOnce`). `Awaited` says in terms of closures what
`WaitedForOnce` counts, also for the timers that are gone, because a closure survives
its timer, and for those whose arming failed, which have none. `Counted` ties the
count in the record to the calls: it is one behind while the callback runs, and only
then. It holds while no timer is deleted in the middle of its callback, and a callback
that runs then still has the record of its own timer (`Kept`); the observation below
is what happens otherwise.

### DispatchProofs

`QueueInOnePlace`, `ReferencesCounted`, `NotFreedEarly`, `AssertionsNeverFail` and
`NobodySleepsOn` give the five invariants of `Dispatch`, for any number of services,
workers and messages. All but the last are about numbers: of the places of a queue,
and of the references to a context. A number is a sum of cardinalities: workers
that hold the queue, ends of `global`, operations in the lists of all threads.
The first part of the module says by how much each changes when one thread takes
its first operation and goes on with others (`CountChange`, `Returned`, `Begun`), one
worker moves, or the global queue gains or loses an end. The invariant has, for each
service (`Sound`),

- `Counted` and `Located`, which are `RefCounted` and `Scheduled`;
- `Dying`: when the count is zero and the context not yet freed, exactly one thread has
  the deletion to do. The code has no lock there: whoever brings the count
  to zero deletes, and this is why nobody does it twice;
- `Life`: what a freed context and one that does not exist look like; the queue of a
  live one with messages has its flag set;
- `Launched`: a context that can be found and is not initialised yet has its launch, so
  it is not scheduled (`ServedInited`) and the assertion on `init` holds;

and, for threads and workers, `OpsOK` (what a thread knows of the operations it
still has to do: a push is followed by the release of its reference, a queue is dropped
when its context is gone), `WorkersOK` (what a worker holds at each step), `Nested` and
`Quiet` (after `quit` no worker goes to sleep, since it looks at the flag under the mutex
that sets it). There is one lemma per action; those that only move one worker or
return one operation share `Untouched` and the lemmas on counts.

`Implements` proves that `Dispatch` implements `Services` (the property
`ImplementsServices`). Six actions are steps of the abstract system and the others are
invisible to it. A push delivers to a service that is up, because the pusher still has a
reference to release (`OpsOK`, `Counted`); the deletion is the fall of a service, between
two messages, because a worker in a callback would be counted; only a service that is
down refuses, as a queue is dropped when its context was freed; and a worker takes and
finishes the message of its service alone, as the queue is in one place (`Alone`).

### HandleProofs

`HandleReachable`, `HandleNamesAreAlive` and `HandleAbortMissesNone` give the three
invariants of `Handle`, for one launcher. `Placed`
says that a context sits in the slot of its handle; an expansion keeps it so,
because the low bits of a handle are those of its position before (`LowBits`), and
moves two contexts to different slots. `Assigned` says what a context
has that is launched and not assigned its handle yet. `NamesInv` keeps the names
sorted and those of a retired context out, with the binary search shown to find
the place in a sorted array (`SearchIsRight`) and the compaction to keep the order.
`AbortInv` says of the pass of `skynet_handle_retireall` that every context it has to
retire is still ahead of it or a retirement was counted, so another pass follows:
an expansion moves a context upwards only (`Ahead`).

### TimerWheelProofs

`NodesInPlace` and `Implements` give `InPlace` and the refinement `ImplementsAlarm`, for any
sizes of the levels, any number of them and any delays. The invariant
adds to `InPlace` that a timeout is in one list and once (`Once`), and that what is
awaited is in the wheel or on its way (`Kept`). The argument is `Stays`: when the clock
moves by one, a node whose slot is not moved down belongs to the slot it is in. Below
the top level a block of times is at most half the clock (`Half`), so a node that
shares a block with the present is ahead of it, and the node's level can only drop
when the clock enters its block; then the tick is a multiple of the unit of that
level and not of the next (`NextBlock`, `Divides`), so `timer_shift` moves exactly that
slot. At the turn of the clock the nodes behind it are at the top level, and the
slot moved is the first one. `Shifts` says that `move_list` loses no node and
doubles none.

### Only model-checked

- Liveness (`WaitersServed`, `LoginEnds`, `KickUnloads`, `Settles`, `Served`,
  `Rings`): fairness and ENABLED are out of the prover's reach.
- The three properties that are refuted.

## Findings

- `player_filter`. `cclient:filter` asserts that the player of a link that has
  entered is registered with a link. A kick closes the link and waits in
  `onlogout`; a login meanwhile finds the player still registered, binds its own
  link to it and succeeds; then `exitgame` goes on, still sees `force_exitgame` and
  removes the player. Every later request of the new client fails the assertion.
- `player_kuafu`. With `open_kuafu`, a login tests `getplayer`, yields in
  `gg.route`, and calls `recoverplayer` without testing again; a command that
  loads the player in between makes its assertion fail. The shipped configuration
  has `open_kuafu = 0`.
- `player_links`. `EnterGame` answers `REPEAT_ENTERGAME` to a link that has entered
  (`login.lua:200`), but tests it before it yields for the token and the load, and
  binds the link afterwards under the lock of the role. Two requests of one link for two
  roles both pass the test, and the link is bound to both players. Nothing on the
  way orders the requests of a client (`gg.client.queue = false`, `app/game/gg/gg.lua:8`).

Defects that no run states as a finding, as no comment or assertion of the repository
speaks of them, and that the properties except by name:

- *Split players* (`split` in `PlayerMgr`, `Astray` in `Recharge`). Two overlapping
  `delplayer` of one role: the second removes whatever is registered by then, not what it
  has saved (`playermgr.lua:91`). The removed object stays on autosave, and its saves undo
  the later ones until the server stops.
- *Failed saves.* `nowsave` keeps the error of a save (`savemgr.lua:59`), and
  `delplayer` drops the object all the same.
- *Stale logins.* A login that has read the document while the player was not
  registered replaces the one that somebody else registered meanwhile
  (`login.lua:262-265`), with what it read (`exposed` in `Recharge`, `atRisk` in
  `PlayerMgr`).

Observations that no comment or assertion of the repository contradicts, so that
no run refutes them: a link that closes while its login loads the player leaves
the player bound to a dead link until it is kicked; `dealPayOrder` marks an order
before it yields and credits it afterwards, so a save between the two, followed
by a crash or by the removal of the object, loses the credit of an order that is
reported settled (`exposed` in `Recharge`); an overlapping look-up that asked for
the owner before the wallet was bound sets the order to `error` after another one
settled it.

Observations of the same kind about the other modules:

- *Cluster queue.* A wakeup that overtakes the answer finds nobody asleep, and the
  client then sleeps for ever while the center counts it as the holder
  (`ClusterQueue.lua:72`). A failed call of `lock`, a lost unlock or wakeup and a node
  that stops leave the lock held. `Served` excepts exactly these, and
  `MutualExclusion` holds in spite of them.
- *Timer.* When the callback of a loop deletes its timer and starts another, the
  loop goes on with a record that is pooled or already another timer's, and
  counts that one's loops (`timer.lua:63`). `LoopsAsOften` excepts timers deleted
  from their own callback, and `RecordsApart` holds in spite of them. A start that
  raises an error (`timer.lua:73`, `115`, `117`) leaves its timer in the table for ever;
  `WaitedForOnce` excepts these.
- *Timer wheel.* A delay of 2147484 seconds or more is another number after the
  conversion to an int32 (`lua-skynet.c:213`), and rings at once when that is negative,
  although the comment of `gg/base/timer.lua:20` speaks of any number of seconds. No
  caller asks for that much. The run has such delays; that a timeout never rings before the
  delay Lua asked for is false, and no property says it.
- *Handles.* With two launches at a time, an expansion moves a context whose handle
  is not assigned yet to slot 0, and it is not found any more (TLC refutes
  `Reachable` with `Launchers = 2`); launches go through one service, so it takes a
  launch from elsewhere. Once the handles have come round, slot 0 can stay empty,
  and an expansion reads a handle there. A service that names itself after it was
  retired leaves a name of nobody.
- *Scheduler.* Three uses of a context own no reference to it. `skynet_handle_retireall`
  passes the context it has read under the lock to `skynet_handle_exit`, which uses it
  (`skynet_server.c:387`, `390`) when a kill may have freed it. `skynet_context_new`
  writes into the context (168) after it has given up its own reference, when an abort
  may have freed it; and it, and `cmd_launch`, read it (172, 502) when the new service may
  have run and ended. `NotFreedWhileReferenced` is about all other uses.

## What the models leave out

- *PlayerMgr*: creation of roles, `loadplayer2` and the transfer of a roaming
  player, `kickall`, unfreezing, `oncesave`, crashes of the game server (in
  `Recharge` instead). The flag `disconnecting` cannot be observed between yields.
  Loads by the administrator are distinguished from
  commands because they do not set the last tick.
- *Recharge*: NFTs, withdrawals, the market; a payment through an unknown channel,
  which is marked and settled without a credit. The mails and activities of a
  payment are part of the credit. The rebate's failure is not modelled.
- *Sync*: an error in func is the end of func, as the code's `xpcall` makes it.
- *ClusterQueue*: a node that starts again, whose recover points begin at 0 again, and a
  restart of the center, which forgets its locks.
- *Timer*: the calendar of cron expressions; errors in callbacks, which `xpcall`
  makes their end.
- *Dispatch*: the answer a dropped message gets is delivered, but the error texts
  that `skynet_error` sends to the logger, the monitor thread, the overload counter,
  harbor and the sockets themselves are left out: the socket thread sends messages
  whenever it likes. Handles are a set, as `Handle` shows them to be.
- *Handle*: harbor ids, which the server does not use.
- *TimerWheel*: the start time and the CPU time, which only report.
- Components marked `not_modelled` in `PROJECT.json`, with their reasons: pure I/O
  (gate, database services), vendored code (Lua, jemalloc, drivers), numeric
  simulation (battle), the web back office, and the game rules.

## Plan

Done: `Sync`, `FifoLock`, `PlayerMgr`, `Recharge`, `ClusterQueue`, `Timer`, and the runtime
`Dispatch`, `Services`, `Handle`, `TimerWheel`, `Alarm`; proofs for all of the detailed
modules, and that `Sync` and `ClusterQueue` implement `FifoLock`, `TimerWheel`
implements `Alarm` and `Dispatch` implements `Services`. What is left, in order:

1. `Cluster`: sessions, `timeout_call` and late answers, the cached node of a role
   after it moves. `NodeMgr`: heartbeats, down, late heartbeats. `Brief`:
   subscription and replication on top of both; the copies converge.
2. `Recharge` extended by NFTs (whose handler yields between test and mark) and
   withdrawals (which take before they record).
3. `Shutdown`: `gg.exit`, `kickall`, `saveall` composed with `PlayerMgr`.
4. Game rules: ownership of grids in starmap, matches, membership in unions,
   attachments of mail taken once.
