-------------------------- MODULE PlayerMgrProofs --------------------------
(***************************************************************************)
(* Proofs about PlayerMgr, for any number of roles, connections, objects,  *)
(* commands and handlers: that no command is lost but those Durable names, *)
(* that a registered object is on autosave    *)
(* under its own pid, and that the container's assertion in addplayer      *)
(* holds; that the locks of a role exclude; that a frozen role stays out   *)
(* and a loaded role without a connection is on its way out.               *)
(*                                                                         *)
(* A handler works on the record of the state; Sound says what such a      *)
(* record must be like, and each helper is shown to keep it.  What a       *)
(* handler remembers over a yield are objects: TaskOK says which, and it   *)
(* stays true because an object once built keeps its pid (Keeps).  Safe    *)
(* says why a command is not lost, and each action keeps it.               *)
(***************************************************************************)
EXTENDS PlayerMgr, SequenceTheorems, TLAPS

StateType ==
    [players : [Pids -> Objs \cup {None}], tick : [Pids -> {None, "recent", "old"}],
     obj : [Objs -> Player \cup {None}], saved : SUBSET Objs,
     db : [Pids -> SUBSET Cmds], up : SUBSET Links, lpid : [Links -> Pids \cup {None}],
     failed : SUBSET {"filter", "add", "recover"}]

Built(s, o) == o \in Objs /\ s.obj[o] # None /\ s.obj[o].pid \in Pids

Registry(s) ==
    \A p \in Pids : s.players[p] # None =>
        /\ Built(s, s.players[p])
        /\ s.players[p] \in s.saved
        /\ s.obj[s.players[p]].pid = p

Sound(s) ==
    /\ s \in StateType
    /\ Registry(s)
    /\ \A o \in s.saved : Built(s, o)
    /\ "add" \notin s.failed

(* Objects are never taken back, keep their pid and forget no command.     *)
Keeps(s, u) ==
    \A o \in Objs : Built(s, o) =>
        /\ Built(u, o)
        /\ u.obj[o].pid = s.obj[o].pid
        /\ s.obj[o].data \subseteq u.obj[o].data

(* The players with an object on autosave that is not the registered one.  *)
Strays(s) == {p \in Pids : \E o \in s.saved : s.obj[o].pid = p /\ s.players[p] # o}

Entering(r) == r.at \in {"token", "route"} \/ (r.at \in {"loadwait", "load"} /\ r.kind = "enter")

TaskOK(r, s) ==
    /\ r \in Task
    /\ r.at \notin {"idle", "done"} => r.pid \in Pids
    /\ Entering(r) => r.link \in Links
    /\ r.at \in {"token", "route", "login"} => r.kind = "enter"
    /\ r.at \in {"loadwait", "load"} =>
          \/ r.kind = "enter"
          \/ r.kind \in {"cmd", "admin"} /\ r.cmd \in Cmds
    /\ r.at = "logout" => Built(s, r.o) /\ r.kind \in {"kick", "close"}
    /\ r.at = "save" =>
          /\ Built(s, r.del) /\ s.obj[r.del].pid = r.pid
          /\ r.kind \in {"kick", "close"} => Built(s, r.o)
          /\ r.kind = "enter" => Built(s, r.o) /\ s.obj[r.o].pid = r.pid
          /\ r.kind \in {"enter", "kick", "close", "admin", "minute"}

IInv ==
    /\ Sound(State)
    /\ \A t \in Tasks : TaskOK(task[t], State)
    /\ task \in [Tasks -> Task]
    /\ executed \in SUBSET Cmds
    /\ atRisk \in SUBSET executed
    /\ split \in SUBSET Pids
    /\ Strays(State) \subseteq split

(* Why a command is not lost.  Either it is written, or it is with the     *)
(* registered object and no load or unload of the role is under way, but   *)
(* for one whose save of the command has failed (Stays); and no object     *)
(* on autosave, no answer of findOne and no object of a login that waits   *)
(* for delplayer is without it.                                            *)
Moves(r, p) == r.pid = p /\ r.at \in {"loadwait", "load", "save"}

Stays(r, s, p, m) ==
    Moves(r, p) => r.at = "save" /\ r.missed /\ m \in s.obj[r.del].data

Held(s, p, m) == \A o \in s.saved : s.obj[o].pid = p => m \in s.obj[o].data

Brings(r, s, p, m) ==
    /\ r.at = "load" /\ r.pid = p => m \in r.read
    /\ r.at = "save" /\ r.kind = "enter" /\ r.pid = p => m \in s.obj[r.o].data

Safe(s, ts, p, m) ==
    /\ \/ m \in s.db[p]
       \/ /\ s.players[p] # None /\ m \in s.obj[s.players[p]].data
          /\ \A t \in Tasks : Stays(ts[t], s, p, m)
    /\ Held(s, p, m)
    /\ \A t \in Tasks : Brings(ts[t], s, p, m)

DInv == \A m \in executed \ atRisk : \E p \in Pids : Safe(State, task, p, m)

(* What was safe stays safe, unless the step itself loses it.              *)
SafeKept ==
    \A p \in Pids : \A m \in executed \ atRisk' :
        Safe(State, task, p, m) => Safe(State, task, p, m)'

(* What a step that makes u the state says of the history.                 *)
Recorded(u) ==
    /\ executed' \in SUBSET Cmds /\ atRisk' \in SUBSET executed'
    /\ split' \in SUBSET Pids /\ Strays(u) \subseteq split'

(* A command that is executed on p now may be lost.                        *)
Exposed(t, p) == Moving(t, p) \/ p \in split
-----------------------------------------------------------------------------
(* Become makes the record the state.                                      *)
LEMMA Becomes == ASSUME NEW s \in StateType, Become(s) PROVE State' = s
  BY DEF Become, State, StateType

(* setplayerlasttick touches nothing but a tick.                           *)
LEMMA TickSound ==
    ASSUME NEW s, NEW p \in Pids, Sound(s)
    PROVE  LET u == SetLastTick(s, p) IN
           Sound(u) /\ Keeps(s, u) /\ u.players = s.players /\ u.obj = s.obj
<1> DEFINE u == SetLastTick(s, p)
<1>1. /\ u \in StateType /\ u.players = s.players /\ u.obj = s.obj
      /\ u.saved = s.saved /\ u.failed = s.failed
  BY DEF Sound, StateType, SetLastTick
<1> HIDE DEF u
<1>2. QED
  BY <1>1 DEF Sound, Registry, Built, Keeps, u

(* A new object disturbs nobody: its place was free.                       *)
LEMMA NewSound ==
    ASSUME NEW s, NEW o \in Objs, NEW p \in Pids, NEW data \in SUBSET Cmds,
           Sound(s), s.obj[o] = None
    PROVE  LET u == NewPlayer(s, o, p, data) IN
           /\ Sound(u) /\ Keeps(s, u) /\ u.players = s.players
           /\ Built(u, o) /\ u.obj[o].pid = p /\ u.obj[o].data = data
           /\ u.obj[o].link = None /\ u.saved = s.saved /\ u.db = s.db
<1> DEFINE u == NewPlayer(s, o, p, data)
           new == [pid |-> p, data |-> data, link |-> None, offline |-> FALSE, force |-> FALSE]
<1>1. new \in Player /\ new.pid = p /\ new.data = data /\ new.link = None
  BY NoneAssumption DEF Player
<1>2. new # None
  BY <1>1, NoPlayerAssumption
<1>3. /\ u \in StateType /\ u.players = s.players /\ u.obj = [s.obj EXCEPT ![o] = new]
      /\ u.saved = s.saved /\ u.failed = s.failed /\ u.db = s.db
  BY <1>1 DEF Sound, StateType, NewPlayer
<1> HIDE DEF u, new
<1>4. /\ Built(u, o) /\ u.obj[o].pid = p /\ u.obj[o].data = data /\ u.obj[o].link = None
      /\ \A x \in Objs : x # o => u.obj[x] = s.obj[x]
  BY <1>1, <1>2, <1>3 DEF Sound, StateType, Built
<1>5. \A x \in Objs : Built(s, x) => x # o
  BY DEF Built
<1>6. QED
  BY <1>3, <1>4, <1>5 DEF Sound, Registry, Built, Keeps, u

(* nowsave writes to the database alone.                                   *)
LEMMA NowSaveSound ==
    ASSUME NEW s, NEW o \in Objs, Sound(s)
    PROVE  LET u == NowSave(s, o) IN
           Sound(u) /\ Keeps(s, u) /\ u.players = s.players /\ u.obj = s.obj
<1> DEFINE u == NowSave(s, o)
<1>1. CASE o \notin s.saved
  BY <1>1 DEF NowSave, Keeps
<1>2. CASE o \in s.saved
  <2>1. s.obj[o] \in Player
    BY <1>2 DEF Sound, StateType, Built
  <2>2. s.obj[o].pid \in Pids /\ s.obj[o].data \in SUBSET Cmds
    BY <2>1 DEF Player
  <2>3. /\ u \in StateType /\ u.players = s.players /\ u.obj = s.obj
        /\ u.saved = s.saved /\ u.failed = s.failed
    BY <1>2, <2>2 DEF Sound, StateType, NowSave, SaveToDb
  <2> HIDE DEF u
  <2>4. QED
    BY <2>3 DEF Sound, Registry, Built, Keeps, u
<1>3. QED
  BY <1>1, <1>2

(* An object whose fields other than the pid change is still that object.  *)
LEMMA FieldsSound ==
    ASSUME NEW s, NEW o \in Objs, NEW x \in Player, NEW u \in StateType,
           Sound(s), s.obj[o] # None, x.pid = s.obj[o].pid, s.obj[o].data \subseteq x.data,
           u.obj = [s.obj EXCEPT ![o] = x],
           u.players = s.players, u.saved = s.saved, "add" \notin u.failed
    PROVE  Sound(u) /\ Keeps(s, u)
<1>1. x # None
  BY NoPlayerAssumption
<1>2. s.obj \in [Objs -> Player \cup {None}]
  BY DEF Sound, StateType
<1>3. u.obj[o] = x /\ \A y \in Objs : y # o => u.obj[y] = s.obj[y]
  BY <1>2
<1>4. \A y \in Objs : Built(s, y) =>
         Built(u, y) /\ u.obj[y].pid = s.obj[y].pid /\ s.obj[y].data \subseteq u.obj[y].data
  BY <1>1, <1>3 DEF Built
<1>5. QED
  BY <1>4 DEF Sound, Registry, Keeps, Built
(* What changes neither the registry nor an object is harmless.            *)
LEMMA OtherSound ==
    ASSUME NEW s, NEW u \in StateType, Sound(s), u.players = s.players, u.obj = s.obj,
           u.saved = s.saved, "add" \notin u.failed
    PROVE  Sound(u) /\ Keeps(s, u)
  BY DEF Sound, Registry, Built, Keeps

(* addplayer of an object whose pid is free.                               *)
LEMMA AddSound ==
    ASSUME NEW s, NEW o \in Objs, Sound(s), Built(s, o), s.players[s.obj[o].pid] = None
    PROVE  LET u == AddPlayer(s, o) IN
           /\ Sound(u) /\ Keeps(s, u) /\ u.db = s.db /\ u.saved = s.saved \cup {o}
           /\ u.players = [s.players EXCEPT ![s.obj[o].pid] = o]
           /\ u.obj[o].data = s.obj[o].data
<1> DEFINE u == AddPlayer(s, o)
           p == s.obj[o].pid
           x == [s.obj[o] EXCEPT !.offline = (s.obj[o].link = None)]
<1>1. p \in Pids /\ s.obj[o] \in Player /\ s.obj[o] # None
  BY DEF Sound, StateType, Built
<1>2. x \in Player /\ x.pid = p /\ x.data = s.obj[o].data
  BY <1>1 DEF Player
<1>3. x # None
  BY <1>2, NoPlayerAssumption
<1>4. /\ u \in StateType /\ u.players = [s.players EXCEPT ![p] = o]
      /\ u.obj = [s.obj EXCEPT ![o] = x]
      /\ u.saved = s.saved \cup {o} /\ u.failed = s.failed /\ u.db = s.db
  BY <1>1, <1>2 DEF Sound, StateType, AddPlayer, StartAutosave
<1> HIDE DEF u, x
<1>5. u.obj[o] = x /\ \A y \in Objs : y # o => u.obj[y] = s.obj[y]
  BY <1>4 DEF Sound, StateType
<1>6. Keeps(s, u)
  BY <1>2, <1>3, <1>5 DEF Keeps, Built
<1>7. u.players[p] = o /\ \A q \in Pids : q # p => u.players[q] = s.players[q]
  BY <1>1, <1>4 DEF Sound, StateType
<1>8. Registry(u)
  <2> SUFFICES ASSUME NEW q \in Pids, u.players[q] # None
               PROVE  Built(u, u.players[q]) /\ u.players[q] \in u.saved
                      /\ u.obj[u.players[q]].pid = q
    BY DEF Registry
  <2>1. CASE q = p
    BY <2>1, <1>1, <1>2, <1>3, <1>4, <1>5, <1>7 DEF Built
  <2>2. CASE q # p
    BY <2>2, <1>4, <1>6, <1>7 DEF Sound, Registry, Keeps, Built
  <2>3. QED
    BY <2>1, <2>2
<1>9. Sound(u)
  BY <1>4, <1>6, <1>8 DEF Sound, Keeps, Built
<1>10. QED
  BY <1>2, <1>4, <1>5, <1>6, <1>9 DEF u

(* bind_linkobj of an object, which may have a link.                       *)
LEMMA BindSound ==
    ASSUME NEW s, NEW o \in Objs, NEW l \in Links, Sound(s), Built(s, o)
    PROVE  LET u == BindLink(s, o, l) IN
           /\ Sound(u) /\ Keeps(s, u) /\ u.db = s.db /\ u.saved = s.saved
           /\ u.players = s.players /\ u.obj[o].data = s.obj[o].data
<1> DEFINE u == BindLink(s, o, l)
           x == [s.obj[o] EXCEPT !.link = l, !.offline = FALSE]
<1>1. s.obj[o].pid \in Pids /\ s.obj[o] \in Player /\ s.obj[o] # None
  BY DEF Sound, StateType, Built
<1>2. x \in Player /\ x.pid = s.obj[o].pid /\ x.data = s.obj[o].data
  BY <1>1 DEF Player
<1>3. /\ u \in StateType /\ u.obj = [s.obj EXCEPT ![o] = x] /\ u.players = s.players
      /\ u.saved = s.saved /\ u.failed = s.failed /\ u.db = s.db
  <2>1. CASE s.obj[o].link = None
    <3>1. u = [s EXCEPT !.lpid[l] = s.obj[o].pid, !.obj[o].link = l, !.obj[o].offline = FALSE]
      BY <2>1 DEF BindLink
    <3>2. s \in StateType
      BY DEF Sound
    <3> HIDE DEF u
    <3>3. QED
      BY <1>1, <1>2, <3>1, <3>2 DEF StateType
  <2>2. CASE s.obj[o].link # None
    <3>1. s.obj[o].link \in Links
      BY <1>1, <2>2 DEF Player
    <3> DEFINE v == Unbind(s, o)
               y == [s.obj[o] EXCEPT !.link = None]
    <3>2. y \in Player /\ [y EXCEPT !.link = l, !.offline = FALSE] = x /\ y.pid = s.obj[o].pid
      BY <1>1 DEF Player
    <3>3. /\ v \in StateType /\ v.obj = [s.obj EXCEPT ![o] = y] /\ v.players = s.players
          /\ v.saved = s.saved /\ v.failed = s.failed /\ v.db = s.db
      BY <1>1, <3>1, <3>2 DEF Sound, StateType, Unbind
    <3>4. u = [v EXCEPT !.lpid[l] = s.obj[o].pid, !.obj[o].link = l, !.obj[o].offline = FALSE]
      BY <2>2 DEF BindLink
    <3> HIDE DEF v, y, u, x
    <3>5. v.obj[o] = y /\ v.obj \in [Objs -> Player \cup {None}]
      BY <3>3 DEF StateType, Sound
    <3>6. QED
      BY <1>1, <1>2, <3>2, <3>3, <3>4, <3>5 DEF StateType, Sound
  <2>3. QED
    BY <2>1, <2>2
<1> HIDE DEF u, x
<1>4. Sound(u) /\ Keeps(s, u)
  BY <1>1, <1>2, <1>3, FieldsSound DEF Sound
<1>5. u.obj[o] = x
  BY <1>3 DEF Sound, StateType
<1>6. QED
  BY <1>2, <1>3, <1>4, <1>5 DEF u

(* The link of an object is unbound and closed.                            *)
LEMMA CloseSound ==
    ASSUME NEW s, NEW o \in Objs, Sound(s), Built(s, o), s.obj[o].link # None
    PROVE  LET u == CloseLink(s, o) IN
           /\ Sound(u) /\ Keeps(s, u) /\ u.db = s.db /\ u.saved = s.saved
           /\ u.players = s.players
<1> DEFINE u == CloseLink(s, o)
           x == [s.obj[o] EXCEPT !.link = None]
<1>1. s.obj[o].pid \in Pids /\ s.obj[o] \in Player /\ s.obj[o] # None /\ s.obj[o].link \in Links
  BY DEF Sound, StateType, Built, Player
<1>2. x \in Player /\ x.pid = s.obj[o].pid /\ x.data = s.obj[o].data
  BY <1>1 DEF Player
<1>3. /\ u \in StateType /\ u.obj = [s.obj EXCEPT ![o] = x] /\ u.players = s.players
      /\ u.saved = s.saved /\ u.failed = s.failed /\ u.db = s.db
  BY <1>1, <1>2 DEF Sound, StateType, CloseLink, Unbind
<1> HIDE DEF u, x
<1>4. Sound(u) /\ Keeps(s, u)
  BY <1>1, <1>2, <1>3, FieldsSound DEF Sound
<1>5. QED
  BY <1>3, <1>4 DEF u
(* A command changes the content of the registered object.                 *)
LEMMA ExecuteSound ==
    ASSUME NEW s, NEW p \in Pids, NEW m \in Cmds, Sound(s), s.players[p] # None
    PROVE  LET u == Execute(s, p, m) IN
           /\ Sound(u) /\ Keeps(s, u) /\ u.db = s.db /\ u.saved = s.saved
           /\ u.players = s.players /\ u.tick = s.tick
           /\ u.obj[s.players[p]].data = s.obj[s.players[p]].data \cup {m}
<1> DEFINE u == Execute(s, p, m)
           o == s.players[p]
           x == [s.obj[o] EXCEPT !.data = @ \cup {m}]
<1>1. o \in Objs /\ s.obj[o].pid \in Pids /\ s.obj[o] \in Player /\ s.obj[o] # None
  BY DEF Sound, StateType, Built, Registry
<1>2. x \in Player /\ x.pid = s.obj[o].pid /\ x.data = s.obj[o].data \cup {m}
  BY <1>1 DEF Player
<1> HIDE DEF o
<1>3. /\ u \in StateType /\ u.obj = [s.obj EXCEPT ![o] = x] /\ u.players = s.players
      /\ u.saved = s.saved /\ u.failed = s.failed /\ u.db = s.db /\ u.tick = s.tick
  <2>1. u = [s EXCEPT !.obj[o].data = @ \cup {m}]
    BY DEF Execute, o
  <2> HIDE DEF u
  <2>2. QED
    BY <1>1, <1>2, <2>1 DEF Sound, StateType
<1> HIDE DEF u, x
<1>4. Sound(u) /\ Keeps(s, u)
  BY <1>1, <1>2, <1>3, FieldsSound DEF Sound
<1>5. u.obj[o] = x
  BY <1>1, <1>3 DEF Sound, StateType
<1>6. QED
  BY <1>2, <1>3, <1>4, <1>5 DEF u, o

(* delplayer after the save: no other role loses its object or its save.   *)
LEMMA DelSound ==
    ASSUME NEW s, NEW o \in Objs, Sound(s), Built(s, o)
    PROVE  LET p == s.obj[o].pid
               u == DelPlayer(s, p, o)
           IN
           /\ Sound(u) /\ Keeps(s, u) /\ u.db = s.db /\ u.saved = s.saved \ {o}
           /\ u.players = [s.players EXCEPT ![p] = None] /\ u.obj = s.obj
<1> DEFINE p == s.obj[o].pid
           u == DelPlayer(s, p, o)
<1>1. p \in Pids
  BY DEF Built
<1>2. /\ u \in StateType /\ u.players = [s.players EXCEPT ![p] = None]
      /\ u.obj = s.obj /\ u.saved = s.saved \ {o} /\ u.failed = s.failed /\ u.db = s.db
  BY <1>1 DEF Sound, StateType, DelPlayer, CloseSave
<1> HIDE DEF u
<1>3. u.players[p] = None /\ \A q \in Pids : q # p => u.players[q] = s.players[q]
  BY <1>1, <1>2 DEF Sound, StateType
<1>4. Registry(u)
  BY <1>2, <1>3 DEF Sound, Registry, Built
<1>5. Sound(u) /\ Keeps(s, u)
  BY <1>2, <1>4 DEF Sound, Keeps, Built
<1>6. QED
  BY <1>2, <1>5 DEF u

(* force_exitgame is set or reset.                                         *)
LEMMA ForceSound ==
    ASSUME NEW s, NEW o \in Objs, NEW b \in BOOLEAN, Sound(s), Built(s, o)
    PROVE  LET u == [s EXCEPT !.obj[o].force = b] IN
           /\ Sound(u) /\ Keeps(s, u) /\ u.db = s.db /\ u.saved = s.saved
           /\ u.players = s.players
<1> DEFINE u == [s EXCEPT !.obj[o].force = b]
           x == [s.obj[o] EXCEPT !.force = b]
<1>1. s.obj[o].pid \in Pids /\ s.obj[o] \in Player /\ s.obj[o] # None
  BY DEF Sound, StateType, Built
<1>2. x \in Player /\ x.pid = s.obj[o].pid /\ x.data = s.obj[o].data
  BY <1>1 DEF Player
<1>3. /\ u \in StateType /\ u.obj = [s.obj EXCEPT ![o] = x] /\ u.players = s.players
      /\ u.saved = s.saved /\ u.failed = s.failed /\ u.db = s.db
  BY <1>1, <1>2 DEF Sound, StateType
<1> HIDE DEF u, x
<1>4. Sound(u) /\ Keeps(s, u)
  BY <1>1, <1>2, <1>3, FieldsSound DEF Sound
<1>5. QED
  BY <1>3, <1>4 DEF u

LEMMA KeepsTwice ==
    ASSUME NEW s, NEW u, NEW v, Keeps(s, u), Keeps(u, v) PROVE Keeps(s, v)
  BY DEF Keeps

(* What a handler remembers stays true.                                    *)
LEMMA TaskKept ==
    ASSUME NEW s, NEW u, NEW r, TaskOK(r, s), Keeps(s, u) PROVE TaskOK(r, u)
  BY DEF TaskOK, Keeps, Entering, Built
-----------------------------------------------------------------------------
(* From a step of the records to a step of the state.                      *)
LEMMA HeldKept ==
    ASSUME NEW s, NEW u, NEW p, NEW m, Sound(s), Keeps(s, u), u.saved \subseteq s.saved,
           Held(s, p, m)
    PROVE  Held(u, p, m)
  BY DEF Held, Sound, StateType, Keeps, Built

LEMMA BringsKept ==
    ASSUME NEW s, NEW u, NEW p, NEW m, NEW r, TaskOK(r, s), Keeps(s, u), Brings(r, s, p, m)
    PROVE  Brings(r, u, p, m)
  BY DEF Brings, TaskOK, Keeps, Built

LEMMA StaysKept ==
    ASSUME NEW s, NEW u, NEW p, NEW m, NEW r, TaskOK(r, s), Keeps(s, u), Stays(r, s, p, m)
    PROVE  Stays(r, u, p, m)
  BY DEF Stays, Moves, TaskOK, Keeps, Built

(* The registry and autosave are left alone: so are the strays.            *)
LEMMA StraysKept ==
    ASSUME NEW s, NEW u, Sound(s), Keeps(s, u), u.players = s.players, u.saved = s.saved
    PROVE  Strays(u) \subseteq Strays(s)
  BY DEF Strays, Sound, StateType, Keeps, Built

LEMMA SafePrimed ==
    ASSUME NEW u \in StateType, Become(u), NEW p \in Pids, NEW m \in Cmds, Safe(u, task', p, m)
    PROVE  Safe(State, task, p, m)'
  BY Becomes

LEMMA EventStep ==
    ASSUME IInv, NEW u, Become(u), Sound(u), Keeps(State, u),
           task' = task,
           Recorded(u)
    PROVE  IInv'
<1>1. State' = u
  BY Becomes DEF Sound
<1>2. \A t \in Tasks : TaskOK(task[t], u)
  BY TaskKept DEF IInv
<1>3. QED
  BY <1>1, <1>2 DEF IInv, Recorded

LEMMA TaskStep ==
    ASSUME IInv, NEW t \in Tasks, NEW r, NEW u, Become(u), Continue(t, r),
           Sound(u), Keeps(State, u), TaskOK(r, u),
           Recorded(u)
    PROVE  IInv'
<1>1. State' = u
  BY Becomes DEF Sound
<1>2. \A x \in Tasks : TaskOK(task[x], u)
  BY TaskKept DEF IInv
<1>3. r \in Task
  BY DEF TaskOK
<1>4. task' = [task EXCEPT ![t] = r] /\ task \in [Tasks -> Task]
  BY DEF Continue, IInv
<1>5. \A x \in Tasks : task'[x] = IF x = t THEN r ELSE task[x]
  BY <1>4
<1>6. \A x \in Tasks : TaskOK(task'[x], u)
  BY <1>2, <1>5
<1>7. task' \in [Tasks -> Task]
  BY <1>3, <1>4
<1>8. QED
  BY <1>1, <1>6, <1>7 DEF IInv, Recorded

LEMMA RecordedKept ==
    ASSUME IInv, NEW u, Sound(u), Keeps(State, u), UNCHANGED history,
           u.players = players, u.saved = autosaved
    PROVE  Recorded(u)
<1>1. Sound(State) /\ State.players = players /\ State.saved = autosaved
  BY DEF IInv, State
<1>2. Strays(u) \subseteq Strays(State)
  BY <1>1, StraysKept
<1>3. QED
  BY <1>2 DEF IInv, history, Recorded

LEMMA RecordedThen ==
    ASSUME NEW s, NEW u, Sound(s), Keeps(s, u), Recorded(s),
           u.players = s.players, u.saved = s.saved
    PROVE  Recorded(u)
  BY StraysKept DEF Recorded

LEMMA SafeEvent ==
    ASSUME IInv, NEW u, Become(u), Sound(u), Keeps(State, u), task' = task,
           NEW p \in Pids, NEW m \in Cmds, Safe(State, task, p, m), Held(u, p, m),
           m \in u.db[p] \/ (m \notin db[p] /\ u.players[p] = players[p])
    PROVE  Safe(State, task, p, m)'
<1>1. \A t \in Tasks : Brings(task[t], u, p, m)
  BY BringsKept DEF Safe, IInv
<1>2. CASE m \in u.db[p]
  <2>1. Safe(u, task', p, m)
    BY <1>1, <1>2 DEF Safe
  <2>2. QED
    BY <2>1, SafePrimed DEF Sound
<1>3. CASE m \notin db[p] /\ u.players[p] = players[p]
  <2>1. /\ players[p] # None /\ m \in obj[players[p]].data
        /\ \A t \in Tasks : Stays(task[t], State, p, m)
    BY <1>3 DEF Safe, State
  <2>2. Built(State, players[p]) /\ players[p] \in Objs
    BY <2>1 DEF IInv, Sound, Registry, State, Built
  <2>3. m \in u.obj[players[p]].data
    BY <2>1, <2>2 DEF Keeps, State
  <2>4. \A t \in Tasks : Stays(task[t], u, p, m)
    BY <2>1, StaysKept DEF IInv
  <2>5. Safe(u, task', p, m)
    BY <1>1, <1>3, <2>1, <2>3, <2>4 DEF Safe
  <2>6. QED
    BY <2>5, SafePrimed DEF Sound
<1>4. QED
  BY <1>2, <1>3

LEMMA SafeTask ==
    ASSUME IInv, NEW t \in Tasks, NEW r, NEW u, Become(u), Continue(t, r),
           Sound(u), Keeps(State, u), NEW p \in Pids, NEW m \in Cmds,
           Safe(State, task, p, m), Held(u, p, m), Brings(r, u, p, m),
           \/ m \in u.db[p]
           \/ m \notin db[p] /\ u.players[p] = players[p] /\ Stays(r, u, p, m)
    PROVE  Safe(State, task, p, m)'
<1>1. \A x \in Tasks : task'[x] = IF x = t THEN r ELSE task[x]
  BY DEF Continue, IInv
<1>2. \A x \in Tasks : Brings(task[x], u, p, m)
  BY BringsKept DEF Safe, IInv
<1>3. \A x \in Tasks : Brings(task'[x], u, p, m)
  BY <1>1, <1>2
<1>4. CASE m \in u.db[p]
  <2>1. Safe(u, task', p, m)
    BY <1>3, <1>4 DEF Safe
  <2>2. QED
    BY <2>1, SafePrimed DEF Sound
<1>5. CASE m \notin db[p] /\ u.players[p] = players[p] /\ Stays(r, u, p, m)
  <2>1. /\ players[p] # None /\ m \in obj[players[p]].data
        /\ \A x \in Tasks : Stays(task[x], State, p, m)
    BY <1>5 DEF Safe, State
  <2>2. Built(State, players[p]) /\ players[p] \in Objs
    BY <2>1 DEF IInv, Sound, Registry, State, Built
  <2>3. m \in u.obj[players[p]].data
    BY <2>1, <2>2 DEF Keeps, State
  <2>4. \A x \in Tasks : Stays(task'[x], u, p, m)
    BY <1>1, <1>5, <2>1, StaysKept DEF IInv
  <2>5. Safe(u, task', p, m)
    BY <1>3, <1>5, <2>1, <2>3, <2>4 DEF Safe
  <2>6. QED
    BY <2>5, SafePrimed DEF Sound
<1>6. QED
  BY <1>4, <1>5
(* A command that is executed while nobody moves its role is safe.         *)
LEMMA HeldNew ==
    ASSUME IInv, NEW t, NEW u, Sound(u), Keeps(State, u), NEW p \in Pids, NEW m \in Cmds,
           ~Exposed(t, p), u.players[p] # None, m \in u.obj[u.players[p]].data,
           \A o \in u.saved : o \in autosaved \/ o = u.players[p],
           players[p] # None => u.players[p] = players[p]
    PROVE  Held(u, p, m)
<1> SUFFICES ASSUME NEW o \in u.saved, u.obj[o].pid = p PROVE m \in u.obj[o].data
  BY DEF Held
<1>1. CASE o = u.players[p]
  BY <1>1
<1>2. CASE o # u.players[p]
  <2>1. o \in autosaved
    BY <1>2
  <2>2. o \in Objs /\ Built(State, o) /\ obj[o].pid = p
    BY <2>1 DEF IInv, Sound, State, Keeps, Built
  <2>3. players[p] = o
    BY <2>1, <2>2 DEF Exposed, IInv, Strays, State
  <2>4. QED
    BY <1>2, <2>2, <2>3, NoneAssumption
<1>3. QED
  BY <1>1, <1>2

LEMMA SafeNewEvent ==
    ASSUME IInv, NEW u, Become(u), Sound(u), task' = task, NEW p \in Pids, NEW m \in Cmds,
           ~Exposed(None, p), Held(u, p, m),
           u.players[p] # None, m \in u.obj[u.players[p]].data
    PROVE  Safe(State, task, p, m)'
<1>1. \A x \in Tasks : ~Moves(task[x], p)
  BY NoneAssumption DEF Exposed, Moving, Moves
<1>2. \A x \in Tasks : Brings(task[x], u, p, m)
  BY <1>1 DEF Moves, Brings
<1>3. Safe(u, task', p, m)
  BY <1>1, <1>2 DEF Safe, Stays
<1>4. QED
  BY <1>3, SafePrimed DEF Sound

LEMMA SafeNewTask ==
    ASSUME IInv, NEW t \in Tasks, NEW r, NEW u, Become(u), Continue(t, r), Sound(u),
           NEW p \in Pids, NEW m \in Cmds, ~Exposed(t, p), Held(u, p, m), Brings(r, u, p, m),
           \/ m \in u.db[p]
           \/ u.players[p] # None /\ m \in u.obj[u.players[p]].data /\ Stays(r, u, p, m)
    PROVE  Safe(State, task, p, m)'
<1>1. \A x \in Tasks : task'[x] = IF x = t THEN r ELSE task[x]
  BY DEF Continue, IInv
<1>2. \A x \in Tasks : x # t => ~Moves(task[x], p)
  BY DEF Exposed, Moving, Moves
<1>3. \A x \in Tasks : Brings(task'[x], u, p, m)
  BY <1>1, <1>2 DEF Moves, Brings
<1>4. Safe(u, task', p, m)
  <2>1. CASE m \in u.db[p]
    BY <1>3, <2>1 DEF Safe
  <2>2. CASE u.players[p] # None /\ m \in u.obj[u.players[p]].data /\ Stays(r, u, p, m)
    BY <1>1, <1>2, <1>3, <2>2 DEF Safe, Stays
  <2>3. QED
    BY <2>1, <2>2
<1>5. QED
  BY <1>4, SafePrimed DEF Sound

(* delplayer begins: the registered object is written.                     *)
LEMMA BeginDelStep ==
    ASSUME IInv, NEW t \in Tasks, NEW s, NEW p \in Pids, NEW r \in Task, BeginDel(t, s, p, r),
           Sound(s), Keeps(State, s), s.players[p] # None, r.pid = p,
           r.kind \in {"enter", "kick", "close", "admin", "minute"},
           r.kind \in {"enter", "kick", "close"} => Built(s, r.o),
           r.kind = "enter" => s.obj[r.o].pid = p,
           Recorded(s)
    PROVE  /\ IInv'
           /\ \A q \in Pids, m \in Cmds :
                 /\ Safe(State, task, q, m)
                 /\ Held(s, q, m)
                 /\ m \in s.db[q] \/ (m \notin db[q] /\ s.players[q] = players[q])
                 /\ r.kind = "enter" /\ q = p => m \in s.obj[r.o].data
                 => Safe(State, task, q, m)'
           /\ \A m \in Cmds :
                 ~Exposed(t, p) /\ Held(s, p, m) /\ r.kind # "enter"
                    => Safe(State, task, p, m)'
<1> DEFINE x == s.players[p]
           w == NowSave(s, x)
<1>1. x \in Objs /\ Built(s, x) /\ x \in s.saved /\ s.obj[x].pid = p /\ s.obj[x].data \in SUBSET Cmds
  BY DEF Sound, Registry, Built, StateType, Player
<1>2. PICK u \in {w, s}, lost \in BOOLEAN :
         /\ Become(u)
         /\ Continue(t, [r EXCEPT !.at = "save", !.del = x, !.missed = lost])
         /\ u = w \/ lost
  <2> DEFINE rest(lost) == [r EXCEPT !.at = "save", !.del = x, !.missed = lost]
  <2>1. \/ Become(w) /\ Continue(t, rest(FALSE))
        \/ Become(s) /\ Continue(t, rest(TRUE))
    BY DEF BeginDel
  <2> HIDE DEF w, x
  <2>2. CASE Become(w) /\ Continue(t, rest(FALSE))
    <3> WITNESS w \in {w, s}, FALSE \in BOOLEAN
    <3>1. QED
      BY <2>2
  <2>3. CASE Become(s) /\ Continue(t, rest(TRUE))
    <3> WITNESS s \in {w, s}, TRUE \in BOOLEAN
    <3>1. QED
      BY <2>3
  <2>4. QED
    BY <2>1, <2>2, <2>3
<1> DEFINE r2 == [r EXCEPT !.at = "save", !.del = x, !.missed = lost]
<1>d. Become(u) /\ Continue(t, r2)
  BY <1>2
<1>a. Sound(w) /\ Keeps(s, w) /\ w.players = s.players /\ w.obj = s.obj
  BY <1>1, NowSaveSound
<1>b. w.db = [s.db EXCEPT ![p] = s.obj[x].data] /\ w.saved = s.saved
  BY <1>1 DEF NowSave, SaveToDb, Sound, StateType
<1>c. \A q \in Pids : w.db[q] = IF q = p THEN s.obj[x].data ELSE s.db[q]
  BY <1>b DEF Sound, StateType
<1> HIDE DEF w
<1>3. Sound(u) /\ Keeps(s, u) /\ u.players = s.players /\ u.obj = s.obj /\ u.saved = s.saved
  BY <1>2, <1>a, <1>b DEF Keeps
<1>6. Keeps(State, u) /\ Recorded(u)
  BY <1>3, KeepsTwice, RecordedThen
<1>7. /\ r2 \in Task /\ r2.at = "save" /\ r2.del = x /\ r2.pid = p /\ r2.kind = r.kind
      /\ r2.o = r.o /\ (u = w \/ r2.missed)
  <2> HIDE DEF x
  <2>1. r2 \in Task
    BY <1>1 DEF Task, Steps
  <2>2. /\ r2.at = "save" /\ r2.del = x /\ r2.kind = r.kind /\ r2.pid = r.pid
        /\ r2.o = r.o /\ r2.missed = lost
    BY DEF Task
  <2>3. QED
    BY <1>2, <2>1, <2>2
<1> HIDE DEF r2, x
<1>8. TaskOK(r2, u)
  BY <1>1, <1>3, <1>7 DEF TaskOK, Entering, Built
<1>9. IInv'
  BY <1>d, <1>3, <1>6, <1>8, TaskStep
<1>10. \A q \in Pids, m \in Cmds : Held(s, q, m) =>
          /\ Held(u, q, m)
          /\ q = p => m \in u.db[q] \/ (r2.missed /\ m \in u.obj[x].data)
          /\ u.db[q] = s.db[q] \/ (q = p /\ m \in u.db[q])
  BY <1>1, <1>2, <1>3, <1>7, <1>c DEF Held
<1>11. ASSUME NEW q \in Pids, NEW m \in Cmds,
              Safe(State, task, q, m), Held(s, q, m),
              m \in s.db[q] \/ (m \notin db[q] /\ s.players[q] = players[q]),
              r.kind = "enter" /\ q = p => m \in s.obj[r.o].data
       PROVE  Safe(State, task, q, m)'
  <2>1. Held(u, q, m) /\ (q = p => m \in u.db[q] \/ (r2.missed /\ m \in u.obj[x].data))
        /\ (u.db[q] = s.db[q] \/ m \in u.db[q])
    BY <1>10, <1>11
  <2>2. Brings(r2, u, q, m)
    BY <1>3, <1>7, <1>11 DEF Brings
  <2>3. m \in u.db[q] \/ (m \notin db[q] /\ u.players[q] = players[q] /\ Stays(r2, u, q, m))
    BY <1>3, <1>7, <1>11, <2>1 DEF Moves, Stays
  <2>4. QED
    BY <1>d, <1>3, <1>6, <1>11, <2>1, <2>2, <2>3, SafeTask
<1>12. ASSUME NEW m \in Cmds, ~Exposed(t, p), Held(s, p, m), r.kind # "enter"
       PROVE  Safe(State, task, p, m)'
  <2>1. Held(u, p, m) /\ (m \in u.db[p] \/ (r2.missed /\ m \in u.obj[x].data))
    BY <1>10, <1>12
  <2>2. Brings(r2, u, p, m)
    BY <1>7, <1>12 DEF Brings
  <2>3. \/ m \in u.db[p]
        \/ u.players[p] # None /\ m \in u.obj[u.players[p]].data /\ Stays(r2, u, p, m)
    BY <1>3, <1>7, <2>1 DEF Stays, x
  <2>4. QED
    BY <1>d, <1>3, <1>12, <2>1, <2>2, <2>3, SafeNewTask
<1>13. QED
  BY <1>9, <1>11, <1>12
(* A step after which the handler neither loads nor unloads.               *)
Quiet(r) == r.at \notin {"loadwait", "load", "save"}

LEMMA QuietStep ==
    ASSUME IInv, NEW t \in Tasks, NEW r, NEW u, Become(u), Continue(t, r),
           Sound(u), Keeps(State, u), TaskOK(r, u), Quiet(r),
           Recorded(u)
    PROVE  /\ IInv'
           /\ \A q \in Pids, m \in Cmds :
                 /\ Safe(State, task, q, m)
                 /\ Held(u, q, m)
                 /\ m \in u.db[q] \/ (m \notin db[q] /\ u.players[q] = players[q])
                 => Safe(State, task, q, m)'
           /\ \A q \in Pids, m \in Cmds :
                 /\ ~Exposed(t, q) /\ Held(u, q, m)
                 /\ u.players[q] # None /\ m \in u.obj[u.players[q]].data
                 => Safe(State, task, q, m)'
<1>1. \A q \in Pids, m \in Cmds : Brings(r, u, q, m) /\ Stays(r, u, q, m)
  BY DEF Quiet, Brings, Moves, Stays
<1>2. IInv'
  BY TaskStep
<1>3. ASSUME NEW q \in Pids, NEW m \in Cmds, Safe(State, task, q, m), Held(u, q, m),
             m \in u.db[q] \/ (m \notin db[q] /\ u.players[q] = players[q])
      PROVE  Safe(State, task, q, m)'
  BY <1>1, <1>3, SafeTask
<1>4. ASSUME NEW q \in Pids, NEW m \in Cmds, ~Exposed(t, q), Held(u, q, m),
             u.players[q] # None, m \in u.obj[u.players[q]].data
      PROVE  Safe(State, task, q, m)'
  BY <1>1, <1>4, SafeNewTask
<1>5. QED
  BY <1>2, <1>3, <1>4

(* The same when the registry, the database and autosave are left alone.   *)
LEMMA PlainTask ==
    ASSUME IInv, NEW t \in Tasks, NEW r, NEW u, Become(u), Continue(t, r),
           Sound(u), Keeps(State, u), TaskOK(r, u), Quiet(r),
           UNCHANGED history,
           u.players = players, u.db = db, u.saved = autosaved
    PROVE  IInv' /\ SafeKept
<1>1. Recorded(u)
  BY RecordedKept
<1>2. \A q \in Pids, m \in Cmds : Safe(State, task, q, m) => Held(u, q, m)
  BY HeldKept DEF IInv, Safe, State
<1>3. QED
  BY <1>1, <1>2, QuietStep DEF SafeKept, IInv

LEMMA PlainEvent ==
    ASSUME IInv, NEW u, Become(u), Sound(u), Keeps(State, u),
           UNCHANGED <<task, history>>,
           u.players = players, u.saved = autosaved,
           \A q \in Pids, m \in Cmds : Safe(State, task, q, m) /\ m \in db[q] => m \in u.db[q]
    PROVE  IInv' /\ SafeKept
<1>1. Recorded(u)
  BY RecordedKept
<1>2. \A q \in Pids, m \in Cmds : Safe(State, task, q, m) => Held(u, q, m)
  BY HeldKept DEF IInv, Safe, State
<1>3. IInv'
  BY <1>1, EventStep
<1>4. \A q \in Pids, m \in Cmds : Safe(State, task, q, m) => Safe(State, task, q, m)'
  BY <1>2, SafeEvent
<1>5. QED
  BY <1>3, <1>4 DEF SafeKept, IInv

(* A task that has ended remembers nothing.                                *)
LEMMA DoneOK ==
    ASSUME NEW s PROVE TaskOK(Done, s) /\ Quiet(Done)
  BY DEF Done, IdleTask, TaskOK, Task, Kinds, Steps, Entering, Quiet

(* kick: what it was given is kept, and onlogout is called for the object. *)
LEMMA KickStep ==
    ASSUME IInv, NEW t \in Tasks, NEW s, NEW p \in Pids, NEW r \in Task,
           KickPlayer(t, s, p, r), Sound(s), Keeps(State, s), s.players[p] # None, r.pid = p,
           Recorded(s)
    PROVE  /\ IInv'
           /\ \A q \in Pids, m \in Cmds :
                 /\ Safe(State, task, q, m)
                 /\ Held(s, q, m)
                 /\ m \in s.db[q] \/ (m \notin db[q] /\ s.players[q] = players[q])
                 => Safe(State, task, q, m)'
           /\ \A m \in Cmds :
                 /\ ~Exposed(t, p) /\ Held(s, p, m) /\ m \in s.obj[s.players[p]].data
                 => Safe(State, task, p, m)'
<1> DEFINE o == s.players[p]
           c == IF Online(s, p) THEN CloseLink(s, o) ELSE s
           u == [c EXCEPT !.obj[o].force = TRUE]
           r2 == [r EXCEPT !.kind = "kick", !.at = "logout", !.o = o]
<1>1. o \in Objs /\ Built(s, o)
  BY DEF Sound, Registry, Built
<1>2. Become(u) /\ Continue(t, r2)
  BY DEF KickPlayer
<1>3. /\ Sound(c) /\ Keeps(s, c) /\ c.db = s.db /\ c.saved = s.saved
      /\ c.players = s.players
  <2>1. CASE Online(s, p)
    BY <1>1, <2>1, CloseSound DEF Online
  <2>2. CASE ~Online(s, p)
    BY <2>2 DEF Keeps
  <2>3. QED
    BY <2>1, <2>2
<1> HIDE DEF c
<1>4. Built(c, o)
  BY <1>1, <1>3 DEF Keeps
<1>5. /\ Sound(u) /\ Keeps(c, u) /\ u.db = c.db /\ u.saved = c.saved
      /\ u.players = c.players
  BY <1>1, <1>3, <1>4, ForceSound
<1>6. r2 \in Task /\ r2.at = "logout" /\ r2.o = o /\ r2.pid = p /\ r2.kind = "kick"
  BY <1>1 DEF Task, Kinds, Steps
<1> HIDE DEF u, r2, o
<1>7. Keeps(s, u) /\ Keeps(State, u)
  BY <1>3, <1>5, KeepsTwice
<1>8. TaskOK(r2, u) /\ Quiet(r2)
  BY <1>1, <1>6, <1>7 DEF TaskOK, Entering, Quiet, Keeps
<1>9. \A q \in Pids, m \in Cmds : Held(s, q, m) => Held(u, q, m)
  BY <1>3, <1>5, <1>7, HeldKept
<1>10. \A m : m \in s.obj[o].data => m \in u.obj[o].data
  BY <1>1, <1>7 DEF Keeps
<1>11. Recorded(u)
  BY <1>3, <1>5, <1>7, RecordedThen
<1>12. QED
  BY <1>2, <1>3, <1>5, <1>7, <1>8, <1>9, <1>10, <1>11, QuietStep DEF o
-----------------------------------------------------------------------------
(* The actions, in the order of PlayerMgr.                                 *)
LEMMA Still ==
    ASSUME UNCHANGED <<objVars, asserts>>
    PROVE  Become(State) /\ Keeps(State, State)
  BY DEF objVars, Become, State, Keeps

LEMMA LoadLockedStep ==
    ASSUME IInv, NEW t \in Tasks, LoadLocked(t) PROVE IInv' /\ SafeKept
<1> DEFINE r == [task[t] EXCEPT !.at = "load", !.read = db[task[t].pid]]
<1>1. Become(State) /\ Keeps(State, State) /\ Continue(t, r)
  BY Still DEF LoadLocked, ghosts
<1>2. task[t] \in Task /\ TaskOK(task[t], State) /\ task[t].at = "loadwait" /\ task[t].pid \in Pids
  BY DEF IInv, TaskOK, LoadLocked
<1>3. db[task[t].pid] \in SUBSET Cmds
  BY <1>2 DEF IInv, Sound, StateType, State
<1>4. /\ r \in Task /\ r.at = "load" /\ r.read = db[r.pid] /\ r.pid = task[t].pid
      /\ r.kind = task[t].kind /\ r.link = task[t].link /\ r.cmd = task[t].cmd
  BY <1>2, <1>3 DEF Task, Steps
<1> HIDE DEF r
<1>5. TaskOK(r, State)
  BY <1>2, <1>4 DEF TaskOK, Entering
<1>6. Sound(State) /\ Recorded(State)
  BY DEF IInv, LoadLocked, ghosts, history, Recorded
<1>7. IInv'
  BY <1>1, <1>5, <1>6, TaskStep DEF IInv
<1>8. ASSUME NEW p \in Pids, NEW m \in Cmds, Safe(State, task, p, m)
      PROVE  Safe(State, task, p, m)'
  <2>1. Held(State, p, m)
    BY <1>8 DEF Safe
  <2>2. CASE r.pid = p
    <3>1. m \in db[p]
      BY <1>2, <1>4, <1>8, <2>2 DEF Safe, Moves, Stays, State
    <3>2. Brings(r, State, p, m) /\ m \in State.db[p]
      BY <1>4, <2>2, <3>1 DEF Brings, State
    <3>3. QED
      BY <1>1, <1>6, <1>8, <2>1, <3>2, SafeTask
  <2>3. CASE r.pid # p
    <3>1. Brings(r, State, p, m) /\ Stays(r, State, p, m)
      BY <2>3 DEF Brings, Moves, Stays
    <3>2. m \in State.db[p] \/ (m \notin db[p] /\ State.players[p] = players[p] /\ Stays(r, State, p, m))
      BY <3>1 DEF State
    <3>3. QED
      BY <1>1, <1>6, <1>8, <2>1, <3>1, <3>2, SafeTask
  <2>4. QED
    BY <2>2, <2>3
<1>9. QED
  BY <1>7, <1>8 DEF SafeKept, IInv

LEMMA EnterGameStep ==
    ASSUME IInv, NEW t \in Tasks, NEW l \in Links, NEW p \in Pids, EnterGame(t, l, p)
    PROVE  IInv' /\ SafeKept
<1> DEFINE r == [Start("enter", p) EXCEPT !.at = "token", !.link = l]
<1>1. Become(State) /\ Keeps(State, State) /\ Continue(t, r)
  BY Still DEF EnterGame, ghosts
<1>2. r \in Task /\ r.at = "token" /\ r.kind = "enter" /\ r.pid = p /\ r.link = l
  BY DEF Start, IdleTask, Task, Kinds, Steps
<1> HIDE DEF r
<1>3. TaskOK(r, State) /\ Quiet(r)
  BY <1>2 DEF TaskOK, Entering, Quiet
<1>4. QED
  BY <1>1, <1>3, PlainTask DEF EnterGame, ghosts, IInv, State

LEMMA LeaveStep ==
    ASSUME IInv, NEW t \in Tasks, NEW u, Become(u), Sound(u), Keeps(State, u),
           u.players = players, u.db = db, u.saved = autosaved,
           LeaveEnter(t, task[t]), UNCHANGED history
    PROVE  IInv' /\ SafeKept
<1>1. Continue(t, Done) /\ TaskOK(Done, u) /\ Quiet(Done)
  BY DoneOK DEF LeaveEnter
<1>2. QED
  BY <1>1, PlainTask

LEMMA LeavesStep ==
    ASSUME IInv, NEW t \in Tasks,
           EnterRefused(t) \/ EnterLoadRefused(t) \/ EnterFinish(t)
    PROVE  IInv' /\ SafeKept
<1>1. Become(State) /\ Keeps(State, State) /\ LeaveEnter(t, task[t]) /\ UNCHANGED history
  BY Still DEF EnterRefused, EnterLoadRefused, EnterFinish, ghosts
<1>2. Sound(State) /\ State.players = players /\ State.db = db /\ State.saved = autosaved
  BY DEF IInv, State
<1>3. QED
  BY <1>1, <1>2, LeaveStep
(* The load of a command's role fails, or finds nobody.                    *)
LEMMA CmdLoadRefusedStep ==
    ASSUME IInv, NEW t \in Tasks, CmdLoadRefused(t) PROVE IInv' /\ SafeKept
<1>1. Become(State) /\ Keeps(State, State) /\ Continue(t, Done) /\ UNCHANGED history
  BY Still DEF CmdLoadRefused, ghosts
<1>2. Sound(State) /\ State.players = players /\ State.db = db /\ State.saved = autosaved
  BY DEF IInv, State
<1>3. TaskOK(Done, State) /\ Quiet(Done)
  BY DoneOK
<1>4. QED
  BY <1>1, <1>2, <1>3, PlainTask

(* recoverplayer of a role that is not loaded: its commands are written.   *)
LEMMA RecoverStep ==
    ASSUME IInv, NEW t \in Tasks, NEW r \in Task, Recover(t, r), Become(State),
           r.pid \in Pids, players[r.pid] = None,
           \/ r.kind = "enter" /\ r.link \in Links
           \/ r.kind \in {"cmd", "admin"} /\ r.cmd \in Cmds,
           UNCHANGED history
    PROVE  IInv' /\ SafeKept
<1> DEFINE x == [r EXCEPT !.at = "load", !.read = db[r.pid]]
           y == [r EXCEPT !.at = "loadwait"]
<1>1. db[r.pid] \in SUBSET Cmds
  BY DEF IInv, Sound, StateType, State
<1>2. x \in Task /\ x.at = "load" /\ x.read = db[r.pid] /\ x.pid = r.pid /\ x.kind = r.kind
      /\ x.link = r.link /\ x.cmd = r.cmd
  BY <1>1 DEF Task, Steps
<1>3. y \in Task /\ y.at = "loadwait" /\ y.pid = r.pid /\ y.kind = r.kind
      /\ y.link = r.link /\ y.cmd = r.cmd
  BY DEF Task, Steps
<1> HIDE DEF x, y
<1>4. PICK z \in {x, y} : Continue(t, z)
  BY DEF Recover, x, y
<1>5. TaskOK(z, State)
  BY <1>2, <1>3, <1>4 DEF TaskOK, Entering
<1>6. Sound(State) /\ Keeps(State, State)
  BY DEF IInv, Keeps
<1>7. IInv'
  <2>1. Recorded(State)
    BY <1>6, RecordedKept DEF State
  <2>2. QED
    BY <1>4, <1>5, <1>6, <2>1, TaskStep
<1>8. ASSUME NEW p \in Pids, NEW m \in Cmds, Safe(State, task, p, m)
      PROVE  Safe(State, task, p, m)'
  <2>1. Held(State, p, m)
    BY <1>8 DEF Safe
  <2>2. CASE r.pid = p
    <3>1. m \in db[p]
      BY <1>8, <2>2 DEF Safe, State
    <3>2. Brings(z, State, p, m) /\ m \in State.db[p]
      BY <1>2, <1>3, <1>4, <2>2, <3>1 DEF Brings, State
    <3>3. QED
      BY <1>4, <1>6, <1>8, <2>1, <3>2, SafeTask
  <2>3. CASE r.pid # p
    <3>1. Brings(z, State, p, m) /\ Stays(z, State, p, m)
      BY <1>2, <1>3, <1>4, <2>3 DEF Brings, Moves, Stays
    <3>2. m \in State.db[p] \/ (m \notin db[p] /\ State.players[p] = players[p] /\ Stays(z, State, p, m))
      BY <3>1 DEF State
    <3>3. QED
      BY <1>4, <1>6, <1>8, <2>1, <3>1, <3>2, SafeTask
  <2>4. QED
    BY <2>2, <2>3
<1>9. QED
  BY <1>7, <1>8 DEF SafeKept, IInv

LEMMA EnterRecoverStep ==
    ASSUME IInv, NEW t \in Tasks, EnterRecover(t) PROVE IInv' /\ SafeKept
<1>1. Become(State) /\ Keeps(State, State) /\ UNCHANGED history
  BY Still DEF EnterRecover, ghosts
<1>2. /\ task[t] \in Task /\ task[t].at = "token" /\ task[t].kind = "enter"
      /\ task[t].pid \in Pids /\ task[t].link \in Links /\ players[task[t].pid] = None
  BY DEF IInv, TaskOK, Entering, EnterRecover, HasToken
<1>3. CASE OpenKuafu
  <2> DEFINE r == [task[t] EXCEPT !.at = "route"]
  <2>1. Continue(t, r)
    BY <1>3 DEF EnterRecover
  <2>2. /\ r \in Task /\ r.at = "route" /\ r.kind = "enter"
        /\ r.pid \in Pids /\ r.link \in Links
    BY <1>2 DEF Task, Steps
  <2> HIDE DEF r
  <2>3. TaskOK(r, State) /\ Quiet(r)
    BY <2>2 DEF TaskOK, Entering, Quiet
  <2>4. QED
    BY <1>1, <2>1, <2>3, PlainTask DEF IInv, State
<1>4. CASE ~OpenKuafu
  <2>1. Recover(t, task[t])
    BY <1>4 DEF EnterRecover
  <2>2. QED
    BY <1>1, <1>2, <2>1, RecoverStep
<1>5. QED
  BY <1>3, <1>4

LEMMA EnterRoutedStep ==
    ASSUME IInv, NEW t \in Tasks, EnterRouted(t) PROVE IInv' /\ SafeKept
<1>1. UNCHANGED history
  BY DEF EnterRouted
<1>2. /\ task[t] \in Task /\ task[t].at = "route" /\ task[t].kind = "enter"
      /\ task[t].pid \in Pids /\ task[t].link \in Links
  BY DEF IInv, TaskOK, Entering, EnterRouted
<1>3. State \in StateType /\ Sound(State) /\ Keeps(State, State)
  BY DEF IInv, Sound, Keeps
<1>4. CASE Recover(t, task[t]) /\ Become(State) /\ players[task[t].pid] = None
  BY <1>1, <1>2, <1>4, RecoverStep
<1>5. ASSUME NEW u \in StateType, Become(u), LeaveEnter(t, task[t]), u.players = players,
             u.obj = obj, u.saved = autosaved, u.db = db, "add" \notin u.failed
      PROVE  IInv' /\ SafeKept
  <2>1. Sound(u) /\ Keeps(State, u)
    BY <1>3, <1>5, OtherSound DEF State
  <2>2. QED
    BY <1>1, <1>5, <2>1, LeaveStep
<1>6. State.players = players /\ State.obj = obj /\ State.saved = autosaved /\ State.db = db
      /\ "add" \notin State.failed
  BY <1>3 DEF State, Sound
<1>7. CASE LeaveEnter(t, task[t]) /\ Become(State)
  BY <1>3, <1>5, <1>6, <1>7
<1>8. CASE LeaveEnter(t, task[t]) /\ Become([State EXCEPT !.up = @ \ {task[t].link}])
  <2> DEFINE u == [State EXCEPT !.up = @ \ {task[t].link}]
  <2>1. u \in StateType /\ u.players = players /\ u.obj = obj /\ u.saved = autosaved
        /\ u.db = db /\ "add" \notin u.failed
    BY <1>3, <1>6 DEF StateType
  <2> HIDE DEF u
  <2>2. Become(u)
    BY <1>8 DEF u
  <2>3. QED
    BY <1>5, <1>8, <2>1, <2>2
<1>9. CASE LeaveEnter(t, task[t]) /\ Become([State EXCEPT !.failed = @ \cup {"recover"}])
  <2> DEFINE u == [State EXCEPT !.failed = @ \cup {"recover"}]
  <2>1. u \in StateType /\ u.players = players /\ u.obj = obj /\ u.saved = autosaved
        /\ u.db = db /\ "add" \notin u.failed
    BY <1>3, <1>6 DEF StateType
  <2> HIDE DEF u
  <2>2. Become(u)
    BY <1>9 DEF u
  <2>3. QED
    BY <1>5, <1>9, <2>1, <2>2
<1>10. QED
  BY <1>4, <1>7, <1>8, <1>9 DEF EnterRouted

LEMMA EnterReplaceStep ==
    ASSUME IInv, NEW t \in Tasks, EnterReplace(t) PROVE IInv' /\ SafeKept
<1> DEFINE r == task[t]
           o == players[r.pid]
           s == IF Online(State, r.pid) THEN CloseLink(State, o) ELSE State
           u == BindLink(s, o, r.link)
           r2 == [r EXCEPT !.at = "login", !.o = o]
<1>1. UNCHANGED history
  BY DEF EnterReplace
<1>2. /\ r \in Task /\ r.kind = "enter" /\ r.pid \in Pids /\ r.link \in Links /\ o # None
  BY DEF IInv, TaskOK, Entering, EnterReplace, HasToken
<1>3. Sound(State) /\ Keeps(State, State) /\ o \in Objs /\ Built(State, o)
  BY <1>2 DEF IInv, Sound, Registry, Keeps, State, Built
<1>4. State.players = players /\ State.obj = obj /\ State.saved = autosaved /\ State.db = db
  BY DEF State
<1>5. /\ Sound(s) /\ Keeps(State, s) /\ s.db = db /\ s.saved = autosaved /\ s.players = players
  <2>1. CASE Online(State, r.pid)
    BY <1>3, <1>4, <2>1, CloseSound DEF Online
  <2>2. CASE ~Online(State, r.pid)
    BY <1>3, <1>4, <2>2
  <2>3. QED
    BY <2>1, <2>2
<1>6. \/ Become(s) /\ LeaveEnter(t, r)
      \/ Become(u) /\ Continue(t, r2)
  BY DEF EnterReplace
<1> HIDE DEF s
<1>7. CASE Become(s) /\ LeaveEnter(t, r)
  BY <1>1, <1>5, <1>7, LeaveStep
<1>8. CASE Become(u) /\ Continue(t, r2)
  <2>1. Built(s, o)
    BY <1>3, <1>5 DEF Keeps
  <2>2. Sound(u) /\ Keeps(s, u) /\ u.db = db /\ u.saved = autosaved /\ u.players = players
    BY <1>2, <1>3, <1>5, <2>1, BindSound
  <2>3. r2 \in Task /\ r2.at = "login" /\ r2.kind = "enter" /\ r2.pid \in Pids
    BY <1>2, <1>3 DEF Task, Steps
  <2> HIDE DEF u, r2
  <2>4. Keeps(State, u)
    BY <1>5, <2>2, KeepsTwice
  <2>5. TaskOK(r2, u) /\ Quiet(r2)
    BY <2>3 DEF TaskOK, Entering, Quiet
  <2>6. QED
    BY <1>1, <1>8, <2>2, <2>4, <2>5, PlainTask
<1>9. QED
  BY <1>6, <1>7, <1>8
(* A command that has been executed is at risk, or safe.                   *)
Performed(p, m) ==
    /\ executed' = executed \cup {m} /\ atRisk \subseteq atRisk'
    /\ m \in atRisk' \/ Safe(State, task, p, m)'

LEMMA ExecutedTyped ==
    ASSUME IInv, NEW t, NEW p \in Pids, NEW m \in Cmds, Executed(t, p, m),
           NEW u, Strays(u) \subseteq Strays(State)
    PROVE  /\ Recorded(u)
           /\ executed' = executed \cup {m} /\ atRisk \subseteq atRisk'
           /\ Exposed(t, p) => m \in atRisk'
  BY DEF IInv, Executed, Exposed, Recorded

(* setplayerlasttick, where it is called, and the command.                 *)
LEMMA CommandSound ==
    ASSUME NEW s, NEW s1, NEW p \in Pids, NEW m \in Cmds, Sound(s), s.players[p] # None,
           s1 \in {s, SetLastTick(s, p)}
    PROVE  LET u == Execute(s1, p, m) IN
           /\ Sound(u) /\ Keeps(s, u) /\ u.db = s.db /\ u.saved = s.saved
           /\ u.players = s.players /\ m \in u.obj[u.players[p]].data
<1>1. /\ Sound(s1) /\ Keeps(s, s1) /\ s1.players = s.players /\ s1.db = s.db
      /\ s1.saved = s.saved
  <2>1. CASE s1 = s
    BY <2>1 DEF Keeps
  <2>2. CASE s1 = SetLastTick(s, p)
    <3>1. Sound(s1) /\ Keeps(s, s1) /\ s1.players = s.players
      BY <2>2, TickSound
    <3>2. s1.db = s.db /\ s1.saved = s.saved
      BY <2>2 DEF SetLastTick, Sound, StateType
    <3>3. QED
      BY <3>1, <3>2
  <2>3. QED
    BY <2>1, <2>2
<1> DEFINE u == Execute(s1, p, m)
<1>a. Sound(s1) /\ s1.players[p] # None
  BY <1>1
<1>2. /\ Sound(u) /\ Keeps(s1, u) /\ u.db = s1.db /\ u.saved = s1.saved
      /\ u.players = s1.players
      /\ u.obj[s1.players[p]].data = s1.obj[s1.players[p]].data \cup {m}
  <2> HIDE DEF u
  <2>1. Sound(Execute(s1, p, m)) /\ Keeps(s1, Execute(s1, p, m))
    BY <1>a, ExecuteSound
  <2>2. /\ Execute(s1, p, m).db = s1.db
    BY <1>a, ExecuteSound
  <2>3. /\ Execute(s1, p, m).saved = s1.saved
    BY <1>a, ExecuteSound
  <2>4. /\ Execute(s1, p, m).players = s1.players
    BY <1>a, ExecuteSound
  <2>5. /\ Execute(s1, p, m).obj[s1.players[p]].data = s1.obj[s1.players[p]].data \cup {m}
    BY <1>a, ExecuteSound
  <2>6. QED
    BY <1>a, <2>1, <2>2, <2>3, <2>4, <2>5 DEF u
<1> HIDE DEF u
<1>3. Keeps(s, u)
  BY <1>1, <1>2, KeepsTwice
<1>4. QED
  BY <1>1, <1>2, <1>3 DEF u

(* A command on a role that is loaded.                                     *)
LEMMA CommandStep ==
    ASSUME IInv, NEW s1, NEW p \in Pids, NEW m \in Cmds, players[p] # None,
           s1 \in {State, SetLastTick(State, p)},
           Become(Execute(s1, p, m)), Executed(None, p, m), UNCHANGED task
    PROVE  IInv' /\ SafeKept /\ Performed(p, m)
<1> DEFINE u == Execute(s1, p, m)
<1>1. Sound(State) /\ State.players = players /\ State.db = db /\ State.saved = autosaved
  BY DEF IInv, State
<1>2. /\ Sound(u) /\ Keeps(State, u) /\ u.db = db /\ u.saved = autosaved
      /\ u.players = players /\ m \in u.obj[u.players[p]].data
  <2>1. State.players[p] # None
    BY <1>1
  <2> HIDE DEF u
  <2>2. /\ Sound(u) /\ Keeps(State, u) /\ u.db = State.db /\ u.saved = State.saved
        /\ u.players = State.players /\ m \in u.obj[u.players[p]].data
    BY <1>1, <2>1, CommandSound DEF u
  <2>3. QED
    BY <1>1, <2>2
<1>3. Become(u)
  OBVIOUS
<1> HIDE DEF u
<1>4. /\ Recorded(u)
      /\ executed' = executed \cup {m} /\ atRisk \subseteq atRisk'
      /\ Exposed(None, p) => m \in atRisk'
  <2>1. Strays(u) \subseteq Strays(State)
    BY <1>1, <1>2, StraysKept
  <2>2. QED
    BY <2>1, ExecutedTyped
<1>5. IInv'
  BY <1>2, <1>3, <1>4, EventStep
<1>6. \A q \in Pids, n \in Cmds : Safe(State, task, q, n) => Held(u, q, n)
  BY <1>1, <1>2, HeldKept DEF Safe
<1>7. ASSUME NEW q \in Pids, NEW n \in Cmds, Safe(State, task, q, n)
      PROVE  Safe(State, task, q, n)'
  BY <1>2, <1>3, <1>6, <1>7, SafeEvent
<1>8. ~Exposed(None, p) => Safe(State, task, p, m)'
  <2> SUFFICES ASSUME ~Exposed(None, p) PROVE Safe(State, task, p, m)'
    OBVIOUS
  <2>1. Held(u, p, m)
    BY <1>2, HeldNew
  <2>2. QED
    BY <1>2, <1>3, <2>1, SafeNewEvent
<1>9. QED
  BY <1>4, <1>5, <1>7, <1>8 DEF SafeKept, Performed, IInv

LEMMA ClientCmdStep ==
    ASSUME IInv, NEW l \in Links, NEW m \in Cmds, ClientCmd(l, m)
    PROVE  IInv' /\ SafeKept /\ (UNCHANGED history \/ \E p \in Pids : Performed(p, m))
<1> DEFINE p == linkPid[l]
<1>1. p \in Pids
  BY DEF IInv, Sound, StateType, State, ClientCmd
<1>2. CASE Online(State, p)
  <2>1. players[p] # None
    BY <1>2 DEF Online, State
  <2>2. Become(Execute(State, p, m)) /\ Executed(None, p, m) /\ UNCHANGED task
    BY <1>2 DEF ClientCmd
  <2> HIDE DEF p
  <2>3. IInv' /\ SafeKept /\ Performed(p, m)
    BY <1>1, <2>1, <2>2, CommandStep
  <2>4. QED
    BY <1>1, <2>3
<1>3. CASE ~Online(State, p)
  <2> DEFINE u == [State EXCEPT !.failed = @ \cup {"filter"}]
  <2>1. Become(u) /\ UNCHANGED <<task, history>>
    BY <1>3 DEF ClientCmd
  <2>2. Sound(State) /\ State \in StateType
    BY DEF IInv, Sound
  <2>3. /\ u \in StateType /\ u.players = players /\ u.obj = obj /\ u.saved = autosaved
        /\ u.db = db /\ "add" \notin u.failed
    BY <2>2 DEF StateType, State, Sound
  <2> HIDE DEF u
  <2>4. State.players = players /\ State.obj = obj /\ State.saved = autosaved
    BY DEF State
  <2>5. Sound(u) /\ Keeps(State, u)
    BY <2>2, <2>3, <2>4, OtherSound
  <2>6. IInv' /\ SafeKept
    BY <2>1, <2>3, <2>5, PlainEvent
  <2>7. QED
    BY <2>1, <2>6
<1>4. QED
  BY <1>2, <1>3

LEMMA DoPlayerCmdStep ==
    ASSUME IInv, NEW p \in Pids, NEW m \in Cmds, DoPlayerCmd(p, m)
    PROVE  IInv' /\ SafeKept /\ Performed(p, m)
  BY CommandStep DEF DoPlayerCmd

(* An admin operation ends.                                                *)
LEMMA AdminEndStep ==
    ASSUME IInv, NEW t \in Tasks, NEW s, NEW p \in Pids, NEW r \in Task, AdminEnd(t, s, p, r),
           Sound(s), Keeps(State, s), s.players[p] # None, r.pid = p, r.kind = "admin",
           Recorded(s)
    PROVE  /\ IInv'
           /\ \A q \in Pids, m \in Cmds :
                 /\ Safe(State, task, q, m)
                 /\ Held(s, q, m)
                 /\ m \in s.db[q] \/ (m \notin db[q] /\ s.players[q] = players[q])
                 => Safe(State, task, q, m)'
           /\ \A m \in Cmds :
                 /\ ~Exposed(t, p) /\ Held(s, p, m) /\ m \in s.obj[s.players[p]].data
                 => Safe(State, task, p, m)'
<1>1. CASE BeginDel(t, s, p, r)
  BY <1>1, BeginDelStep
<1>2. CASE Become(s) /\ Continue(t, Done)
  BY <1>2, DoneOK, QuietStep
<1>3. QED
  BY <1>1, <1>2 DEF AdminEnd
LEMMA StartOK ==
    ASSUME NEW kind \in Kinds, NEW p \in Pids
    PROVE  LET r == Start(kind, p) IN r \in Task /\ r.pid = p /\ r.kind = kind
  BY DEF Start, IdleTask, Task, Steps

LEMMA FreezeStep ==
    ASSUME IInv, NEW t \in Tasks, NEW p \in Pids, NEW m \in Cmds, Freeze(t, p, m)
    PROVE  IInv' /\ SafeKept /\ Performed(p, m)
<1> DEFINE s1 == SetLastTick(State, p)
           u == Execute(s1, p, m)
           r == Start("kick", p)
<1>1. /\ Sound(State) /\ State.players = players /\ State.db = db /\ State.saved = autosaved
      /\ State.players[p] # None
  BY DEF IInv, State, Freeze
<1>2. KickPlayer(t, u, p, r) /\ Executed(t, p, m)
  BY DEF Freeze
<1>3. r \in Task /\ r.pid = p
  BY StartOK DEF Kinds
<1> HIDE DEF u, r
<1>4. /\ Sound(u) /\ Keeps(State, u) /\ u.db = db /\ u.saved = autosaved
      /\ u.players = players /\ m \in u.obj[u.players[p]].data
  BY <1>1, CommandSound DEF u
<1>5. /\ Recorded(u)
      /\ executed' = executed \cup {m} /\ atRisk \subseteq atRisk'
      /\ Exposed(t, p) => m \in atRisk'
  <2>1. Strays(u) \subseteq Strays(State)
    BY <1>1, <1>4, StraysKept
  <2>2. QED
    BY <1>2, <2>1, ExecutedTyped
<1>6. \A q \in Pids, n \in Cmds : Safe(State, task, q, n) => Held(u, q, n)
  BY <1>1, <1>4, HeldKept DEF Safe
<1>7. ~Exposed(t, p) => Held(u, p, m)
  BY <1>1, <1>4, HeldNew
<1>8. u.players[p] # None
  BY <1>1, <1>4
<1>9. /\ IInv'
      /\ \A q \in Pids, n \in Cmds :
            /\ Safe(State, task, q, n)
            /\ Held(u, q, n)
            /\ n \in u.db[q] \/ (n \notin db[q] /\ u.players[q] = players[q])
            => Safe(State, task, q, n)'
      /\ \A n \in Cmds :
            /\ ~Exposed(t, p) /\ Held(u, p, n) /\ n \in u.obj[u.players[p]].data
            => Safe(State, task, p, n)'
  BY <1>2, <1>3, <1>4, <1>5, <1>8, KickStep
<1>10. QED
  BY <1>4, <1>5, <1>6, <1>7, <1>9 DEF SafeKept, Performed, IInv

LEMMA AdminCmdStep ==
    ASSUME IInv, NEW t \in Tasks, NEW p \in Pids, NEW m \in Cmds, AdminCmd(t, p, m)
    PROVE  IInv' /\ SafeKept /\ Performed(p, m)
<1> DEFINE u == Execute(State, p, m)
           r == Start("admin", p)
<1>1. /\ Sound(State) /\ State.players = players /\ State.db = db /\ State.saved = autosaved
      /\ State.players[p] # None
  BY DEF IInv, State, AdminCmd
<1>2. AdminEnd(t, u, p, r) /\ Executed(t, p, m)
  BY DEF AdminCmd
<1>3. r \in Task /\ r.pid = p /\ r.kind = "admin"
  BY StartOK DEF Kinds
<1> HIDE DEF u, r
<1>4. /\ Sound(u) /\ Keeps(State, u) /\ u.db = db /\ u.saved = autosaved
      /\ u.players = players /\ m \in u.obj[u.players[p]].data
  BY <1>1, CommandSound DEF u
<1>5. /\ Recorded(u)
      /\ executed' = executed \cup {m} /\ atRisk \subseteq atRisk'
      /\ Exposed(t, p) => m \in atRisk'
  <2>1. Strays(u) \subseteq Strays(State)
    BY <1>1, <1>4, StraysKept
  <2>2. QED
    BY <1>2, <2>1, ExecutedTyped
<1>6. \A q \in Pids, n \in Cmds : Safe(State, task, q, n) => Held(u, q, n)
  BY <1>1, <1>4, HeldKept DEF Safe
<1>7. ~Exposed(t, p) => Held(u, p, m)
  BY <1>1, <1>4, HeldNew
<1>8. u.players[p] # None
  BY <1>1, <1>4
<1>9. /\ IInv'
      /\ \A q \in Pids, n \in Cmds :
            /\ Safe(State, task, q, n)
            /\ Held(u, q, n)
            /\ n \in u.db[q] \/ (n \notin db[q] /\ u.players[q] = players[q])
            => Safe(State, task, q, n)'
      /\ \A n \in Cmds :
            /\ ~Exposed(t, p) /\ Held(u, p, n) /\ n \in u.obj[u.players[p]].data
            => Safe(State, task, p, n)'
  BY <1>2, <1>3, <1>4, <1>5, <1>8, AdminEndStep
<1>10. QED
  BY <1>4, <1>5, <1>6, <1>7, <1>9 DEF SafeKept, Performed, IInv

LEMMA LoadForCmdStep ==
    ASSUME IInv, NEW t \in Tasks, NEW kind \in {"cmd", "admin"}, NEW p \in Pids, NEW m \in Cmds,
           LoadForCmd(t, kind, p, m)
    PROVE  IInv' /\ SafeKept
<1> DEFINE r == [Start(kind, p) EXCEPT !.cmd = m]
<1>1. Become(State) /\ Recover(t, r) /\ players[p] = None /\ UNCHANGED history
  BY Still DEF LoadForCmd, ghosts
<1>2. r \in Task /\ r.pid = p /\ r.kind = kind /\ r.cmd = m
  BY DEF Start, IdleTask, Task, Kinds, Steps
<1> HIDE DEF r
<1>3. QED
  BY <1>1, <1>2, RecoverStep

(* loadplayer after findOne: the role is loaded then, by this handler or   *)
(* by another one.                                                         *)
LEMMA LoadPlayerSound ==
    ASSUME IInv, NEW t \in Tasks, NEW o \in Objs, task[t].at = "load", obj[o] = None
    PROVE  LET p == task[t].pid
               s == LoadPlayer(State, o, p, task[t].read)
           IN
           /\ Sound(s) /\ Keeps(State, s) /\ s.db = db /\ s.players[p] # None
           /\ \A q \in Pids : q # p \/ players[q] # None => s.players[q] = players[q]
           /\ \A x \in s.saved : x \in autosaved \/ x = s.players[p]
           /\ Strays(s) \subseteq Strays(State)
           /\ \A q \in Pids, m \in Cmds : Safe(State, task, q, m) => Held(s, q, m)
<1> DEFINE p == task[t].pid
           d == task[t].read
           n == NewPlayer(State, o, p, d)
           s == LoadPlayer(State, o, p, d)
<1>1. p \in Pids /\ d \in SUBSET Cmds
  BY DEF IInv, TaskOK, Task
<1>2. /\ Sound(State) /\ State.players = players /\ State.db = db /\ State.saved = autosaved
      /\ State.obj = obj
  BY DEF IInv, State
<1>3. \A q \in Pids, m \in Cmds : Safe(State, task, q, m) =>
         Held(State, q, m) /\ (q = p => m \in d)
  BY DEF Safe, Brings
<1> HIDE DEF p, d
<1>4. CASE players[p] # None
  <2>1. s = State
    BY <1>2, <1>4 DEF LoadPlayer
  <2>2. QED
    BY <1>2, <1>3, <1>4, <2>1 DEF Keeps, p, d
<1>5. CASE players[p] = None
  <2> DEFINE u == AddPlayer(n, o)
  <2>1. /\ Sound(n) /\ Keeps(State, n) /\ n.players = players
        /\ Built(n, o) /\ n.obj[o].pid = p /\ n.obj[o].data = d
        /\ n.saved = autosaved /\ n.db = db
    BY <1>1, <1>2, NewSound
  <2> HIDE DEF n
  <2>2. n.players[n.obj[o].pid] = None
    BY <1>5, <2>1
  <2>3. /\ Sound(u) /\ Keeps(n, u) /\ u.db = n.db /\ u.saved = n.saved \cup {o}
        /\ u.players = [n.players EXCEPT ![n.obj[o].pid] = o]
        /\ u.obj[o].data = n.obj[o].data
    BY <2>1, <2>2, AddSound
  <2>4. u = s
    BY <1>2, <1>5 DEF LoadPlayer, n
  <2> HIDE DEF u, s
  <2>5. Keeps(State, u)
    BY <2>1, <2>3, KeepsTwice
  <2>6. players \in [Pids -> Objs \cup {None}]
    BY <1>2 DEF Sound, StateType
  <2>7. u.players[p] = o /\ o # None /\ \A q \in Pids : q # p => u.players[q] = players[q]
    BY <1>1, <2>1, <2>3, <2>6, NoneAssumption
  <2>8. u.obj[o].pid = p /\ u.obj[o].data = d
    BY <2>1, <2>3 DEF Keeps
  <2>9. ASSUME NEW q \in Pids, NEW m \in Cmds, Safe(State, task, q, m) PROVE Held(u, q, m)
    <3> SUFFICES ASSUME NEW x \in u.saved, u.obj[x].pid = q PROVE m \in u.obj[x].data
      BY DEF Held
    <3>1. Held(State, q, m) /\ (q = p => m \in d)
      BY <1>3, <2>9
    <3>2. CASE x = o
      BY <2>8, <3>1, <3>2
    <3>3. CASE x # o
      <4>1. x \in autosaved /\ Built(State, x) /\ x \in Objs
        BY <1>2, <2>1, <2>3, <3>3 DEF Sound, Built
      <4>2. obj[x].pid = q /\ obj[x].data \subseteq u.obj[x].data
        BY <1>2, <2>5, <4>1 DEF Keeps
      <4>3. QED
        BY <1>2, <3>1, <4>1, <4>2 DEF Held
    <3>4. QED
      BY <3>2, <3>3
  <2>10. Strays(u) \subseteq Strays(State)
    <3> SUFFICES ASSUME NEW q \in Pids, NEW x \in u.saved, u.obj[x].pid = q, u.players[q] # x
                 PROVE  x \in autosaved /\ obj[x].pid = q /\ players[q] # x
      BY <1>2 DEF Strays
    <3>1. x # o
      BY <2>7, <2>8
    <3>2. x \in autosaved /\ Built(State, x) /\ x \in Objs
      BY <1>2, <2>1, <2>3, <3>1 DEF Sound, Built
    <3>3. obj[x].pid = q
      BY <1>2, <2>5, <3>2 DEF Keeps
    <3>4. x # None
      BY <3>2, NoneAssumption
    <3>5. QED
      BY <1>5, <2>7, <3>2, <3>3, <3>4
  <2>11. QED
    BY <1>5, <2>1, <2>3, <2>4, <2>5, <2>7, <2>9, <2>10 DEF s, p, d
<1>6. QED
  BY <1>4, <1>5
LEMMA CmdLoadedStep ==
    ASSUME IInv, NEW t \in Tasks, NEW o \in Objs, CmdLoaded(t, o)
    PROVE  IInv' /\ SafeKept /\ \E p \in Pids, m \in Cmds : Performed(p, m)
<1> DEFINE r == task[t]
<1>1. PICK p \in Pids, m \in Cmds :
         /\ r \in Task /\ r.at = "load" /\ r.kind \in {"cmd", "admin"} /\ obj[o] = None
         /\ r.pid = p /\ r.cmd = m
  BY DEF IInv, TaskOK, CmdLoaded
<1> DEFINE s == LoadPlayer(State, o, p, r.read)
           s1 == IF r.kind = "admin" THEN s ELSE SetLastTick(s, p)
           u == Execute(s1, p, m)
<1>2. /\ Sound(s) /\ Keeps(State, s) /\ s.db = db /\ s.players[p] # None
      /\ \A q \in Pids : q # p \/ players[q] # None => s.players[q] = players[q]
      /\ \A x \in s.saved : x \in autosaved \/ x = s.players[p]
      /\ Strays(s) \subseteq Strays(State)
      /\ \A q \in Pids, n \in Cmds : Safe(State, task, q, n) => Held(s, q, n)
  BY <1>1, LoadPlayerSound
<1>3. /\ r.kind = "admin" => AdminEnd(t, u, p, r)
      /\ r.kind = "cmd" => \/ KickPlayer(t, u, p, r)
                           \/ Become(u) /\ Continue(t, Done)
      /\ Executed(t, p, m)
  BY <1>1 DEF CmdLoaded
<1>4. s1 \in {s, SetLastTick(s, p)}
  OBVIOUS
<1> HIDE DEF s, s1, u
<1>5. /\ Sound(u) /\ Keeps(s, u) /\ u.db = s.db /\ u.saved = s.saved
      /\ u.players = s.players /\ m \in u.obj[u.players[p]].data
  <2>1. Sound(s) /\ s.players[p] # None
    BY <1>2
  <2>2. QED
    BY <1>4, <2>1, CommandSound DEF u
<1>6. Keeps(State, u) /\ u.players[p] # None
  BY <1>2, <1>5, KeepsTwice
<1>7. /\ Recorded(u)
      /\ executed' = executed \cup {m} /\ atRisk \subseteq atRisk'
      /\ Exposed(t, p) => m \in atRisk'
  <2>1. Strays(u) \subseteq Strays(State)
    BY <1>2, <1>5, StraysKept
  <2>2. QED
    BY <1>1, <1>3, <2>1, ExecutedTyped
<1>8. ASSUME NEW q \in Pids, NEW n \in Cmds, Safe(State, task, q, n)
      PROVE  Held(u, q, n) /\ (n \in u.db[q] \/ (n \notin db[q] /\ u.players[q] = players[q]))
  <2>1. Held(s, q, n)
    BY <1>2, <1>8
  <2>2. Held(u, q, n)
    BY <1>2, <1>5, <2>1, HeldKept
  <2>3. CASE q = p
    BY <1>1, <1>2, <1>5, <1>8, <2>2, <2>3 DEF Safe, Moves, Stays, State
  <2>4. CASE q # p
    BY <1>2, <1>5, <2>2, <2>4
  <2>5. QED
    BY <2>3, <2>4
<1>9. ~Exposed(t, p) => Held(u, p, m)
  BY <1>1, <1>2, <1>5, <1>6, HeldNew
<1> DEFINE Keeping == \A q \in Pids, n \in Cmds :
              /\ Safe(State, task, q, n)
              /\ Held(u, q, n)
              /\ n \in u.db[q] \/ (n \notin db[q] /\ u.players[q] = players[q])
              => Safe(State, task, q, n)'
<1>10. IInv' /\ Keeping /\ (~Exposed(t, p) /\ Held(u, p, m) => Safe(State, task, p, m)')
  <2>1. CASE AdminEnd(t, u, p, r) /\ r.kind = "admin"
    <3>1. /\ IInv' /\ Keeping
          /\ \A n \in Cmds :
                /\ ~Exposed(t, p) /\ Held(u, p, n) /\ n \in u.obj[u.players[p]].data
                => Safe(State, task, p, n)'
      BY <1>1, <1>5, <1>6, <1>7, <2>1, AdminEndStep
    <3>2. QED
      BY <1>1, <1>5, <3>1
  <2>2. CASE KickPlayer(t, u, p, r)
    <3>1. /\ IInv' /\ Keeping
          /\ \A n \in Cmds :
                /\ ~Exposed(t, p) /\ Held(u, p, n) /\ n \in u.obj[u.players[p]].data
                => Safe(State, task, p, n)'
      BY <1>1, <1>5, <1>6, <1>7, <2>2, KickStep
    <3>2. QED
      BY <1>1, <1>5, <3>1
  <2>3. CASE Become(u) /\ Continue(t, Done)
    <3>1. TaskOK(Done, u) /\ Quiet(Done)
      BY <1>1, DoneOK
    <3>2. /\ IInv' /\ Keeping
          /\ \A q \in Pids, n \in Cmds :
                /\ ~Exposed(t, q) /\ Held(u, q, n)
                /\ u.players[q] # None /\ n \in u.obj[u.players[q]].data
                => Safe(State, task, q, n)'
      BY <1>5, <1>6, <1>7, <2>3, <3>1, QuietStep
    <3>3. QED
      BY <1>1, <1>5, <1>6, <3>2
  <2>4. QED
    BY <1>1, <1>3, <2>1, <2>2, <2>3
<1>11. SafeKept
  BY <1>8, <1>10 DEF SafeKept, IInv
<1>12. Performed(p, m)
  BY <1>7, <1>9, <1>10 DEF Performed
<1>13. QED
  BY <1>10, <1>11, <1>12

(* The login has the content: what findOne has read is what was written.   *)
LEMMA EnterLoadedStep ==
    ASSUME IInv, NEW t \in Tasks, NEW o \in Objs, EnterLoaded(t, o)
    PROVE  IInv' /\ SafeKept
<1> DEFINE r == task[t]
           p == r.pid
           n == NewPlayer(State, o, p, r.read)
           s == BindLink(n, o, r.link)
           u == AddPlayer(s, o)
           r1 == [r EXCEPT !.o = o]
           r2 == [r EXCEPT !.at = "login", !.o = o]
<1>1. /\ r \in Task /\ r.at = "load" /\ r.kind = "enter" /\ obj[o] = None
      /\ p \in Pids /\ r.link \in Links /\ r.read \in SUBSET Cmds
  BY DEF IInv, TaskOK, Entering, EnterLoaded, Task
<1>2. /\ Sound(State) /\ State.players = players /\ State.db = db /\ State.saved = autosaved
      /\ State.obj = obj
  BY DEF IInv, State
<1>3. UNCHANGED history
  BY DEF EnterLoaded
<1>4. \/ players[p] = None /\ Become(u) /\ Continue(t, r2)
      \/ players[p] # None /\ BeginDel(t, s, p, r1)
  BY DEF EnterLoaded
<1>5. \A m \in Cmds : Safe(State, task, p, m) => m \in r.read /\ m \in db[p]
  BY <1>1, <1>2 DEF Safe, Brings, Moves, Stays
<1>6. \A q \in Pids, m \in Cmds : Safe(State, task, q, m) => Held(State, q, m)
  BY DEF Safe
<1>7. /\ r1 \in Task /\ r1.o = o /\ r1.pid = p /\ r1.kind = "enter"
      /\ r2 \in Task /\ r2.at = "login" /\ r2.pid = p /\ r2.kind = "enter"
  BY <1>1, ZenonT(60) DEF Task, Steps
<1> HIDE DEF p, r, r1, r2
<1>8. /\ Sound(n) /\ Keeps(State, n) /\ n.players = players
      /\ Built(n, o) /\ n.obj[o].pid = p /\ n.obj[o].data = r.read
      /\ n.saved = autosaved /\ n.db = db
  BY <1>1, <1>2, NewSound
<1> HIDE DEF n
<1>9. /\ Sound(s) /\ Keeps(n, s) /\ s.db = db /\ s.saved = autosaved
      /\ s.players = players /\ s.obj[o].data = r.read
  BY <1>1, <1>8, BindSound
<1>10. Built(s, o) /\ s.obj[o].pid = p
  BY <1>8, <1>9 DEF Keeps
<1> HIDE DEF s
<1>11. Keeps(State, s)
  BY <1>8, <1>9, KeepsTwice
<1>12. \A q \in Pids, m \in Cmds : Safe(State, task, q, m) => Held(s, q, m)
  BY <1>2, <1>6, <1>9, <1>11, HeldKept
<1>13. CASE players[p] = None /\ Become(u) /\ Continue(t, r2)
  <2>1. s.players[s.obj[o].pid] = None
    BY <1>9, <1>10, <1>13
  <2>2. /\ Sound(u) /\ Keeps(s, u) /\ u.db = s.db /\ u.saved = s.saved \cup {o}
        /\ u.players = [s.players EXCEPT ![s.obj[o].pid] = o]
        /\ u.obj[o].data = s.obj[o].data
    BY <1>9, <1>10, <2>1, AddSound
  <2>3. players \in [Pids -> Objs \cup {None}]
    BY <1>2 DEF Sound, StateType
  <2>4. \A q \in Pids : q # p => u.players[q] = players[q]
    BY <1>1, <1>9, <1>10, <2>2, <2>3
  <2> HIDE DEF u
  <2>5. u.obj[o].pid = p /\ Keeps(State, u)
    BY <1>10, <1>11, <2>2, KeepsTwice DEF Keeps
  <2>6. TaskOK(r2, u) /\ Quiet(r2)
    BY <1>1, <1>7 DEF TaskOK, Entering, Quiet
  <2>7. ASSUME NEW q \in Pids, NEW m \in Cmds, Safe(State, task, q, m) PROVE Held(u, q, m)
    <3> SUFFICES ASSUME NEW x \in u.saved, u.obj[x].pid = q PROVE m \in u.obj[x].data
      BY DEF Held
    <3>1. CASE x = o
      BY <1>5, <1>9, <2>2, <2>5, <2>7, <3>1
    <3>2. CASE x # o
      <4>1. x \in s.saved /\ Built(s, x) /\ x \in Objs
        BY <1>9, <2>2, <3>2 DEF Sound, Built
      <4>2. s.obj[x].pid = q /\ s.obj[x].data \subseteq u.obj[x].data
        BY <2>2, <4>1 DEF Keeps
      <4>3. QED
        BY <1>12, <2>7, <4>1, <4>2 DEF Held
    <3>3. QED
      BY <3>1, <3>2
  <2>8. \A q \in Pids, m \in Cmds : Safe(State, task, q, m) =>
           m \in u.db[q] \/ (m \notin db[q] /\ u.players[q] = players[q])
    BY <1>5, <1>9, <2>2, <2>4
  <2>9. Strays(u) \subseteq Strays(State)
    <3> SUFFICES ASSUME NEW q \in Pids, NEW x \in u.saved, u.obj[x].pid = q, u.players[q] # x
                 PROVE  x \in autosaved /\ obj[x].pid = q /\ players[q] # x
      BY <1>2 DEF Strays
    <3>1. x # o
      BY <1>1, <1>9, <1>10, <2>2, <2>3, <2>5
    <3>2. x \in autosaved /\ Built(State, x) /\ x \in Objs
      BY <1>2, <1>9, <2>2, <3>1 DEF Sound, Built
    <3>3. obj[x].pid = q
      BY <1>2, <2>5, <3>2 DEF Keeps
    <3>4. x # None
      BY <3>2, NoneAssumption
    <3>5. QED
      BY <1>13, <2>4, <3>2, <3>3, <3>4
  <2>10. Recorded(u)
    BY <1>3, <2>9 DEF Recorded, IInv, history
  <2>11. QED
    BY <1>13, <2>2, <2>5, <2>6, <2>7, <2>8, <2>10, QuietStep DEF SafeKept, IInv
<1>14. CASE players[p] # None /\ BeginDel(t, s, p, r1)
  <2>1. s.players[p] # None
    BY <1>9, <1>14
  <2>a. Recorded(s)
    BY <1>3, <1>9, <1>11, RecordedKept
  <2>2. /\ IInv'
        /\ \A q \in Pids, m \in Cmds :
              /\ Safe(State, task, q, m)
              /\ Held(s, q, m)
              /\ m \in s.db[q] \/ (m \notin db[q] /\ s.players[q] = players[q])
              /\ r1.kind = "enter" /\ q = p => m \in s.obj[r1.o].data
              => Safe(State, task, q, m)'
    BY <1>1, <1>7, <1>9, <1>10, <1>11, <1>14, <2>1, <2>a, BeginDelStep
  <2>3. QED
    <3> SUFFICES ASSUME NEW q \in Pids, NEW m \in Cmds, Safe(State, task, q, m)
                 PROVE  Safe(State, task, q, m)'
      <4>1. executed \subseteq Cmds
        BY DEF IInv
      <4>2. QED
        BY <2>2, <4>1 DEF SafeKept
    <3>1. m \in s.db[q] \/ (m \notin db[q] /\ s.players[q] = players[q])
      BY <1>9 DEF IInv
    <3>2. QED
      BY <1>5, <1>7, <1>9, <1>12, <2>2, <3>1
<1>15. QED
  BY <1>4, <1>13, <1>14
LEMMA KickedStep ==
    ASSUME IInv, NEW t \in Tasks, NEW p \in Pids, Kick(t, p) PROVE IInv' /\ SafeKept
<1> DEFINE r == Start("kick", p)
<1>1. KickPlayer(t, State, p, r) /\ State.players[p] # None /\ UNCHANGED history
  BY DEF Kick, State
<1>2. r \in Task /\ r.pid = p
  BY StartOK DEF Kinds
<1> HIDE DEF r
<1>3. Sound(State) /\ Keeps(State, State) /\ Recorded(State)
  BY <1>1 DEF IInv, Keeps, Recorded, history
<1>4. /\ IInv'
      /\ \A q \in Pids, m \in Cmds :
            /\ Safe(State, task, q, m)
            /\ Held(State, q, m)
            /\ m \in State.db[q] \/ (m \notin db[q] /\ State.players[q] = players[q])
            => Safe(State, task, q, m)'
  BY <1>1, <1>2, <1>3, KickStep
<1>5. \A q \in Pids, m \in Cmds : Safe(State, task, q, m) => Held(State, q, m)
  BY DEF Safe
<1>6. State.db = db /\ State.players = players
  BY DEF State
<1>7. QED
  BY <1>4, <1>5, <1>6 DEF SafeKept, IInv

LEMMA CloseOnlineStep ==
    ASSUME IInv, NEW t \in Tasks, NEW l \in Links, CloseOnline(t, l) PROVE IInv' /\ SafeKept
<1>1. PICK p \in Pids : p = linkPid[l] /\ Online(State, p)
  BY DEF CloseOnline, IInv, Sound, StateType, State
<1> DEFINE o == players[p]
           c == CloseLink(State, o)
           u == [c EXCEPT !.up = @ \ {l}]
           r == [Start("close", p) EXCEPT !.at = "logout", !.o = o]
<1>2. Become(u) /\ Continue(t, r) /\ UNCHANGED history
  BY <1>1 DEF CloseOnline
<1>3. Sound(State) /\ State.players = players /\ State.db = db /\ State.saved = autosaved
      /\ State.obj = obj
  BY DEF IInv, State
<1>4. o \in Objs /\ Built(State, o) /\ State.obj[o].link # None
  BY <1>1, <1>3 DEF Sound, Registry, Built, Online
<1>5. /\ Sound(c) /\ Keeps(State, c) /\ c.db = db /\ c.saved = autosaved
      /\ c.players = players
  BY <1>3, <1>4, CloseSound
<1> HIDE DEF c
<1>6. u \in StateType /\ u.players = c.players /\ u.obj = c.obj /\ u.saved = c.saved
      /\ u.db = c.db /\ u.failed = c.failed
  BY <1>5 DEF Sound, StateType
<1>7. r \in Task /\ r.at = "logout" /\ r.kind = "close" /\ r.pid = p /\ r.o = o
  BY <1>4 DEF Start, IdleTask, Task, Kinds, Steps
<1> HIDE DEF u, r, o
<1>8. "add" \notin u.failed
  BY <1>5, <1>6 DEF Sound
<1>9. Sound(u) /\ Keeps(c, u)
  BY <1>5, <1>6, <1>8, OtherSound
<1>10. Keeps(State, u)
  BY <1>5, <1>9, KeepsTwice
<1>11. TaskOK(r, u) /\ Quiet(r)
  BY <1>4, <1>7, <1>10 DEF TaskOK, Entering, Quiet, Keeps
<1>12. QED
  BY <1>2, <1>5, <1>6, <1>9, <1>10, <1>11, PlainTask

LEMMA TouchStep ==
    ASSUME IInv, NEW u \in StateType, Become(u), UNCHANGED <<task, history>>,
           u.players = players, u.obj = obj, u.saved = autosaved, u.db = db, u.failed = asserts
    PROVE  IInv' /\ SafeKept
<1>1. /\ Sound(State) /\ State.players = players /\ State.saved = autosaved
      /\ State.obj = obj /\ State.failed = asserts
  BY DEF IInv, State
<1>2. Sound(u) /\ Keeps(State, u)
  BY <1>1, OtherSound DEF Sound
<1>3. QED
  BY <1>2, PlainEvent

LEMMA CloseIdleStep ==
    ASSUME IInv, NEW l \in Links, CloseIdle(l) PROVE IInv' /\ SafeKept
<1> DEFINE u == [State EXCEPT !.up = @ \ {l}]
<1>1. u \in StateType /\ u.players = players /\ u.obj = obj /\ u.saved = autosaved
      /\ u.db = db /\ u.failed = asserts
  BY DEF IInv, Sound, StateType, State
<1> HIDE DEF u
<1>2. Become(u) /\ UNCHANGED <<task, history>>
  BY DEF CloseIdle, u
<1>3. QED
  BY <1>1, <1>2, TouchStep

LEMMA OvertickStep ==
    ASSUME IInv, NEW p \in Pids, Overtick(p) PROVE IInv' /\ SafeKept
<1> DEFINE u == [State EXCEPT !.tick[p] = "old"]
<1>1. u \in StateType /\ u.players = players /\ u.obj = obj /\ u.saved = autosaved
      /\ u.db = db /\ u.failed = asserts
  BY DEF IInv, Sound, StateType, State
<1> HIDE DEF u
<1>2. Become(u) /\ UNCHANGED <<task, history>>
  BY DEF Overtick, u
<1>3. QED
  BY <1>1, <1>2, TouchStep

LEMMA AutosaveStep ==
    ASSUME IInv, NEW o \in Objs, Autosave(o) PROVE IInv' /\ SafeKept
<1> DEFINE u == NowSave(State, o)
<1>1. Become(u) /\ UNCHANGED <<task, history>> /\ o \in autosaved
  BY DEF Autosave
<1>2. Sound(State) /\ State.players = players /\ State.saved = autosaved /\ State.obj = obj
      /\ State.db = db
  BY DEF IInv, State
<1>3. Sound(u) /\ Keeps(State, u) /\ u.players = players /\ u.obj = obj
  BY <1>2, NowSaveSound
<1>4. u.saved = autosaved /\ u.db = [db EXCEPT ![obj[o].pid] = obj[o].data]
  BY <1>1, <1>2 DEF NowSave, SaveToDb, Sound, StateType
<1> HIDE DEF u
<1>5. \A q \in Pids : u.db[q] = IF q = obj[o].pid THEN obj[o].data ELSE db[q]
  BY <1>2, <1>4 DEF Sound, StateType
<1>6. \A q \in Pids, m \in Cmds : Safe(State, task, q, m) /\ m \in db[q] => m \in u.db[q]
  BY <1>1, <1>2, <1>5 DEF Safe, Held
<1>7. QED
  BY <1>1, <1>3, <1>4, <1>6, PlainEvent
LEMMA ExitGameStep ==
    ASSUME IInv, NEW t \in Tasks, ExitGame(t) PROVE IInv' /\ SafeKept
<1> DEFINE r == task[t]
<1>1. PICK p \in Pids : r.pid = p
  BY DEF IInv, TaskOK, ExitGame
<1>2. /\ r \in Task /\ r.o \in Objs /\ Built(State, r.o) /\ r.kind \in {"kick", "close"}
      /\ UNCHANGED history
  BY DEF IInv, TaskOK, ExitGame, Built
<1>3. Sound(State) /\ Keeps(State, State) /\ State.players = players /\ State.db = db
      /\ State.saved = autosaved /\ State.obj = obj /\ State \in StateType
  BY DEF IInv, State, Keeps, Sound
<1>4. CASE obj[r.o].force /\ players[p] = None
  <2> DEFINE v == [State EXCEPT !.tick[p] = None]
             u == [v EXCEPT !.obj[r.o].force = FALSE]
  <2>1. Become(u) /\ Continue(t, Done)
    BY <1>1, <1>4 DEF ExitGame
  <2>2. v \in StateType /\ v.players = players /\ v.obj = obj /\ v.saved = autosaved
        /\ v.db = db /\ "add" \notin v.failed
    BY <1>3 DEF StateType, Sound
  <2> HIDE DEF v
  <2>3. Sound(v) /\ Keeps(State, v)
    BY <1>3, <2>2, OtherSound
  <2>4. Built(v, r.o)
    BY <1>2, <2>3 DEF Keeps
  <2>5. Sound(u) /\ Keeps(v, u) /\ u.db = v.db /\ u.saved = v.saved /\ u.players = v.players
    BY <1>2, <2>3, <2>4, ForceSound
  <2> HIDE DEF u
  <2>6. Keeps(State, u)
    BY <2>3, <2>5, KeepsTwice
  <2>7. TaskOK(Done, u) /\ Quiet(Done)
    BY <1>2, DoneOK
  <2>8. QED
    BY <1>2, <2>1, <2>2, <2>5, <2>6, <2>7, PlainTask
<1>5. CASE obj[r.o].force /\ players[p] # None
  <2>1. BeginDel(t, State, p, r)
    BY <1>1, <1>5 DEF ExitGame
  <2>2. State.players[p] # None /\ Recorded(State)
    BY <1>2, <1>3, <1>5 DEF IInv, Recorded, history
  <2>3. r.kind # "enter"
    BY <1>2
  <2>4. /\ IInv'
        /\ \A q \in Pids, m \in Cmds :
              /\ Safe(State, task, q, m)
              /\ Held(State, q, m)
              /\ m \in State.db[q] \/ (m \notin db[q] /\ State.players[q] = players[q])
              /\ r.kind = "enter" /\ q = p => m \in State.obj[r.o].data
              => Safe(State, task, q, m)'
    BY <1>1, <1>2, <1>3, <2>1, <2>2, <2>3, BeginDelStep
  <2>5. \A q \in Pids, m \in Cmds : Safe(State, task, q, m) => Held(State, q, m)
    BY DEF Safe
  <2>6. QED
    BY <1>3, <2>3, <2>4, <2>5 DEF SafeKept, IInv
<1>6. CASE ~obj[r.o].force
  <2> DEFINE u == SetLastTick(State, p)
  <2>1. Become(u) /\ Continue(t, Done)
    BY <1>1, <1>6 DEF ExitGame
  <2>2. Sound(u) /\ Keeps(State, u) /\ u.players = State.players
    BY <1>3, TickSound
  <2>3. u.db = db /\ u.saved = autosaved
    BY <1>3 DEF SetLastTick, StateType
  <2> HIDE DEF u
  <2>4. TaskOK(Done, u) /\ Quiet(Done)
    BY <1>2, DoneOK
  <2>5. QED
    BY <1>2, <1>3, <2>1, <2>2, <2>3, <2>4, PlainTask
<1>7. QED
  BY <1>4, <1>5, <1>6

(* onMinute goes on, until a role has to be unloaded.                      *)
LEMMA VisitStep ==
    ASSUME IInv, NEW t \in Tasks, NEW s, NEW r \in Task, NEW todo \in SUBSET Pids,
           Visit(t, s, r, todo), Sound(s), Keeps(State, s), r.kind = "minute",
           Recorded(s),
           \A q \in Pids : \A m \in executed \ atRisk' : Safe(State, task, q, m) =>
              /\ Held(s, q, m)
              /\ m \in s.db[q] \/ (m \notin db[q] /\ s.players[q] = players[q])
    PROVE  IInv' /\ SafeKept
<1>1. PICK skip \in SUBSET todo :
         LET u == [s EXCEPT !.tick = [p \in Pids |-> IF p \in skip THEN None ELSE @[p]]] IN
         \/ Become(u) /\ Continue(t, Done)
         \/ \E p \in todo \ skip :
               /\ s.players[p] # None
               /\ BeginDel(t, u, p, [r EXCEPT !.pid = p, !.todo = todo \ (skip \cup {p})])
  BY DEF Visit
<1> DEFINE u == [s EXCEPT !.tick = [p \in Pids |-> IF p \in skip THEN None ELSE @[p]]]
<1>2. u \in StateType /\ u.players = s.players /\ u.obj = s.obj /\ u.saved = s.saved
      /\ u.db = s.db /\ "add" \notin u.failed
  BY DEF Sound, StateType
<1>3. Sound(u) /\ Keeps(s, u)
  <2> HIDE DEF u
  <2>1. QED
    BY <1>2, OtherSound
<1>4. executed \subseteq Cmds
  BY DEF IInv
<1>5. \/ Become(u) /\ Continue(t, Done)
      \/ \E p \in todo \ skip :
            /\ s.players[p] # None
            /\ BeginDel(t, u, p, [r EXCEPT !.pid = p, !.todo = todo \ (skip \cup {p})])
  BY <1>1
<1> HIDE DEF u
<1>6. Keeps(State, u) /\ Recorded(u)
  BY <1>2, <1>3, KeepsTwice, RecordedThen
<1>7. \A q \in Pids : \A m \in executed \ atRisk' : Safe(State, task, q, m) =>
         /\ Held(u, q, m)
         /\ m \in u.db[q] \/ (m \notin db[q] /\ u.players[q] = players[q])
  BY <1>2, <1>3, HeldKept
<1>8. CASE Become(u) /\ Continue(t, Done)
  <2>1. TaskOK(Done, u) /\ Quiet(Done)
    BY DoneOK
  <2>2. QED
    BY <1>3, <1>4, <1>6, <1>7, <1>8, <2>1, QuietStep DEF SafeKept
<1>9. ASSUME NEW p \in todo \ skip, s.players[p] # None,
             BeginDel(t, u, p, [r EXCEPT !.pid = p, !.todo = todo \ (skip \cup {p})])
      PROVE  IInv' /\ SafeKept
  <2> DEFINE r1 == [r EXCEPT !.pid = p, !.todo = todo \ (skip \cup {p})]
  <2>1. r1 \in Task /\ r1.pid = p /\ r1.kind = "minute"
    BY DEF Task
  <2>2. BeginDel(t, u, p, r1) /\ u.players[p] # None /\ p \in Pids
    BY <1>2, <1>9
  <2> HIDE DEF r1
  <2>3. /\ IInv'
        /\ \A q \in Pids, m \in Cmds :
              /\ Safe(State, task, q, m)
              /\ Held(u, q, m)
              /\ m \in u.db[q] \/ (m \notin db[q] /\ u.players[q] = players[q])
              /\ r1.kind = "enter" /\ q = p => m \in u.obj[r1.o].data
              => Safe(State, task, q, m)'
    BY <1>3, <1>6, <2>1, <2>2, BeginDelStep
  <2>4. QED
    BY <1>4, <1>7, <2>1, <2>3 DEF SafeKept
<1>10. QED
  BY <1>5, <1>8, <1>9

LEMMA MinuteStep ==
    ASSUME IInv, NEW t \in Tasks, Minute(t) PROVE IInv' /\ SafeKept
<1> DEFINE r == Start("minute", None)
           over == {p \in Pids : lastTick[p] = "old"}
<1>1. Visit(t, State, r, over) /\ UNCHANGED history /\ over \in SUBSET Pids
  BY DEF Minute
<1>2. r \in Task /\ r.kind = "minute"
  BY DEF Start, IdleTask, Task, Kinds, Steps
<1>3. Sound(State) /\ Keeps(State, State) /\ State.players = players /\ State.db = db
      /\ Recorded(State)
  BY <1>1 DEF IInv, State, Keeps, Recorded, history
<1> HIDE DEF r, over
<1>4. \A q \in Pids : \A m \in executed \ atRisk' : Safe(State, task, q, m) =>
         /\ Held(State, q, m)
         /\ m \in State.db[q] \/ (m \notin db[q] /\ State.players[q] = players[q])
  BY <1>3 DEF Safe
<1>5. QED
  BY <1>1, <1>2, <1>3, <1>4, VisitStep
LEMMA SavedStep ==
    ASSUME IInv, NEW t \in Tasks, Saved(t) PROVE IInv' /\ SafeKept
<1> DEFINE r == task[t]
           o == r.o
           d == r.del
<1>1. PICK p \in Pids : r.pid = p
  BY DEF IInv, TaskOK, Saved
<1> DEFINE s == DelPlayer(State, p, d)
<1>2. /\ r \in Task /\ r.at = "save"
      /\ d \in Objs /\ Built(State, d) /\ State.obj[d].pid = p
      /\ r.kind \in {"enter", "kick", "close"} => o \in Objs /\ Built(State, o)
      /\ r.kind = "enter" => State.obj[o].pid = p
      /\ r.kind \in {"enter", "kick", "close", "admin", "minute"}
  BY <1>1 DEF IInv, TaskOK, Saved, Built
<1>3. Sound(State) /\ State.players = players /\ State.db = db /\ State.saved = autosaved
      /\ State.obj = obj
  BY DEF IInv, State
<1>4. /\ r.kind = "enter" => /\ Become(AddPlayer(s, o))
                            /\ Continue(t, [r EXCEPT !.at = "login", !.del = None, !.missed = FALSE])
      /\ r.kind \in {"kick", "close"} => /\ Become([s EXCEPT !.obj[o].force = FALSE])
                                         /\ Continue(t, Done)
      /\ r.kind = "admin" => Become(s) /\ Continue(t, Done)
      /\ r.kind = "minute" => Visit(t, s, r, r.todo)
  BY <1>1, <1>2 DEF Saved
<1>a. executed \subseteq Cmds
  BY DEF IInv
<1>5. \A m \in executed \ atRisk' : Safe(State, task, p, m) => m \in db[p]
  BY <1>1, <1>2, <1>3 DEF Safe, Moves, Stays, Saved
<1>6. /\ Sound(s) /\ Keeps(State, s) /\ s.db = db /\ s.saved = autosaved \ {d}
      /\ s.players = [players EXCEPT ![p] = None] /\ s.obj = obj
  BY <1>2, <1>3, DelSound
<1> HIDE DEF s
<1>7. s.players[p] = None /\ \A q \in Pids : q # p => s.players[q] = players[q]
  BY <1>3, <1>6 DEF Sound, StateType
<1>8. ASSUME NEW q \in Pids, NEW m \in executed \ atRisk', Safe(State, task, q, m)
      PROVE  Held(s, q, m) /\ (m \in s.db[q] \/ (m \notin db[q] /\ s.players[q] = players[q]))
  <2>1. Held(State, q, m)
    BY <1>8 DEF Safe
  <2>2. Held(s, q, m)
    BY <1>3, <1>6, <2>1, HeldKept
  <2>3. QED
    BY <1>5, <1>6, <1>7, <1>8, <2>2
<1>9. Recorded(s)
  <2>1. executed' = executed /\ executed' \in SUBSET Cmds /\ atRisk' \in SUBSET executed'
    BY DEF IInv, Saved
  <2>2. split' = IF players[p] \in {None, d} THEN split ELSE split \cup {p}
    BY <1>1 DEF Saved
  <2>3. Strays(s) \subseteq Strays(State) \cup IF players[p] \in {None, d} THEN {} ELSE {p}
    BY <1>3, <1>6, <1>7 DEF Strays, Sound, StateType
  <2>4. QED
    BY <2>1, <2>2, <2>3 DEF IInv, Recorded
<1>10. ASSUME NEW u, Become(u), Continue(t, Done), Sound(u), Keeps(State, u), Keeps(s, u),
              u.players = s.players, u.db = s.db, u.saved = s.saved
       PROVE  IInv' /\ SafeKept
  <2>1. TaskOK(Done, u) /\ Quiet(Done)
    BY <1>2, DoneOK
  <2>2. \A q \in Pids : \A m \in executed \ atRisk' : Safe(State, task, q, m) => Held(u, q, m)
    BY <1>6, <1>8, <1>10, HeldKept
  <2>3. \A q \in Pids : \A m \in executed \ atRisk' : Safe(State, task, q, m) =>
           m \in u.db[q] \/ (m \notin db[q] /\ u.players[q] = players[q])
    BY <1>8, <1>10
  <2>4. Recorded(u)
    BY <1>6, <1>9, <1>10, RecordedThen
  <2>5. QED
    BY <1>a, <1>10, <2>1, <2>2, <2>3, <2>4, QuietStep DEF SafeKept
<1>11. CASE r.kind = "enter"
  <2> DEFINE u == AddPlayer(s, o)
             r2 == [r EXCEPT !.at = "login", !.del = None, !.missed = FALSE]
  <2>1. Built(s, o) /\ s.obj[o].pid = p /\ o \in Objs /\ s.players[s.obj[o].pid] = None
    BY <1>2, <1>3, <1>6, <1>7, <1>11 DEF Keeps
  <2>2. /\ Sound(u) /\ Keeps(s, u) /\ u.db = s.db /\ u.saved = s.saved \cup {o}
        /\ u.players = [s.players EXCEPT ![s.obj[o].pid] = o]
        /\ u.obj[o].data = s.obj[o].data
    <3>1. Sound(s)
      BY <1>6
    <3> HIDE DEF o, d, r
    <3>2. QED
      BY <3>1, <2>1, AddSound
  <2>3. Become(u) /\ Continue(t, r2)
    BY <1>4, <1>11
  <2>4. r2 \in Task /\ r2.at = "login" /\ r2.kind = "enter" /\ r2.pid \in Pids
    BY <1>1, <1>2, <1>11 DEF Task, Steps
  <2> HIDE DEF u, r2
  <2>5. TaskOK(r2, u) /\ Quiet(r2)
    BY <2>4 DEF TaskOK, Entering, Quiet
  <2>6. Keeps(State, u) /\ u.obj[o].pid = p
    BY <1>6, <2>1, <2>2, KeepsTwice DEF Keeps
  <2>7. \A m \in executed \ atRisk' : Safe(State, task, p, m) => m \in u.obj[o].data
    BY <1>1, <1>2, <1>3, <1>6, <1>11, <2>2 DEF Safe, Brings
  <2>8. ASSUME NEW q \in Pids, NEW m \in executed \ atRisk', Safe(State, task, q, m) PROVE Held(u, q, m)
    <3> SUFFICES ASSUME NEW x \in u.saved, u.obj[x].pid = q PROVE m \in u.obj[x].data
      BY DEF Held
    <3>1. CASE x = o
      BY <2>6, <2>7, <2>8, <3>1
    <3>2. CASE x # o
      <4>1. x \in s.saved /\ Built(s, x) /\ x \in Objs
        BY <1>6, <2>2, <3>2 DEF Sound, Built
      <4>2. s.obj[x].pid = q /\ s.obj[x].data \subseteq u.obj[x].data
        BY <2>2, <4>1 DEF Keeps
      <4>3. QED
        BY <1>8, <2>8, <4>1, <4>2 DEF Held
    <3>3. QED
      BY <3>1, <3>2
  <2>9. s.players \in [Pids -> Objs \cup {None}]
    BY <1>6 DEF Sound, StateType
  <2>10. \A q \in Pids : q # p => u.players[q] = players[q]
    BY <1>7, <2>1, <2>2, <2>9
  <2>11. \A q \in Pids : \A m \in executed \ atRisk' : Safe(State, task, q, m) =>
            m \in u.db[q] \/ (m \notin db[q] /\ u.players[q] = players[q])
    BY <1>5, <1>6, <1>8, <2>2, <2>10
  <2>12. Strays(u) \subseteq Strays(s)
    BY <1>6, <1>7, <2>1, <2>2, <2>6, <2>9, <2>10 DEF Strays, Keeps, Sound, Built
  <2>13. Recorded(u)
    BY <1>9, <2>12 DEF Recorded
  <2>14. QED
    BY <1>a, <2>2, <2>3, <2>5, <2>6, <2>8, <2>11, <2>13, QuietStep DEF SafeKept
<1>12. CASE r.kind \in {"kick", "close"}
  <2> DEFINE u == [s EXCEPT !.obj[o].force = FALSE]
  <2>1. Built(s, o) /\ o \in Objs
    BY <1>2, <1>6, <1>12 DEF Keeps
  <2>2. /\ Sound(u) /\ Keeps(s, u) /\ u.db = s.db /\ u.saved = s.saved
        /\ u.players = s.players
    BY <1>6, <2>1, ForceSound
  <2>3. Become(u) /\ Continue(t, Done)
    BY <1>4, <1>12
  <2> HIDE DEF u
  <2>4. Keeps(State, u)
    BY <1>6, <2>2, KeepsTwice
  <2>5. QED
    BY <1>10, <2>2, <2>3, <2>4
<1>13. CASE r.kind = "admin"
  <2>1. Become(s) /\ Continue(t, Done) /\ Keeps(s, s)
    BY <1>4, <1>13 DEF Keeps
  <2>2. QED
    BY <1>6, <1>10, <2>1
<1>14. CASE r.kind = "minute"
  <2>1. Visit(t, s, r, r.todo) /\ r.todo \in SUBSET Pids
    BY <1>2, <1>4, <1>14 DEF Task
  <2>2. QED
    BY <1>2, <1>6, <1>8, <1>9, <1>14, <2>1, VisitStep
<1>15. QED
  BY <1>2, <1>11, <1>12, <1>13, <1>14
-----------------------------------------------------------------------------
LEMMA InitInv == Init => IInv /\ DInv
<1> SUFFICES ASSUME Init PROVE IInv /\ DInv
  OBVIOUS
<1>1. State \in StateType
  BY DEF Init, State, StateType
<1>2. Sound(State)
  BY <1>1 DEF Init, Sound, Registry, State
<1>3. IdleTask \in Task /\ TaskOK(IdleTask, State)
  BY DEF IdleTask, Task, Kinds, Steps, TaskOK, Entering
<1>4. \A t \in Tasks : task[t] = IdleTask
  BY DEF Init
<1>5. task \in [Tasks -> Task]
  BY <1>3 DEF Init
<1>6. executed = {} /\ atRisk = {} /\ split = {} /\ Strays(State) = {}
  BY DEF Init, Strays, State
<1>7. QED
  BY <1>2, <1>3, <1>4, <1>5, <1>6 DEF IInv, DInv

(* A step that executes no command.                                        *)
Unharmed == executed' = executed /\ atRisk \subseteq atRisk'

LEMMA Unharming == ASSUME UNCHANGED history PROVE Unharmed
  BY DEF Unharmed, history

LEMMA NextInv ==
    ASSUME IInv, [Next]_vars
    PROVE  /\ IInv' /\ SafeKept
           /\ \/ Unharmed
              \/ \E p \in Pids, m \in Cmds : Performed(p, m)
<1>1. CASE UNCHANGED vars
  <2>1. UNCHANGED <<objVars, asserts, task, history>>
    BY <1>1 DEF vars, ghosts
  <2>2. State' = State
    BY <2>1 DEF State, objVars
  <2>3. QED
    <3>1. SafeKept /\ Unharmed /\ IInv
      BY <2>1, <2>2, Unharming DEF SafeKept
    <3>2. UNCHANGED <<task, executed, atRisk, split>>
      BY <2>1 DEF history
    <3>3. QED
      BY <2>2, <3>1, <3>2 DEF IInv
<1>2. ASSUME NEW l \in Links, CloseIdle(l)
      PROVE  IInv' /\ SafeKept /\ Unharmed
  BY <1>2, CloseIdleStep DEF CloseIdle, Unharmed, history
<1>3. ASSUME NEW p \in Pids, Overtick(p)
      PROVE  IInv' /\ SafeKept /\ Unharmed
  BY <1>3, OvertickStep DEF Overtick, Unharmed, history
<1>4. ASSUME NEW o \in Objs, Autosave(o)
      PROVE  IInv' /\ SafeKept /\ Unharmed
  BY <1>4, AutosaveStep DEF Autosave, Unharmed, history
<1>5. ASSUME NEW t \in Tasks, NEW p \in Pids, NEW l \in Links, EnterGame(t, l, p)
      PROVE  IInv' /\ SafeKept /\ Unharmed
  BY <1>5, EnterGameStep, Unharming DEF EnterGame, ghosts
<1>6. ASSUME NEW t \in Tasks, NEW p \in Pids, Kick(t, p)
      PROVE  IInv' /\ SafeKept /\ Unharmed
  BY <1>6, KickedStep DEF Kick, Unharmed, history
<1>7. ASSUME NEW t \in Tasks, NEW kind \in {"cmd", "admin"}, NEW p \in Pids, NEW m \in Cmds,
             LoadForCmd(t, kind, p, m)
      PROVE  IInv' /\ SafeKept /\ Unharmed
  BY <1>7, LoadForCmdStep, Unharming DEF LoadForCmd, ghosts
<1>8. ASSUME NEW t \in Tasks,
             Minute(t) \/ \E l \in Links : CloseOnline(t, l)
      PROVE  IInv' /\ SafeKept /\ Unharmed
  BY <1>8, MinuteStep, CloseOnlineStep, Unharming DEF Minute, CloseOnline
<1>9. ASSUME NEW t \in Tasks,
             \/ EnterRefused(t) \/ EnterReplace(t) \/ EnterRecover(t) \/ EnterRouted(t)
             \/ EnterLoadRefused(t) \/ CmdLoadRefused(t) \/ EnterFinish(t)
             \/ LoadLocked(t)
             \/ ExitGame(t) \/ Saved(t) \/ \E o \in Objs : EnterLoaded(t, o)
      PROVE  IInv' /\ SafeKept /\ Unharmed
  <2>1. IInv' /\ SafeKept
    BY <1>9, LeavesStep, CmdLoadRefusedStep, EnterReplaceStep, EnterRecoverStep, EnterRoutedStep, LoadLockedStep,
       ExitGameStep, SavedStep, EnterLoadedStep
  <2>2. CASE Saved(t)
    BY <2>1, <2>2 DEF Saved, Unharmed
  <2>3. CASE ~Saved(t)
    <3>1. UNCHANGED history
      BY <1>9, <2>3 DEF EnterRefused, EnterReplace, EnterRecover, EnterRouted,
         EnterLoadRefused, CmdLoadRefused, EnterFinish, LoadLocked, ExitGame, EnterLoaded, ghosts
    <3>2. QED
      BY <2>1, <3>1, Unharming
  <2>4. QED
    BY <2>2, <2>3
<1>10. ASSUME NEW l \in Links, NEW m \in Cmds, ClientCmd(l, m)
       PROVE  IInv' /\ SafeKept
              /\ (Unharmed \/ \E p \in Pids : Performed(p, m))
  BY <1>10, ClientCmdStep DEF Unharmed, history
<1>11. ASSUME NEW p \in Pids, NEW m \in Cmds,
              DoPlayerCmd(p, m) \/ \E t \in Tasks : AdminCmd(t, p, m) \/ Freeze(t, p, m)
       PROVE  IInv' /\ SafeKept /\ Performed(p, m)
  BY <1>11, DoPlayerCmdStep, AdminCmdStep, FreezeStep
<1>12. ASSUME NEW t \in Tasks, NEW o \in Objs, CmdLoaded(t, o)
       PROVE  IInv' /\ SafeKept /\ \E p \in Pids, m \in Cmds : Performed(p, m)
  BY <1>12, CmdLoadedStep
<1>13. QED
  BY <1>1, <1>2, <1>3, <1>4, <1>5, <1>6, <1>7, <1>8, <1>9, <1>10, <1>11, <1>12
     DEF Next, Event, Resume, Unharmed

(* What was safe stays safe, and what comes is safe unless it is at risk.  *)
LEMMA SafeInv ==
    ASSUME IInv, DInv, [Next]_vars PROVE IInv' /\ DInv'
<1>1. /\ IInv' /\ SafeKept
      /\ \/ Unharmed
         \/ \E p \in Pids, m \in Cmds : Performed(p, m)
  BY NextInv
<1>2. executed \in SUBSET Cmds
  BY DEF IInv
<1>a. atRisk \subseteq atRisk'
  BY <1>1 DEF Unharmed, Performed
<1>3. ASSUME NEW m \in executed \ atRisk'
      PROVE  \E p \in Pids : Safe(State, task, p, m)'
  BY <1>1, <1>2, <1>3, <1>a DEF DInv, SafeKept
<1>4. CASE Unharmed
  BY <1>1, <1>3, <1>4 DEF DInv, Unharmed
<1>5. ASSUME NEW p \in Pids, NEW m \in Cmds, Performed(p, m) PROVE DInv'
  BY <1>3, <1>5 DEF DInv, Performed
<1>6. QED
  BY <1>1, <1>4, <1>5

THEOREM Invariance == Spec => [](IInv /\ DInv)
<1>1. IInv /\ DInv /\ [Next]_vars => IInv' /\ DInv'
  BY SafeInv
<1>2. QED
  BY <1>1, InitInv, PTL DEF Spec

(* A registered player is on autosave under its own pid: no closesave of   *)
(* an earlier object of the role takes the present one off.                *)
THEOREM Autosaved == Spec => []RegisteredIsAutosaved
<1>1. IInv => RegisteredIsAutosaved
  BY DEF IInv, Sound, Registry, State, RegisteredIsAutosaved
<1>2. QED
  BY <1>1, Invariance, PTL

(* The container's "Exist Object" never fails: whoever registers an object *)
(* has tested, or emptied, the place after its last yield.                 *)
THEOREM AddsAreAsserted == Spec => []AddAssertion
<1>1. IInv => AddAssertion
  BY DEF IInv, Sound, State, AddAssertion
<1>2. QED
  BY <1>1, Invariance, PTL

(* A command executed while no other task loads or unloads its role is not *)
(* lost, whatever logins, kicks, timeouts and loads follow, for any number *)
(* of roles, handlers and objects, and roaming or not.  Two defects of the *)
(* code are excepted (atRisk): a save of delplayer that failed, and a role *)
(* of which delplayer has removed an object that nobody had saved (split). *)
THEOREM NothingIsLost == Spec => []Durable
<1>1. DInv => Durable
  BY DEF DInv, Safe, State, Durable
<1>2. QED
  BY <1>1, Invariance, PTL
-----------------------------------------------------------------------------
(***************************************************************************)
(* Proofs about the two locks of PlayerMgr, "EnterGame.<pid>" and          *)
(* "player.<pid>", for any number of roles and handlers: a handler that    *)
(* has passed a lock is at the head of its queue, so it is the only one,   *)
(* and what it takes off in the end is itself.  The type invariant follows *)
(* with what is proved above of the other variables.                       *)
(***************************************************************************)

Listed(q, t) == \E i \in 1..Len(q) : q[i] = t

(* A lock: who waits for it or holds it is in its queue, who holds it is   *)
(* the head.  waits and holds are sets of pairs of a task and a role.      *)
Queued(q, waits, holds) ==
    /\ q \in [Pids -> Seq(Tasks)]
    /\ waits \subseteq Tasks \X Pids /\ holds \subseteq waits
    /\ \A t \in Tasks, p \in Pids :
          /\ <<t, p>> \in waits => Listed(q[p], t)
          /\ <<t, p>> \in holds => Head(q[p]) = t

InEnter(r) == r.kind = "enter" /\ r.at \notin {"idle", "done"}
InLoad(r) == r.at \in {"loadwait", "load"}

EnterWaits == {w \in Tasks \X Pids : InEnter(task[w[1]]) /\ task[w[1]].pid = w[2]}
EnterHolds == {w \in EnterWaits : task[w[1]].at # "token"}
LoadWaits == {w \in Tasks \X Pids : InLoad(task[w[1]]) /\ task[w[1]].pid = w[2]}
LoadHolds == {w \in LoadWaits : task[w[1]].at = "load"}

LockInv ==
    /\ Queued(enterQueue, EnterWaits, EnterHolds)
    /\ Queued(loadQueue, LoadWaits, LoadHolds)
-----------------------------------------------------------------------------
(* Some give up, and the head may hold the lock.                           *)
LEMMA QueueKept ==
    ASSUME NEW q, NEW waits, NEW holds, Queued(q, waits, holds),
           NEW waits2 \in SUBSET waits, NEW holds2 \in SUBSET waits2,
           \A t \in Tasks, p \in Pids :
               <<t, p>> \in holds2 => <<t, p>> \in holds \/ Head(q[p]) = t
    PROVE  Queued(q, waits2, holds2)
  BY DEF Queued

(* A task joins, and holds the lock if nobody was there.                   *)
LEMMA QueueJoined ==
    ASSUME NEW q, NEW waits, NEW holds, Queued(q, waits, holds),
           NEW t \in Tasks, NEW p \in Pids,
           NEW waits2 \in SUBSET (waits \cup {<<t, p>>}), NEW holds2 \in SUBSET waits2,
           \A w \in holds2 : w \in holds \/ (w = <<t, p>> /\ q[p] = <<>>)
    PROVE  Queued([q EXCEPT ![p] = Append(@, t)], waits2, holds2)
<1> DEFINE a == Append(q[p], t)
           q2 == [q EXCEPT ![p] = a]
<1>1. q \in [Pids -> Seq(Tasks)] /\ q[p] \in Seq(Tasks)
  BY DEF Queued
<1>2. /\ a \in Seq(Tasks) /\ Len(a) = Len(q[p]) + 1 /\ Len(q[p]) \in Nat
      /\ \A i \in 1..Len(q[p]) : a[i] = q[p][i]
      /\ a[Len(q[p]) + 1] = t
  BY <1>1, AppendProperties, LenProperties
<1>3. q2 \in [Pids -> Seq(Tasks)] /\ q2[p] = a /\ \A r \in Pids : r # p => q2[r] = q[r]
  BY <1>1, <1>2
<1>4. Listed(a, t) /\ \A u \in Tasks : Listed(q[p], u) => Listed(a, u)
  BY <1>2 DEF Listed
<1>5. Head(a) = IF q[p] = <<>> THEN t ELSE Head(q[p])
  BY <1>1, <1>2, EmptySeq, LenProperties
<1>6. \A u \in Tasks : Listed(q[p], u) => q[p] # <<>>
  BY <1>1, EmptySeq DEF Listed
<1> HIDE DEF a, q2
<1>7. ASSUME NEW u \in Tasks, NEW r \in Pids, <<u, r>> \in waits2 PROVE Listed(q2[r], u)
  <2>1. CASE <<u, r>> \in waits
    BY <1>3, <1>4, <2>1 DEF Queued
  <2>2. CASE u = t /\ r = p
    BY <1>3, <1>4, <2>2
  <2>3. QED
    BY <1>7, <2>1, <2>2
<1>8. ASSUME NEW u \in Tasks, NEW r \in Pids, <<u, r>> \in holds2 PROVE Head(q2[r]) = u
  <2>1. CASE <<u, r>> \in holds
    <3>1. Listed(q[r], u) /\ Head(q[r]) = u
      BY <2>1 DEF Queued
    <3>2. QED
      BY <1>3, <1>5, <1>6, <3>1
  <2>2. CASE u = t /\ r = p /\ q[p] = <<>>
    BY <1>3, <1>5, <2>2
  <2>3. QED
    BY <1>8, <2>1, <2>2
<1>9. waits2 \subseteq Tasks \X Pids
  BY DEF Queued
<1>10. QED
  BY <1>3, <1>7, <1>8, <1>9 DEF Queued, q2, a

(* The head leaves.                                                        *)
LEMMA QueueLeft ==
    ASSUME NEW q, NEW waits, NEW holds, Queued(q, waits, holds),
           NEW t \in Tasks, NEW p \in Pids, <<t, p>> \in waits, Head(q[p]) = t,
           NEW waits2 \in SUBSET (waits \ {<<t, p>>}), NEW holds2 \in SUBSET (waits2 \cap holds)
    PROVE  Queued([q EXCEPT ![p] = Tail(@)], waits2, holds2)
<1> DEFINE a == Tail(q[p])
           q2 == [q EXCEPT ![p] = a]
<1>1. q \in [Pids -> Seq(Tasks)] /\ q[p] \in Seq(Tasks) /\ Listed(q[p], t)
  BY DEF Queued
<1>2. q[p] # <<>>
  BY <1>1, EmptySeq DEF Listed
<1>3. /\ a \in Seq(Tasks) /\ Len(a) = Len(q[p]) - 1 /\ Len(q[p]) \in Nat
      /\ \A i \in 1..Len(a) : a[i] = q[p][i + 1]
  BY <1>1, <1>2, HeadTailProperties, LenProperties
<1>4. q2 \in [Pids -> Seq(Tasks)] /\ q2[p] = a /\ \A r \in Pids : r # p => q2[r] = q[r]
  BY <1>1, <1>3
<1>5. ASSUME NEW u \in Tasks, u # t, Listed(q[p], u) PROVE Listed(a, u)
  <2>1. PICK i \in 1..Len(q[p]) : q[p][i] = u
    BY <1>5 DEF Listed
  <2>2. q[p][1] = t
    BY <1>1
  <2>3. i - 1 \in 1..Len(a) /\ a[i - 1] = u
    BY <1>3, <1>5, <2>1, <2>2
  <2>4. QED
    BY <2>3 DEF Listed
<1> HIDE DEF a, q2
<1>6. ASSUME NEW u \in Tasks, NEW r \in Pids, <<u, r>> \in waits2 PROVE Listed(q2[r], u)
  <2>1. <<u, r>> \in waits /\ (r = p => u # t) /\ Listed(q[r], u)
    BY <1>6 DEF Queued
  <2>2. QED
    BY <1>4, <1>5, <2>1
<1>7. ASSUME NEW u \in Tasks, NEW r \in Pids, <<u, r>> \in holds2 PROVE Head(q2[r]) = u
  <2>1. <<u, r>> \in holds /\ (r = p => u # t) /\ Head(q[r]) = u
    BY <1>7 DEF Queued
  <2>2. QED
    BY <1>4, <2>1
<1>8. waits2 \subseteq Tasks \X Pids
  BY DEF Queued
<1>9. QED
  BY <1>4, <1>6, <1>7, <1>8 DEF Queued, q2, a
-----------------------------------------------------------------------------
(* What a step of a handler does to a lock: nothing, unless it is that the *)
(* head goes on; it joins; it leaves from the head.                        *)
Alone(t) == \A u \in Tasks : u # t => task'[u] = task[u]

KeepsEnter(t) ==
    /\ enterQueue' = enterQueue
    /\ InEnter(task'[t]) =>
          /\ InEnter(task[t]) /\ task'[t].pid = task[t].pid
          /\ task[t].at = "token" => Head(enterQueue[task[t].pid]) = t

JoinsEnter(t) ==
    \E p \in Pids :
        /\ enterQueue' = [enterQueue EXCEPT ![p] = Append(@, t)]
        /\ ~InEnter(task[t]) /\ task'[t].pid = p /\ task'[t].at = "token"

LeavesEnter(t) ==
    /\ task[t].pid \in Pids
    /\ enterQueue' = [enterQueue EXCEPT ![task[t].pid] = Tail(@)]
    /\ InEnter(task[t]) /\ Head(enterQueue[task[t].pid]) = t
    /\ ~InEnter(task'[t])

KeepsLoad(t) ==
    /\ loadQueue' = loadQueue
    /\ InLoad(task'[t]) =>
          /\ InLoad(task[t]) /\ task'[t].pid = task[t].pid
          /\ task[t].at = "loadwait" => Head(loadQueue[task[t].pid]) = t

JoinsLoad(t) ==
    \E p \in Pids :
        /\ loadQueue' = [loadQueue EXCEPT ![p] = Append(@, t)]
        /\ ~InLoad(task[t]) /\ task'[t].pid = p
        /\ task'[t].at = "load" => loadQueue[p] = <<>>

LeavesLoad(t) ==
    /\ task[t].pid \in Pids
    /\ loadQueue' = [loadQueue EXCEPT ![task[t].pid] = Tail(@)]
    /\ InLoad(task[t]) /\ Head(loadQueue[task[t].pid]) = t
    /\ ~InLoad(task'[t])

LocksMove(t) ==
    /\ Alone(t)
    /\ KeepsEnter(t) \/ JoinsEnter(t) \/ LeavesEnter(t)
    /\ KeepsLoad(t) \/ JoinsLoad(t) \/ LeavesLoad(t)

LEMMA EnterMoves ==
    ASSUME LockInv, NEW t \in Tasks, Alone(t),
           KeepsEnter(t) \/ JoinsEnter(t) \/ LeavesEnter(t)
    PROVE  Queued(enterQueue, EnterWaits, EnterHolds)'
<1>1. /\ \A u \in Tasks, p \in Pids : <<u, p>> \in EnterWaits <=> InEnter(task[u]) /\ task[u].pid = p
      /\ \A u \in Tasks, p \in Pids : <<u, p>> \in EnterHolds <=>
            InEnter(task[u]) /\ task[u].pid = p /\ task[u].at # "token"
  BY DEF EnterWaits, EnterHolds
<1>2. /\ \A u \in Tasks, p \in Pids : <<u, p>> \in EnterWaits' <=> InEnter(task'[u]) /\ task'[u].pid = p
      /\ \A u \in Tasks, p \in Pids : <<u, p>> \in EnterHolds' <=>
            InEnter(task'[u]) /\ task'[u].pid = p /\ task'[u].at # "token"
  BY DEF EnterWaits, EnterHolds, InEnter
<1>3. EnterWaits' \subseteq Tasks \X Pids /\ EnterHolds' \subseteq EnterWaits'
  BY DEF EnterWaits, EnterHolds
<1>4. Queued(enterQueue, EnterWaits, EnterHolds)
  BY DEF LockInv
<1>5. CASE KeepsEnter(t)
  <2>1. EnterWaits' \subseteq EnterWaits
    BY <1>1, <1>2, <1>3, <1>5 DEF KeepsEnter, Alone
  <2>2. \A u \in Tasks, p \in Pids :
            <<u, p>> \in EnterHolds' => <<u, p>> \in EnterHolds \/ Head(enterQueue[p]) = u
    BY <1>1, <1>2, <1>5 DEF KeepsEnter, Alone
  <2>3. Queued(enterQueue, EnterWaits', EnterHolds')
    BY <1>3, <1>4, <2>1, <2>2, QueueKept
  <2>4. QED
    BY <1>5, <2>3 DEF KeepsEnter, Queued, Listed
<1>6. CASE JoinsEnter(t)
  <2>1. PICK p \in Pids :
            /\ enterQueue' = [enterQueue EXCEPT ![p] = Append(@, t)]
            /\ ~InEnter(task[t]) /\ task'[t].pid = p /\ task'[t].at = "token"
    BY <1>6 DEF JoinsEnter
  <2>2. EnterWaits' \subseteq EnterWaits \cup {<<t, p>>}
    BY <1>1, <1>2, <1>3, <2>1 DEF Alone
  <2>3. EnterHolds' \subseteq EnterHolds
    BY <1>1, <1>2, <1>3, <2>1 DEF Alone
  <2>4. Queued([enterQueue EXCEPT ![p] = Append(@, t)], EnterWaits', EnterHolds')
    BY <1>3, <1>4, <2>2, <2>3, QueueJoined
  <2>5. QED
    BY <2>1, <2>4 DEF Queued, Listed
<1>7. CASE LeavesEnter(t)
  <2>1. PICK p \in Pids :
            /\ p = task[t].pid /\ Head(enterQueue[p]) = t /\ <<t, p>> \in EnterWaits
            /\ enterQueue' = [enterQueue EXCEPT ![p] = Tail(@)]
    BY <1>1, <1>7 DEF LeavesEnter
  <2>2. EnterWaits' \subseteq EnterWaits \ {<<t, p>>}
    BY <1>1, <1>2, <1>3, <1>7, <2>1 DEF LeavesEnter, Alone
  <2>3. EnterHolds' \subseteq EnterHolds
    BY <1>1, <1>2, <1>3, <1>7 DEF LeavesEnter, Alone
  <2>4. Queued([enterQueue EXCEPT ![p] = Tail(@)], EnterWaits', EnterHolds')
    BY <1>3, <1>4, <2>1, <2>2, <2>3, QueueLeft, ZenonT(60)
  <2>5. QED
    BY <2>1, <2>4 DEF Queued, Listed
<1>8. QED
  BY <1>5, <1>6, <1>7
LEMMA LoadMoves ==
    ASSUME LockInv, NEW t \in Tasks, Alone(t),
           KeepsLoad(t) \/ JoinsLoad(t) \/ LeavesLoad(t)
    PROVE  Queued(loadQueue, LoadWaits, LoadHolds)'
<1>1. /\ \A u \in Tasks, p \in Pids : <<u, p>> \in LoadWaits <=> InLoad(task[u]) /\ task[u].pid = p
      /\ \A u \in Tasks, p \in Pids : <<u, p>> \in LoadHolds <=>
            InLoad(task[u]) /\ task[u].pid = p /\ task[u].at = "load"
  BY DEF LoadWaits, LoadHolds
<1>2. /\ \A u \in Tasks, p \in Pids : <<u, p>> \in LoadWaits' <=> InLoad(task'[u]) /\ task'[u].pid = p
      /\ \A u \in Tasks, p \in Pids : <<u, p>> \in LoadHolds' <=>
            InLoad(task'[u]) /\ task'[u].pid = p /\ task'[u].at = "load"
  BY DEF LoadWaits, LoadHolds, InLoad
<1>3. LoadWaits' \subseteq Tasks \X Pids /\ LoadHolds' \subseteq LoadWaits'
  BY DEF LoadWaits, LoadHolds
<1>4. Queued(loadQueue, LoadWaits, LoadHolds)
  BY DEF LockInv
<1>5. CASE KeepsLoad(t)
  <2>1. LoadWaits' \subseteq LoadWaits
    BY <1>1, <1>2, <1>3, <1>5 DEF KeepsLoad, Alone
  <2>2. \A u \in Tasks, p \in Pids :
            <<u, p>> \in LoadHolds' => <<u, p>> \in LoadHolds \/ Head(loadQueue[p]) = u
    BY <1>1, <1>2, <1>5 DEF KeepsLoad, Alone, InLoad
  <2>3. Queued(loadQueue, LoadWaits', LoadHolds')
    BY <1>3, <1>4, <2>1, <2>2, QueueKept
  <2>4. QED
    BY <1>5, <2>3 DEF KeepsLoad, Queued, Listed
<1>6. CASE JoinsLoad(t)
  <2>1. PICK p \in Pids :
            /\ loadQueue' = [loadQueue EXCEPT ![p] = Append(@, t)]
            /\ ~InLoad(task[t]) /\ task'[t].pid = p
            /\ task'[t].at = "load" => loadQueue[p] = <<>>
    BY <1>6 DEF JoinsLoad
  <2>2. LoadWaits' \subseteq LoadWaits \cup {<<t, p>>}
    BY <1>1, <1>2, <1>3, <2>1 DEF Alone
  <2>3. \A w \in LoadHolds' : w \in LoadHolds \/ (w = <<t, p>> /\ loadQueue[p] = <<>>)
    <3> SUFFICES ASSUME NEW u \in Tasks, NEW r \in Pids, <<u, r>> \in LoadHolds'
                 PROVE  <<u, r>> \in LoadHolds \/ (u = t /\ r = p /\ loadQueue[p] = <<>>)
      BY <1>3
    <3>1. QED
      BY <1>1, <1>2, <2>1 DEF Alone
  <2>4. Queued([loadQueue EXCEPT ![p] = Append(@, t)], LoadWaits', LoadHolds')
    BY <1>3, <1>4, <2>2, <2>3, QueueJoined
  <2>5. QED
    BY <2>1, <2>4 DEF Queued, Listed
<1>7. CASE LeavesLoad(t)
  <2>1. PICK p \in Pids :
            /\ p = task[t].pid /\ Head(loadQueue[p]) = t /\ <<t, p>> \in LoadWaits
            /\ loadQueue' = [loadQueue EXCEPT ![p] = Tail(@)]
    BY <1>1, <1>7 DEF LeavesLoad
  <2>2. LoadWaits' \subseteq LoadWaits \ {<<t, p>>}
    BY <1>1, <1>2, <1>3, <1>7, <2>1 DEF LeavesLoad, Alone
  <2>3. LoadHolds' \subseteq LoadHolds
    BY <1>1, <1>2, <1>3, <1>7 DEF LeavesLoad, Alone
  <2>4. Queued([loadQueue EXCEPT ![p] = Tail(@)], LoadWaits', LoadHolds')
    BY <1>3, <1>4, <2>1, <2>2, <2>3, QueueLeft, ZenonT(60)
  <2>5. QED
    BY <2>1, <2>4 DEF Queued, Listed
<1>8. QED
  BY <1>5, <1>6, <1>7
-----------------------------------------------------------------------------
(* Whoever holds a lock is the head.                                       *)
LEMMA Heads ==
    ASSUME IInv, LockInv, NEW t \in Tasks
    PROVE  /\ InEnter(task[t]) \/ InLoad(task[t]) => task[t].pid \in Pids
           /\ InEnter(task[t]) /\ task[t].at # "token" => Head(enterQueue[task[t].pid]) = t
           /\ task[t].at = "load" => Head(loadQueue[task[t].pid]) = t
<1> DEFINE p == task[t].pid
<1>1. InEnter(task[t]) \/ InLoad(task[t]) => p \in Pids
  BY DEF IInv, TaskOK, InEnter, InLoad
<1>2. ASSUME InEnter(task[t]), task[t].at # "token" PROVE Head(enterQueue[p]) = t
  <2>1. p \in Pids /\ <<t, p>> \in EnterHolds
    BY <1>1, <1>2 DEF EnterHolds, EnterWaits
  <2>2. QED
    BY <2>1 DEF LockInv, Queued
<1>3. ASSUME task[t].at = "load" PROVE Head(loadQueue[p]) = t
  <2>1. p \in Pids /\ <<t, p>> \in LoadHolds
    BY <1>1, <1>3 DEF LoadHolds, LoadWaits, InLoad
  <2>2. QED
    BY <2>1 DEF LockInv, Queued
<1>4. QED
  BY <1>1, <1>2, <1>3

LEMMA Continues ==
    ASSUME IInv, NEW t \in Tasks, NEW r, Continue(t, r) PROVE Alone(t) /\ task'[t] = r
  BY DEF IInv, Continue, Alone

(* A handler goes on after it has passed the locks, or outside of them.    *)
LEMMA PassesBoth ==
    ASSUME IInv, NEW t \in Tasks, NEW r, Continue(t, r), ~InLoad(r),
           enterQueue' = enterQueue, loadQueue' = loadQueue,
           InEnter(r) => /\ InEnter(task[t]) /\ r.pid = task[t].pid
                         /\ task[t].at = "token" => Head(enterQueue[task[t].pid]) = t
    PROVE  LocksMove(t)
<1>1. Alone(t) /\ task'[t] = r
  BY Continues
<1>2. KeepsEnter(t) /\ KeepsLoad(t)
  BY <1>1 DEF KeepsEnter, KeepsLoad
<1>3. QED
  BY <1>1, <1>2 DEF LocksMove

(* What kinds of steps the pieces of the handlers end in.                  *)
LEMMA Ends == ~InEnter(Done) /\ ~InLoad(Done)
  BY DEF Done, IdleTask, InEnter, InLoad

LEMMA EnterEnds ==
    ASSUME IInv, LockInv, NEW t \in Tasks, InEnter(task[t]), LeaveEnter(t, task[t]),
           task[t].at = "token" => Head(enterQueue[task[t].pid]) = t
    PROVE  Alone(t) /\ LeavesEnter(t) /\ ~InLoad(task'[t])
<1>1. task[t].pid \in Pids /\ Head(enterQueue[task[t].pid]) = t
  BY Heads
<1>2. Alone(t) /\ task'[t] = Done
  BY Continues DEF LeaveEnter
<1>3. QED
  BY <1>1, <1>2, Ends DEF LeavesEnter, LeaveEnter

LEMMA EnterGameLocks ==
    ASSUME IInv, NEW t \in Tasks, NEW p \in Pids, NEW l \in Links, EnterGame(t, l, p)
    PROVE  LocksMove(t)
<1> DEFINE r == [Start("enter", p) EXCEPT !.at = "token", !.link = l]
<1>1. r.pid = p /\ r.at = "token"
  BY DEF Start, IdleTask
<1>2. Alone(t) /\ task'[t] = r
  BY Continues DEF EnterGame
<1> HIDE DEF r
<1>3. JoinsEnter(t)
  BY <1>1, <1>2 DEF EnterGame, JoinsEnter, InEnter
<1>4. KeepsLoad(t)
  BY <1>1, <1>2 DEF EnterGame, KeepsLoad, InLoad
<1>5. QED
  BY <1>2, <1>3, <1>4 DEF LocksMove

LEMMA LeavingLocks ==
    ASSUME IInv, LockInv, NEW t \in Tasks, EnterRefused(t) \/ EnterFinish(t)
    PROVE  LocksMove(t)
<1>1. /\ InEnter(task[t]) /\ LeaveEnter(t, task[t])
      /\ task[t].at = "token" => Head(enterQueue[task[t].pid]) = t
      /\ loadQueue' = loadQueue
  BY DEF IInv, TaskOK, EnterRefused, EnterFinish, HasToken, InEnter
<1>2. QED
  BY <1>1, EnterEnds DEF LocksMove, KeepsLoad

LEMMA LoadRefusedLocks ==
    ASSUME IInv, LockInv, NEW t \in Tasks, EnterLoadRefused(t)
    PROVE  LocksMove(t)
<1>1. /\ InEnter(task[t]) /\ LeaveEnter(t, task[t]) /\ task[t].at = "load"
      /\ Unlock(task[t])
  BY DEF EnterLoadRefused, InEnter
<1>2. Alone(t) /\ LeavesEnter(t) /\ ~InLoad(task'[t])
  BY <1>1, EnterEnds
<1>3. LeavesLoad(t)
  BY <1>1, <1>2, Heads DEF LeavesLoad, Unlock, InLoad
<1>4. QED
  BY <1>2, <1>3 DEF LocksMove

LEMMA CmdLoadRefusedLocks ==
    ASSUME IInv, LockInv, NEW t \in Tasks, CmdLoadRefused(t)
    PROVE  LocksMove(t)
<1>1. /\ Continue(t, Done) /\ task[t].at = "load" /\ Unlock(task[t])
      /\ enterQueue' = enterQueue
  BY DEF CmdLoadRefused
<1>2. Alone(t) /\ task'[t] = Done
  BY <1>1, Continues
<1>3. KeepsEnter(t)
  BY <1>1, <1>2, Ends DEF KeepsEnter
<1>4. LeavesLoad(t)
  BY <1>1, <1>2, Ends, Heads DEF LeavesLoad, Unlock, InLoad
<1>5. QED
  BY <1>2, <1>3, <1>4 DEF LocksMove

LEMMA ReplaceLocks ==
    ASSUME IInv, LockInv, NEW t \in Tasks, EnterReplace(t)
    PROVE  LocksMove(t)
<1> DEFINE o == players[task[t].pid]
           r == [task[t] EXCEPT !.at = "login", !.o = o]
<1>1. /\ InEnter(task[t]) /\ Head(enterQueue[task[t].pid]) = t
      /\ loadQueue' = loadQueue
      /\ \/ LeaveEnter(t, task[t])
         \/ Continue(t, r) /\ enterQueue' = enterQueue
  BY DEF IInv, TaskOK, EnterReplace, HasToken, InEnter
<1>2. task[t] \in Task
  BY DEF IInv
<1>3. r.pid = task[t].pid /\ r.at = "login"
  BY <1>2 DEF Task
<1> HIDE DEF r
<1>4. CASE LeaveEnter(t, task[t])
  BY <1>1, <1>4, EnterEnds DEF LocksMove, KeepsLoad
<1>5. CASE Continue(t, r) /\ enterQueue' = enterQueue
  BY <1>1, <1>3, <1>5, PassesBoth DEF InLoad
<1>6. QED
  BY <1>1, <1>4, <1>5

(* recoverplayer joins the lock of the load, and holds it if it is free.   *)
LEMMA RecoverLocks ==
    ASSUME IInv, LockInv, NEW t \in Tasks, NEW r \in Task, r.pid \in Pids, Recover(t, r),
           ~InLoad(task[t])
    PROVE  /\ Alone(t) /\ JoinsLoad(t)
           /\ task'[t].pid = r.pid /\ task'[t].kind = r.kind /\ InLoad(task'[t])
<1> DEFINE p == r.pid
           now == [r EXCEPT !.at = "load", !.read = db[p]]
           later == [r EXCEPT !.at = "loadwait"]
<1>1. /\ now.at = "load" /\ now.pid = p /\ now.kind = r.kind
      /\ later.at = "loadwait" /\ later.pid = p /\ later.kind = r.kind
  BY DEF Task
<1>2. /\ loadQueue' = [loadQueue EXCEPT ![p] = Append(@, t)]
      /\ \/ loadQueue[p] = <<>> /\ Continue(t, now)
         \/ loadQueue[p] # <<>> /\ Continue(t, later)
  BY DEF Recover
<1> HIDE DEF now, later
<1>3. CASE loadQueue[p] = <<>> /\ Continue(t, now)
  <2>1. Alone(t) /\ task'[t] = now
    BY <1>3, Continues
  <2>2. QED
    BY <1>1, <1>2, <1>3, <2>1 DEF JoinsLoad, InLoad
<1>4. CASE loadQueue[p] # <<>> /\ Continue(t, later)
  <2>1. Alone(t) /\ task'[t] = later
    BY <1>4, Continues
  <2>2. QED
    BY <1>1, <1>2, <1>4, <2>1 DEF JoinsLoad, InLoad
<1>5. QED
  BY <1>2, <1>3, <1>4

LEMMA EnterRecoverLocks ==
    ASSUME IInv, LockInv, NEW t \in Tasks, EnterRecover(t)
    PROVE  LocksMove(t)
<1> DEFINE r == [task[t] EXCEPT !.at = "route"]
<1>1. /\ InEnter(task[t]) /\ Head(enterQueue[task[t].pid]) = t /\ ~InLoad(task[t])
      /\ enterQueue' = enterQueue
      /\ \/ Continue(t, r) /\ loadQueue' = loadQueue
         \/ Recover(t, task[t])
  BY DEF IInv, TaskOK, EnterRecover, HasToken, InEnter, InLoad
<1>2. task[t] \in Task /\ task[t].pid \in Pids
  BY <1>1, Heads DEF IInv
<1>3. r.pid = task[t].pid /\ r.at = "route"
  BY <1>2 DEF Task
<1> HIDE DEF r
<1>4. CASE Continue(t, r) /\ loadQueue' = loadQueue
  BY <1>1, <1>3, <1>4, PassesBoth DEF InLoad
<1>5. CASE Recover(t, task[t])
  <2>1. Alone(t) /\ JoinsLoad(t) /\ task'[t].pid = task[t].pid
    BY <1>1, <1>2, <1>5, RecoverLocks
  <2>2. QED
    BY <1>1, <2>1 DEF LocksMove, KeepsEnter
<1>6. QED
  BY <1>1, <1>4, <1>5

LEMMA EnterRoutedLocks ==
    ASSUME IInv, LockInv, NEW t \in Tasks, EnterRouted(t)
    PROVE  LocksMove(t)
<1>1. /\ InEnter(task[t]) /\ task[t].at = "route" /\ ~InLoad(task[t])
      /\ \/ LeaveEnter(t, task[t]) /\ loadQueue' = loadQueue
         \/ Recover(t, task[t]) /\ enterQueue' = enterQueue
  BY DEF IInv, TaskOK, EnterRouted, InEnter, InLoad
<1>2. task[t] \in Task /\ task[t].pid \in Pids
  BY <1>1, Heads DEF IInv
<1>3. CASE LeaveEnter(t, task[t]) /\ loadQueue' = loadQueue
  BY <1>1, <1>3, EnterEnds DEF LocksMove, KeepsLoad
<1>4. CASE Recover(t, task[t]) /\ enterQueue' = enterQueue
  <2>1. Alone(t) /\ JoinsLoad(t) /\ task'[t].pid = task[t].pid
    BY <1>1, <1>2, <1>4, RecoverLocks
  <2>2. QED
    BY <1>1, <1>4, <2>1 DEF LocksMove, KeepsEnter
<1>5. QED
  BY <1>1, <1>3, <1>4

LEMMA LoadForCmdLocks ==
    ASSUME IInv, LockInv, NEW t \in Tasks, NEW kind \in {"cmd", "admin"}, NEW p \in Pids,
           NEW m \in Cmds, LoadForCmd(t, kind, p, m)
    PROVE  LocksMove(t)
<1> DEFINE r == [Start(kind, p) EXCEPT !.cmd = m]
<1>1. r \in Task /\ r.pid = p /\ r.kind = kind
  BY DEF Start, IdleTask, Task, Kinds, Steps
<1>2. Recover(t, r) /\ enterQueue' = enterQueue /\ ~InLoad(task[t])
  BY DEF LoadForCmd, InLoad
<1> HIDE DEF r
<1>3. Alone(t) /\ JoinsLoad(t) /\ task'[t].kind = kind
  BY <1>1, <1>2, RecoverLocks
<1>4. QED
  BY <1>2, <1>3 DEF LocksMove, KeepsEnter, InEnter

LEMMA LoadLockedLocks ==
    ASSUME IInv, NEW t \in Tasks, LoadLocked(t)
    PROVE  LocksMove(t)
<1> DEFINE p == task[t].pid
           r == [task[t] EXCEPT !.at = "load", !.read = db[p]]
<1>1. task[t] \in Task /\ task[t].at = "loadwait" /\ Head(loadQueue[p]) = t
      /\ Continue(t, r) /\ enterQueue' = enterQueue /\ loadQueue' = loadQueue
  BY DEF IInv, LoadLocked
<1>2. r.pid = p /\ r.kind = task[t].kind /\ r.at = "load"
  BY <1>1 DEF Task
<1> HIDE DEF r
<1>3. Alone(t) /\ task'[t] = r
  BY <1>1, Continues
<1>4. KeepsEnter(t)
  BY <1>1, <1>2, <1>3 DEF KeepsEnter, InEnter
<1>5. KeepsLoad(t)
  BY <1>1, <1>2, <1>3 DEF KeepsLoad, InLoad
<1>6. QED
  BY <1>3, <1>4, <1>5 DEF LocksMove

(* The pieces that end in a yield of delplayer or of onlogout.             *)
LEMMA DelContinues ==
    ASSUME NEW t, NEW s, NEW p, NEW r \in Task, BeginDel(t, s, p, r)
    PROVE  \E r2 : Continue(t, r2) /\ r2.kind = r.kind /\ r2.pid = r.pid /\ r2.at = "save"
<1> DEFINE rest(ok) == [r EXCEPT !.at = "save", !.del = s.players[p], !.missed = ~ok]
<1>1. PICK r2 \in {rest(TRUE), rest(FALSE)} : Continue(t, r2)
  BY DEF BeginDel
<1>2. r2.kind = r.kind /\ r2.pid = r.pid /\ r2.at = "save"
  BY <1>1 DEF Task
<1>3. QED
  BY <1>1, <1>2

LEMMA KickContinues ==
    ASSUME NEW t, NEW s, NEW p, NEW r \in Task, KickPlayer(t, s, p, r)
    PROVE  \E r2 : Continue(t, r2) /\ r2.kind = "kick" /\ r2.at = "logout"
<1> DEFINE r2 == [r EXCEPT !.kind = "kick", !.at = "logout", !.o = s.players[p]]
<1>1. Continue(t, r2)
  BY DEF KickPlayer
<1>2. r2.kind = "kick" /\ r2.at = "logout"
  BY DEF Task
<1>3. QED
  BY <1>1, <1>2

LEMMA AdminContinues ==
    ASSUME NEW t, NEW s, NEW p, NEW r \in Task, AdminEnd(t, s, p, r),
           r.kind = "admin"
    PROVE  \E r2 : Continue(t, r2) /\ ~InEnter(r2) /\ ~InLoad(r2)
<1>1. CASE BeginDel(t, s, p, r)
  BY <1>1, DelContinues DEF InEnter, InLoad
<1>2. CASE Continue(t, Done)
  BY <1>2, Ends
<1>3. QED
  BY <1>1, <1>2 DEF AdminEnd

LEMMA VisitContinues ==
    ASSUME NEW t, NEW s, NEW r \in Task, NEW todo \in SUBSET Pids, Visit(t, s, r, todo),
           r.kind = "minute"
    PROVE  \E r2 : Continue(t, r2) /\ ~InEnter(r2) /\ ~InLoad(r2)
<1>1. CASE Continue(t, Done)
  BY <1>1, Ends
<1>2. ASSUME NEW p \in todo, NEW skip \in SUBSET todo, NEW u,
             BeginDel(t, u, p, [r EXCEPT !.pid = p, !.todo = todo \ (skip \cup {p})])
      PROVE  \E r2 : Continue(t, r2) /\ ~InEnter(r2) /\ ~InLoad(r2)
  <2> DEFINE x == [r EXCEPT !.pid = p, !.todo = todo \ (skip \cup {p})]
  <2>1. x \in Task /\ x.kind = r.kind
    BY DEF Task
  <2>2. BeginDel(t, u, p, x)
    BY <1>2
  <2> HIDE DEF x
  <2>3. QED
    BY <2>1, <2>2, DelContinues DEF InEnter, InLoad
<1>3. QED
  BY <1>1, <1>2 DEF Visit

LEMMA StartTyped ==
    ASSUME NEW kind \in Kinds, NEW p \in Pids \cup {None}
    PROVE  Start(kind, p) \in Task /\ Start(kind, p).kind = kind
  BY DEF Start, IdleTask, Task, Steps

LEMMA AsideLocks ==
    ASSUME IInv, NEW t \in Tasks,
           \/ \E p \in Pids : \/ Kick(t, p)
                              \/ \E m \in Cmds : AdminCmd(t, p, m) \/ Freeze(t, p, m)
           \/ Minute(t) \/ \E l \in Links : CloseOnline(t, l)
    PROVE  LocksMove(t)
<1>1. enterQueue' = enterQueue /\ loadQueue' = loadQueue
  BY DEF Kick, AdminCmd, Freeze, Minute, CloseOnline
<1>2. SUFFICES \E r2 : Continue(t, r2) /\ ~InEnter(r2) /\ ~InLoad(r2)
  BY <1>1, PassesBoth
<1>3. ASSUME NEW p \in Pids, NEW s, KickPlayer(t, s, p, Start("kick", p))
      PROVE  \E r2 : Continue(t, r2) /\ ~InEnter(r2) /\ ~InLoad(r2)
  BY <1>3, StartTyped, KickContinues DEF Kinds, InEnter, InLoad
<1>4. ASSUME NEW p \in Pids, NEW s, AdminEnd(t, s, p, Start("admin", p))
      PROVE  \E r2 : Continue(t, r2) /\ ~InEnter(r2) /\ ~InLoad(r2)
  <2>1. Start("admin", p) \in Task /\ Start("admin", p).kind = "admin"
    BY StartTyped DEF Kinds
  <2>2. QED
    BY <1>4, <2>1, AdminContinues
<1>5. ASSUME Minute(t)
      PROVE  \E r2 : Continue(t, r2) /\ ~InEnter(r2) /\ ~InLoad(r2)
  <2>1. Start("minute", None) \in Task /\ Start("minute", None).kind = "minute"
    BY StartTyped DEF Kinds
  <2>2. PICK over \in SUBSET Pids : Visit(t, State, Start("minute", None), over)
    BY <1>5 DEF Minute
  <2>3. QED
    BY <2>1, <2>2, VisitContinues
<1>6. ASSUME NEW l \in Links, CloseOnline(t, l)
      PROVE  \E r2 : Continue(t, r2) /\ ~InEnter(r2) /\ ~InLoad(r2)
  <2> DEFINE p == linkPid[l]
             r2 == [Start("close", p) EXCEPT !.at = "logout", !.o = players[p]]
  <2>1. Continue(t, r2)
    BY <1>6 DEF CloseOnline
  <2>2. r2.kind = "close" /\ r2.at = "logout"
    BY DEF Start, IdleTask
  <2>3. QED
    BY <2>1, <2>2 DEF InEnter, InLoad
<1>7. CASE \E p \in Pids : Kick(t, p)
  BY <1>3, <1>7 DEF Kick
<1>8. CASE \E p \in Pids, m \in Cmds : AdminCmd(t, p, m)
  BY <1>4, <1>8 DEF AdminCmd
<1>9. CASE \E p \in Pids, m \in Cmds : Freeze(t, p, m)
  BY <1>3, <1>9 DEF Freeze
<1>10. CASE Minute(t)
  BY <1>5, <1>10
<1>11. CASE \E l \in Links : CloseOnline(t, l)
  BY <1>6, <1>11
<1>12. QED
  BY <1>7, <1>8, <1>9, <1>10, <1>11

LEMMA ExitGameLocks ==
    ASSUME IInv, NEW t \in Tasks, ExitGame(t)
    PROVE  LocksMove(t)
<1>1. /\ task[t] \in Task /\ task[t].kind \in {"kick", "close"}
      /\ enterQueue' = enterQueue /\ loadQueue' = loadQueue
  BY DEF IInv, TaskOK, ExitGame
<1>2. CASE Continue(t, Done)
  BY <1>1, <1>2, Ends, PassesBoth
<1>3. CASE BeginDel(t, State, task[t].pid, task[t])
  <2>1. PICK r2 : Continue(t, r2) /\ r2.kind = task[t].kind /\ r2.at = "save"
    BY <1>1, <1>3, DelContinues
  <2>2. ~InEnter(r2) /\ ~InLoad(r2)
    BY <1>1, <2>1 DEF InEnter, InLoad
  <2>3. QED
    BY <1>1, <2>1, <2>2, PassesBoth
<1>4. QED
  BY <1>2, <1>3 DEF ExitGame

LEMMA CmdLoadedLocks ==
    ASSUME IInv, LockInv, NEW t \in Tasks, NEW o \in Objs, CmdLoaded(t, o)
    PROVE  LocksMove(t)
<1> DEFINE r == task[t]
           p == r.pid
           s == LoadPlayer(State, o, p, r.read)
           c == Execute(SetLastTick(s, p), p, r.cmd)
<1>1. /\ r \in Task /\ r.at = "load" /\ r.kind \in {"cmd", "admin"} /\ Unlock(r)
      /\ enterQueue' = enterQueue
      /\ \/ r.kind = "admin" /\ AdminEnd(t, Execute(s, p, r.cmd), p, r)
         \/ KickPlayer(t, c, p, r)
         \/ Continue(t, Done)
  BY DEF IInv, CmdLoaded
<1> HIDE DEF s, c
<1>2. \E r2 : Continue(t, r2) /\ ~InEnter(r2) /\ ~InLoad(r2)
  <2>1. CASE r.kind = "admin" /\ AdminEnd(t, Execute(s, p, r.cmd), p, r)
    BY <1>1, <2>1, AdminContinues
  <2>2. CASE KickPlayer(t, c, p, r)
    BY <1>1, <2>2, KickContinues DEF InEnter, InLoad
  <2>3. CASE Continue(t, Done)
    BY <2>3, Ends
  <2>4. QED
    BY <1>1, <2>1, <2>2, <2>3
<1>3. PICK r2 : Continue(t, r2) /\ ~InEnter(r2) /\ ~InLoad(r2)
  BY <1>2
<1>4. Alone(t) /\ task'[t] = r2
  BY <1>3, Continues
<1>5. KeepsEnter(t)
  BY <1>1, <1>3, <1>4 DEF KeepsEnter
<1>6. LeavesLoad(t)
  BY <1>1, <1>3, <1>4, Heads DEF LeavesLoad, Unlock, InLoad
<1>7. QED
  BY <1>4, <1>5, <1>6 DEF LocksMove

LEMMA EnterLoadedLocks ==
    ASSUME IInv, LockInv, NEW t \in Tasks, NEW o \in Objs, EnterLoaded(t, o)
    PROVE  LocksMove(t)
<1> DEFINE r == task[t]
           p == r.pid
           s == BindLink(NewPlayer(State, o, p, r.read), o, r.link)
           bound == [r EXCEPT !.at = "login", !.o = o]
           late == [r EXCEPT !.o = o]
<1>1. /\ r \in Task /\ r.at = "load" /\ r.kind = "enter" /\ Unlock(r)
      /\ enterQueue' = enterQueue
      /\ Continue(t, bound) \/ BeginDel(t, s, p, late)
  BY DEF IInv, EnterLoaded
<1>2. bound.pid = p /\ bound.at = "login" /\ late \in Task /\ late.pid = p
  BY <1>1 DEF Task
<1> HIDE DEF s, bound, late
<1>3. PICK r2 : Continue(t, r2) /\ r2.pid = p /\ r2.at \in {"login", "save"}
  <2>1. CASE Continue(t, bound)
    BY <1>2, <2>1
  <2>2. CASE BeginDel(t, s, p, late)
    <3>1. PICK x : Continue(t, x) /\ x.pid = late.pid /\ x.at = "save"
      BY <1>2, <2>2, DelContinues
    <3>2. QED
      BY <1>2, <3>1
  <2>3. QED
    BY <1>1, <2>1, <2>2
<1>4. Alone(t) /\ task'[t] = r2
  BY <1>3, Continues
<1>5. KeepsEnter(t)
  BY <1>1, <1>3, <1>4 DEF KeepsEnter, InEnter
<1>6. LeavesLoad(t)
  BY <1>1, <1>3, <1>4, Heads DEF LeavesLoad, Unlock, InLoad
<1>7. QED
  BY <1>4, <1>5, <1>6 DEF LocksMove

LEMMA SavedLocks ==
    ASSUME IInv, NEW t \in Tasks, Saved(t)
    PROVE  LocksMove(t)
<1> DEFINE r == task[t]
           s == DelPlayer(State, r.pid, r.del)
           bound == [r EXCEPT !.at = "login", !.del = None, !.missed = FALSE]
<1>1. /\ r \in Task /\ r.at = "save" /\ r.kind \in {"enter", "kick", "close", "admin", "minute"}
      /\ enterQueue' = enterQueue /\ loadQueue' = loadQueue
      /\ r.kind = "enter" => Continue(t, bound)
      /\ r.kind \in {"kick", "close", "admin"} => Continue(t, Done)
      /\ r.kind = "minute" => Visit(t, s, r, r.todo)
  BY DEF IInv, TaskOK, Saved
<1>2. bound.pid = r.pid /\ bound.at = "login" /\ r.todo \in SUBSET Pids
  BY <1>1 DEF Task
<1> HIDE DEF s, bound
<1>3. CASE r.kind = "enter"
  BY <1>1, <1>2, <1>3, PassesBoth DEF InEnter, InLoad
<1>4. CASE r.kind \in {"kick", "close", "admin"}
  BY <1>1, <1>4, Ends, PassesBoth
<1>5. CASE r.kind = "minute"
  <2>1. PICK r2 : Continue(t, r2) /\ ~InEnter(r2) /\ ~InLoad(r2)
    BY <1>1, <1>2, <1>5, VisitContinues
  <2>2. QED
    BY <1>1, <2>1, PassesBoth
<1>6. QED
  BY <1>1, <1>3, <1>4, <1>5
-----------------------------------------------------------------------------
LEMMA NextLocks ==
    ASSUME IInv, LockInv, [Next]_vars PROVE LockInv'
<1>1. CASE UNCHANGED <<task, enterQueue, loadQueue>>
  BY <1>1 DEF LockInv, Queued, Listed, EnterWaits, EnterHolds, LoadWaits, LoadHolds,
              InEnter, InLoad
<1>2. ASSUME NEW t \in Tasks, LocksMove(t) PROVE LockInv'
  BY <1>2, EnterMoves, LoadMoves DEF LocksMove, LockInv
<1>3. CASE UNCHANGED vars
  BY <1>1, <1>3 DEF vars
<1>4. CASE \/ \E l \in Links : CloseIdle(l)
           \/ \E l \in Links, m \in Cmds : ClientCmd(l, m)
           \/ \E p \in Pids, m \in Cmds : DoPlayerCmd(p, m)
           \/ \E p \in Pids : Overtick(p)
           \/ \E o \in Objs : Autosave(o)
  BY <1>1, <1>4 DEF CloseIdle, ClientCmd, DoPlayerCmd, Overtick, Autosave
<1>5. ASSUME NEW t \in Tasks, NEW p \in Pids,
             \/ \E l \in Links : EnterGame(t, l, p)
             \/ \E m \in Cmds, kind \in {"cmd", "admin"} : LoadForCmd(t, kind, p, m)
      PROVE  LockInv'
  BY <1>2, <1>5, EnterGameLocks, LoadForCmdLocks
<1>6. ASSUME NEW t \in Tasks,
             \/ \E p \in Pids : \/ Kick(t, p)
                                \/ \E m \in Cmds : AdminCmd(t, p, m) \/ Freeze(t, p, m)
             \/ Minute(t) \/ \E l \in Links : CloseOnline(t, l)
      PROVE  LockInv'
  BY <1>2, <1>6, AsideLocks
<1>7. ASSUME NEW t \in Tasks, Resume(t) PROVE LockInv'
  <2>1. CASE \/ EnterRefused(t) \/ EnterReplace(t) \/ EnterRecover(t) \/ EnterRouted(t)
             \/ EnterLoadRefused(t) \/ CmdLoadRefused(t) \/ EnterFinish(t) \/ LoadLocked(t)
    BY <1>2, <2>1, LeavingLocks, ReplaceLocks, EnterRecoverLocks, EnterRoutedLocks,
       LoadRefusedLocks, CmdLoadRefusedLocks, LoadLockedLocks
  <2>2. CASE \E o \in Objs : EnterLoaded(t, o) \/ CmdLoaded(t, o)
    BY <1>2, <2>2, EnterLoadedLocks, CmdLoadedLocks
  <2>3. CASE ExitGame(t) \/ Saved(t)
    BY <1>2, <2>3, ExitGameLocks, SavedLocks
  <2>4. QED
    BY <1>7, <2>1, <2>2, <2>3 DEF Resume
<1>8. CASE Event
  BY <1>4, <1>5, <1>6, <1>8 DEF Event
<1>9. QED
  BY <1>3, <1>7, <1>8 DEF Next

LEMMA InitLocks == Init => LockInv
<1> SUFFICES ASSUME Init PROVE LockInv
  OBVIOUS
<1>1. \A t \in Tasks : ~InEnter(task[t]) /\ ~InLoad(task[t])
  BY DEF Init, IdleTask, InEnter, InLoad
<1>2. EnterWaits = {} /\ EnterHolds = {} /\ LoadWaits = {} /\ LoadHolds = {}
  BY <1>1 DEF EnterWaits, EnterHolds, LoadWaits, LoadHolds
<1>3. <<>> \in Seq(Tasks)
  BY EmptySeq
<1>4. QED
  BY <1>2, <1>3 DEF Init, LockInv, Queued

LEMMA LocksInvariant == Spec => [](IInv /\ LockInv)
<1>1. IInv /\ LockInv /\ [Next]_vars => LockInv'
  BY NextLocks
<1>2. QED
  BY <1>1, Invariance, InitLocks, PTL DEF Spec

(* Every variable keeps its type, the queues of the locks too: whoever     *)
(* unlocks is in the queue and at its head.                                *)
THEOREM TypeCorrect == Spec => []TypeOK
<1>1. IInv /\ LockInv => TypeOK
  BY DEF IInv, LockInv, Queued, Sound, State, StateType, TypeOK
<1>2. QED
  BY <1>1, LocksInvariant, PTL

(* The logins of a role come one after the other, and so do its loads:     *)
(* what "EnterGame.<pid>" (_entergame) and "player.<pid>" (recoverplayer)  *)
(* are there for.                                                          *)
OneAtATime ==
    \A t, u \in Tasks :
        /\ InEnter(task[t]) /\ InEnter(task[u]) /\ task[t].at # "token" /\ task[u].at # "token"
           /\ task[t].pid = task[u].pid => t = u
        /\ task[t].at = "load" /\ task[u].at = "load" /\ task[t].pid = task[u].pid => t = u

(* However logins, commands, kicks and the minute interleave, no two       *)
(* logins of a role are past the token check at a time, and no two         *)
(* handlers wait for findOne of one role.                                  *)
THEOREM LocksExclude == Spec => []OneAtATime
<1>1. ASSUME IInv, LockInv PROVE OneAtATime
  BY <1>1, Heads DEF OneAtATime
<1>2. IInv /\ LockInv => OneAtATime
  BY <1>1
<1>3. QED
  BY <1>2, LocksInvariant, PTL

-----------------------------------------------------------------------------
(* The roles: one that was frozen has no connection from then on, and a    *)
(* loaded role without one is on its way out.                              *)
(*                                                                         *)
(* A handler works for one role.  Role says what it can have changed: the  *)
(* registry, the tick and the database of this role, its registered object *)
(* and one of the handler's own; Adds says which commands it has brought   *)
(* where.  Each helper is shown to do no more, and what holds of all roles *)
(* (RInv) need then be looked at for the role of the handler only.         *)

(* Where a command can be found: in the database, in an object of the role *)
(* or in what findOne has answered about it.                               *)
Holds(s, p, m) ==
    \/ m \in s.db[p]
    \/ \E o \in Objs : Built(s, o) /\ s.obj[o].pid = p /\ m \in s.obj[o].data
Brought(r, p, m) == r.at = "load" /\ r.pid = p /\ m \in r.read
Known(s, ts, p, m) == Holds(s, p, m) \/ \E t \in Tasks : Brought(ts[t], p, m)

(* A command is found with one role only, and not before it is executed.   *)
Homes ==
    \A p \in Pids, m \in Cmds : Known(State, task, p, m) =>
        m \in executed /\ \A q \in Pids : Known(State, task, q, m) => q = p

(* Whom a banned role had a link to is gone: the freeze kicks it in the    *)
(* same step, and no login binds it again.                                 *)
Clean(s) ==
    \A o \in Objs : Built(s, o) /\ s.obj[o].link # None => ~Banned(s.obj[o].data)

(* A command that waits for a load is nobody else's, and an admin          *)
(* operation is no freeze.                                                 *)
Waiting(r) == r.at \in {"loadwait", "load"} /\ r.kind \in {"cmd", "admin"}
Pending ==
    \A t \in Tasks : Waiting(task[t]) =>
        /\ task[t].cmd \notin executed
        /\ task[t].kind = "admin" => task[t].cmd \notin Freezes
        /\ \A u \in Tasks : u # t => task[u].cmd # task[t].cmd

(* A role that is loaded without a connection: its tick is set, or its     *)
(* exit or its unloading is under way.                                     *)
Shown(s, p) == s.players[p] = None \/ Online(s, p) \/ s.tick[p] # None
Leaves(r, p) == r.pid = p /\ r.at \in {"logout", "save"}
Covered == \A p \in Pids : Shown(State, p) \/ \E t \in Tasks : Leaves(task[t], p)

(* The object of a login that waits for delplayer keeps its link: nobody   *)
(* else has it, and it is not registered yet.                              *)
Aside(r) == r.at = "save" /\ r.kind = "enter"
Loose(s, o) == \A p \in Pids : s.players[p] # o
Kept ==
    \A t \in Tasks : Aside(task[t]) =>
        /\ State.obj[task[t].o].link # None /\ Loose(State, task[t].o)
        /\ \A u \in Tasks : u # t /\ Aside(task[u]) => task[u].o # task[t].o

RInv == Clean(State) /\ Homes /\ Pending /\ Covered /\ Kept
-----------------------------------------------------------------------------
(* What a handler of role p, with an object x of its own, does to the      *)
(* state.                                                                  *)
Same(s, u, o) ==
    /\ Built(u, o) <=> Built(s, o)
    /\ Built(s, o) => /\ u.obj[o].pid = s.obj[o].pid /\ u.obj[o].data = s.obj[o].data
                      /\ u.obj[o].link = s.obj[o].link
Role(s, u, p, x) ==
    /\ u \in StateType
    /\ \A q \in Pids : q # p => u.players[q] = s.players[q] /\ u.tick[q] = s.tick[q]
    /\ u.players[p] \in {s.players[p], x, None}
    /\ \A o \in Objs : o # s.players[p] /\ o # x => Same(s, u, o)
Adds(s, u, p, D) ==
    \A q \in Pids, m \in Cmds : Holds(u, q, m) => Holds(s, q, m) \/ (q = p /\ m \in D)
Turns(s, u, p, x, D) ==
    Role(s, u, p, x) /\ Adds(s, u, p, D) /\ (Clean(s) => Clean(u))

LEMMA RoleOn ==
    ASSUME NEW s, NEW u, NEW v, NEW p \in Pids, NEW x, NEW D, NEW E, NEW F,
           Role(s, u, p, x), Role(u, v, p, x), Adds(s, u, p, D), Adds(u, v, p, E),
           D \subseteq F, E \subseteq F
    PROVE  Role(s, v, p, x) /\ Adds(s, v, p, F)
<1>1. Role(s, v, p, x)
  <2>1. ASSUME NEW o \in Objs, o # s.players[p], o # x PROVE Same(s, v, o)
    <3>1. Same(s, u, o)
      BY <2>1 DEF Role
    <3>2. o # u.players[p]
      BY <2>1, NoneAssumption DEF Role
    <3>3. Same(u, v, o)
      BY <2>1, <3>2 DEF Role
    <3> QED
      BY <3>1, <3>3 DEF Same
  <2> QED
    BY <2>1 DEF Role
<1>2. Adds(s, v, p, F)
  BY DEF Adds
<1> QED
  BY <1>1, <1>2

LEMMA TurnsOn ==
    ASSUME NEW s, NEW u, NEW v, NEW p \in Pids, NEW x, NEW D, NEW E, NEW F,
           Turns(s, u, p, x, D), Turns(u, v, p, x, E), D \subseteq F, E \subseteq F
    PROVE  Turns(s, v, p, x, F)
BY RoleOn DEF Turns

(* What is read of an object depends on nothing else of the state.         *)
LEMMA BuiltIs ==
    ASSUME NEW s \in StateType, NEW o \in Objs
    PROVE  /\ Built(s, o) <=> s.obj[o] # None
           /\ s.obj[o] # None => /\ s.obj[o] \in Player /\ s.obj[o].pid \in Pids
                                 /\ s.obj[o].data \in SUBSET Cmds
                                 /\ s.obj[o].link \in Links \cup {None}
<1>1. s.obj[o] \in Player \cup {None}
  BY DEF StateType
<1>2. s.obj[o] # None => /\ s.obj[o] \in Player /\ s.obj[o].pid \in Pids
                         /\ s.obj[o].data \in SUBSET Cmds
                         /\ s.obj[o].link \in Links \cup {None}
  BY <1>1 DEF Player
<1> QED
  BY <1>2 DEF Built

(* One object is written, and not the database.                            *)
LEMMA Writes ==
    ASSUME NEW s \in StateType, NEW u \in StateType, NEW p \in Pids, NEW x, NEW o \in Objs,
           NEW y \in Player, NEW D,
           u.obj = [s.obj EXCEPT ![o] = y], y.pid = p, s.obj[o] # None => s.obj[o].pid = p,
           \A m \in y.data : m \in D \/ (s.obj[o] # None /\ m \in s.obj[o].data),
           u.db = s.db, o = s.players[p] \/ o = x,
           \A q \in Pids : q # p => u.players[q] = s.players[q] /\ u.tick[q] = s.tick[q],
           u.players[p] \in {s.players[p], x, None}
    PROVE  /\ Role(s, u, p, x) /\ Adds(s, u, p, D)
           /\ Clean(s) /\ (y.link = None \/ ~Banned(y.data)) => Clean(u)
<1>1. u.obj[o] = y /\ y # None /\ \A e \in Objs : e # o => u.obj[e] = s.obj[e]
  BY NoPlayerAssumption DEF StateType
<1>2. \A e \in Objs : e # o => Same(s, u, e)
  BY <1>1 DEF Same, Built
<1>3. Role(s, u, p, x)
  BY <1>2 DEF Role
<1>4. Adds(s, u, p, D)
  <2>1. ASSUME NEW q \in Pids, NEW m \in Cmds, Holds(u, q, m), ~Holds(s, q, m)
        PROVE  q = p /\ m \in D
    <3>1. PICK e \in Objs : Built(u, e) /\ u.obj[e].pid = q /\ m \in u.obj[e].data
      BY <2>1 DEF Holds
    <3>2. e = o
      BY <1>1, <2>1, <3>1 DEF Holds, Built
    <3>3. q = p /\ m \in y.data
      BY <1>1, <3>1, <3>2
    <3>4. ~(s.obj[o] # None /\ m \in s.obj[o].data)
      BY <2>1, <3>3, BuiltIs DEF Holds
    <3> QED
      BY <3>3, <3>4
  <2> QED
    BY <2>1 DEF Adds
<1>5. Clean(s) /\ (y.link = None \/ ~Banned(y.data)) => Clean(u)
  BY <1>1 DEF Clean, Built
<1> QED
  BY <1>3, <1>4, <1>5

(* No object is written, and the database with what its role has.          *)
LEMMA WritesNone ==
    ASSUME NEW s \in StateType, NEW u \in StateType, NEW p \in Pids, NEW x,
           u.obj = s.obj,
           \A q \in Pids, m \in Cmds : m \in u.db[q] => Holds(s, q, m),
           \A q \in Pids : q # p => u.players[q] = s.players[q] /\ u.tick[q] = s.tick[q],
           u.players[p] \in {s.players[p], x, None}
    PROVE  Turns(s, u, p, x, {})
<1>1. \A o \in Objs : Same(s, u, o)
  BY DEF Same, Built
<1>2. Role(s, u, p, x)
  BY <1>1 DEF Role
<1>3. Adds(s, u, p, {})
  BY DEF Adds, Holds, Built
<1>4. Clean(s) => Clean(u)
  BY DEF Clean, Built
<1> QED
  BY <1>2, <1>3, <1>4 DEF Turns
-----------------------------------------------------------------------------
(* The helpers.                                                            *)
LEMMA TickTurns ==
    ASSUME NEW s, NEW p \in Pids, NEW x, Sound(s)
    PROVE  LET u == SetLastTick(s, p) IN
           /\ Turns(s, u, p, x, {}) /\ Shown(u, p)
           /\ u.players = s.players /\ u.obj = s.obj
<1> DEFINE u == SetLastTick(s, p)
           n == IF s.players[p] # None /\ ~Online(s, p) THEN "recent" ELSE None
<1>1. s \in StateType
  BY DEF Sound
<1>2. n \in {None, "recent", "old"}
  OBVIOUS
<1>3. /\ u \in StateType /\ u.players = s.players /\ u.obj = s.obj /\ u.db = s.db
      /\ u.tick = [s.tick EXCEPT ![p] = n]
  BY <1>1, <1>2 DEF StateType, SetLastTick
<1> HIDE DEF u
<1>4. u.tick[p] = n /\ \A q \in Pids : q # p => u.tick[q] = s.tick[q]
  BY <1>1, <1>3 DEF StateType
<1>5. Turns(s, u, p, x, {})
  BY <1>1, <1>3, <1>4, WritesNone DEF Holds
<1>6. Shown(u, p)
  <2>1. Online(u, p) <=> Online(s, p)
    BY <1>3 DEF Online
  <2>2. "recent" # None
    BY NoneAssumption
  <2> QED
    BY <1>3, <1>4, <2>1, <2>2 DEF Shown
<1> QED
  BY <1>3, <1>5, <1>6 DEF u

LEMMA SaveTurns ==
    ASSUME NEW s, NEW o \in Objs, NEW p \in Pids, NEW x, Sound(s)
    PROVE  LET u == NowSave(s, o) IN
           /\ Turns(s, u, p, x, {})
           /\ u.players = s.players /\ u.obj = s.obj /\ u.tick = s.tick
<1> DEFINE u == NowSave(s, o)
<1>1. s \in StateType
  BY DEF Sound
<1>2. CASE o \notin s.saved
  <2>1. u = s
    BY <1>2 DEF NowSave
  <2> HIDE DEF u
  <2> QED
    BY <1>1, <2>1, WritesNone DEF Holds, u
<1>3. CASE o \in s.saved
  <2>1. Built(s, o)
    BY <1>3 DEF Sound
  <2>2. s.obj[o].pid \in Pids /\ s.obj[o].data \in SUBSET Cmds
    BY <1>1, <2>1, BuiltIs
  <2>3. /\ u \in StateType /\ u.players = s.players /\ u.obj = s.obj /\ u.tick = s.tick
        /\ u.db = [s.db EXCEPT ![s.obj[o].pid] = s.obj[o].data]
    BY <1>1, <1>3, <2>2 DEF StateType, NowSave, SaveToDb
  <2> HIDE DEF u
  <2>4. ASSUME NEW q \in Pids, NEW m \in Cmds, m \in u.db[q] PROVE Holds(s, q, m)
    BY <1>1, <2>1, <2>2, <2>3, <2>4 DEF StateType, Holds
  <2>5. Turns(s, u, p, x, {})
    BY <1>1, <2>3, <2>4, WritesNone
  <2> QED
    BY <2>3, <2>5 DEF u
<1> QED
  BY <1>2, <1>3

LEMMA DelTurns ==
    ASSUME NEW s, NEW o \in Objs, NEW p \in Pids, NEW x, Sound(s)
    PROVE  LET u == DelPlayer(s, p, o) IN
           /\ Turns(s, u, p, x, {}) /\ u.players[p] = None /\ u.obj = s.obj
           /\ \A q \in Pids : q # p => u.players[q] = s.players[q] /\ u.tick[q] = s.tick[q]
<1> DEFINE u == DelPlayer(s, p, o)
<1>1. s \in StateType
  BY DEF Sound
<1>2. /\ u \in StateType /\ u.obj = s.obj /\ u.db = s.db
      /\ u.tick = [s.tick EXCEPT ![p] = None]
      /\ u.players = [s.players EXCEPT ![p] = None]
  BY <1>1 DEF StateType, DelPlayer, CloseSave
<1> HIDE DEF u
<1>3. /\ u.players[p] = None
      /\ \A q \in Pids : q # p => u.players[q] = s.players[q] /\ u.tick[q] = s.tick[q]
  BY <1>1, <1>2 DEF StateType
<1>4. Turns(s, u, p, x, {})
  BY <1>1, <1>2, <1>3, WritesNone DEF Holds
<1> QED
  BY <1>2, <1>3, <1>4 DEF u

LEMMA NewTurns ==
    ASSUME NEW s, NEW o \in Objs, NEW p \in Pids, NEW data \in SUBSET Cmds,
           Sound(s), s.obj[o] = None
    PROVE  LET u == NewPlayer(s, o, p, data) IN
           /\ Turns(s, u, p, o, data) /\ u.players = s.players /\ u.tick = s.tick
           /\ Built(u, o) /\ u.obj[o].pid = p /\ u.obj[o].data = data /\ u.obj[o].link = None
<1> DEFINE u == NewPlayer(s, o, p, data)
           y == [pid |-> p, data |-> data, link |-> None, offline |-> FALSE, force |-> FALSE]
<1>1. s \in StateType
  BY DEF Sound
<1>2. y \in Player /\ y.pid = p /\ y.data = data /\ y.link = None
  BY DEF Player
<1>3. /\ u \in StateType /\ u.players = s.players /\ u.tick = s.tick /\ u.db = s.db
      /\ u.obj = [s.obj EXCEPT ![o] = y]
  BY <1>1, <1>2 DEF StateType, NewPlayer
<1> HIDE DEF u, y
<1>4. Role(s, u, p, o) /\ Adds(s, u, p, data) /\ (Clean(s) => Clean(u))
  BY <1>1, <1>2, <1>3, Writes
<1>5. u.obj[o] = y
  BY <1>1, <1>3 DEF StateType
<1> QED
  BY <1>2, <1>3, <1>4, <1>5, BuiltIs, NoPlayerAssumption DEF Turns, u

LEMMA AddTurns ==
    ASSUME NEW s, NEW o \in Objs, NEW p \in Pids,
           Sound(s), Built(s, o), s.obj[o].pid = p, s.players[p] = None
    PROVE  LET u == AddPlayer(s, o) IN
           /\ Turns(s, u, p, o, {}) /\ u.players[p] = o /\ u.tick = s.tick
           /\ u.obj[o].link = s.obj[o].link /\ u.obj[o].data = s.obj[o].data
           /\ u.obj[o].offline = (s.obj[o].link = None)
<1> DEFINE u == AddPlayer(s, o)
           y == [s.obj[o] EXCEPT !.offline = (s.obj[o].link = None)]
<1>1. s \in StateType /\ s.obj[o] # None /\ s.obj[o] \in Player
  BY BuiltIs DEF Sound
<1>2. /\ y \in Player /\ y.pid = p /\ y.data = s.obj[o].data /\ y.link = s.obj[o].link
      /\ y.offline = (s.obj[o].link = None)
  BY <1>1 DEF Player
<1>3. /\ u \in StateType /\ u.players = [s.players EXCEPT ![p] = o] /\ u.tick = s.tick
      /\ u.db = s.db /\ u.obj = [s.obj EXCEPT ![o] = y]
  BY <1>1, <1>2 DEF StateType, AddPlayer, StartAutosave
<1> HIDE DEF u, y
<1>4. u.players[p] = o /\ \A q \in Pids : q # p => u.players[q] = s.players[q]
  BY <1>1, <1>3 DEF StateType
<1>5. /\ Role(s, u, p, o) /\ Adds(s, u, p, {})
      /\ Clean(s) /\ (y.link = None \/ ~Banned(y.data)) => Clean(u)
  <2>1. \A m \in y.data : m \in {} \/ (s.obj[o] # None /\ m \in s.obj[o].data)
    BY <1>1, <1>2
  <2>2. u.players[p] \in {s.players[p], o, None} /\ u.tick = s.tick
    BY <1>3, <1>4
  <2> QED
    BY <1>1, <1>2, <1>3, <1>4, <2>1, <2>2, Writes, ZenonT(60)
<1>6. Clean(s) => y.link = None \/ ~Banned(y.data)
  BY <1>2 DEF Clean
<1>7. u.obj[o] = y
  BY <1>1, <1>3 DEF StateType
<1> QED
  BY <1>2, <1>3, <1>4, <1>5, <1>6, <1>7 DEF Turns, u

LEMMA CloseTurns ==
    ASSUME NEW s, NEW o \in Objs, NEW p \in Pids, NEW x,
           Sound(s), o = s.players[p], s.obj[o].link # None
    PROVE  LET u == CloseLink(s, o) IN
           /\ Turns(s, u, p, x, {}) /\ u.players = s.players /\ u.tick = s.tick
           /\ u.obj[o].link = None /\ u.obj[o].data = s.obj[o].data
<1> DEFINE u == CloseLink(s, o)
           y == [s.obj[o] EXCEPT !.link = None]
<1>1. s \in StateType /\ s.obj[o] # None /\ s.obj[o].pid = p /\ o # None
  BY NoneAssumption DEF Sound, Registry, Built
<1>2. s.obj[o] \in Player /\ s.obj[o].link \in Links /\ s.obj[o].data \in SUBSET Cmds
  BY <1>1, BuiltIs
<1>3. y \in Player /\ y.pid = p /\ y.data = s.obj[o].data /\ y.link = None
  BY <1>1, <1>2 DEF Player
<1>4. /\ u \in StateType /\ u.obj = [s.obj EXCEPT ![o] = y] /\ u.players = s.players
      /\ u.tick = s.tick /\ u.db = s.db
  BY <1>1, <1>2, <1>3 DEF StateType, CloseLink, Unbind
<1> HIDE DEF u, y
<1>5. \A m \in y.data : m \in {} \/ (s.obj[o] # None /\ m \in s.obj[o].data)
  BY <1>1, <1>3
<1>6. /\ Role(s, u, p, x) /\ Adds(s, u, p, {})
      /\ Clean(s) /\ (y.link = None \/ ~Banned(y.data)) => Clean(u)
  BY <1>1, <1>3, <1>4, <1>5, Writes
<1>7. u.obj[o] = y
  BY <1>1, <1>4 DEF StateType
<1> QED
  BY <1>3, <1>4, <1>6, <1>7 DEF Turns, u

LEMMA BindTurns ==
    ASSUME NEW s, NEW o \in Objs, NEW l \in Links, NEW p \in Pids, NEW x,
           Sound(s), Built(s, o), s.obj[o].pid = p, o = s.players[p] \/ o = x,
           ~Banned(s.obj[o].data)
    PROVE  LET u == BindLink(s, o, l) IN
           /\ Turns(s, u, p, x, {}) /\ u.players = s.players /\ u.tick = s.tick
           /\ u.obj[o].link = l /\ u.obj[o].data = s.obj[o].data
<1> DEFINE u == BindLink(s, o, l)
           y == [s.obj[o] EXCEPT !.link = l, !.offline = FALSE]
<1>1. s \in StateType /\ s.obj[o] \in Player /\ s.obj[o] # None /\ s.obj[o].pid \in Pids
  BY BuiltIs DEF Sound
<1>2. y \in Player /\ y.pid = p /\ y.data = s.obj[o].data /\ y.link = l
  BY <1>1 DEF Player
<1>3. /\ u \in StateType /\ u.obj = [s.obj EXCEPT ![o] = y] /\ u.players = s.players
      /\ u.tick = s.tick /\ u.db = s.db
  <2>1. CASE s.obj[o].link = None
    <3>1. u = [s EXCEPT !.lpid[l] = s.obj[o].pid, !.obj[o].link = l, !.obj[o].offline = FALSE]
      BY <2>1 DEF BindLink
    <3> HIDE DEF u
    <3> QED
      BY <1>1, <1>2, <3>1 DEF StateType
  <2>2. CASE s.obj[o].link # None
    <3>1. s.obj[o].link \in Links
      BY <1>1, <2>2 DEF Player
    <3> DEFINE v == Unbind(s, o)
               z == [s.obj[o] EXCEPT !.link = None]
    <3>2. z \in Player /\ [z EXCEPT !.link = l, !.offline = FALSE] = y /\ z.pid = s.obj[o].pid
      BY <1>1 DEF Player
    <3>3. /\ v \in StateType /\ v.obj = [s.obj EXCEPT ![o] = z] /\ v.players = s.players
          /\ v.tick = s.tick /\ v.db = s.db
      BY <1>1, <3>1, <3>2 DEF StateType, Unbind
    <3>4. u = [v EXCEPT !.lpid[l] = s.obj[o].pid, !.obj[o].link = l, !.obj[o].offline = FALSE]
      BY <2>2 DEF BindLink
    <3> HIDE DEF v, z, u, y
    <3>5. v.obj[o] = z /\ v.obj \in [Objs -> Player \cup {None}]
      BY <1>1, <3>3 DEF StateType
    <3>6. /\ u.players = v.players /\ u.tick = v.tick /\ u.db = v.db /\ u.saved = v.saved
          /\ u.up = v.up /\ u.failed = v.failed /\ u.lpid = [v.lpid EXCEPT ![l] = s.obj[o].pid]
          /\ u.obj = [v.obj EXCEPT ![o] = y] /\ u \in StateType
      <4>1. [v.obj EXCEPT ![o].link = l, ![o].offline = FALSE] = [v.obj EXCEPT ![o] = y]
        BY <3>2, <3>5
      <4>2. u = [v EXCEPT !.lpid = [v.lpid EXCEPT ![l] = s.obj[o].pid],
                          !.obj = [v.obj EXCEPT ![o].link = l, ![o].offline = FALSE]]
        BY <3>3, <3>4 DEF StateType
      <4>3. u = [v EXCEPT !.lpid = [v.lpid EXCEPT ![l] = s.obj[o].pid],
                          !.obj = [v.obj EXCEPT ![o] = y]]
        BY <4>1, <4>2
      <4> QED
        BY <1>1, <1>2, <3>3, <3>5, <4>3 DEF StateType
    <3>7. u.obj = [s.obj EXCEPT ![o] = y]
      BY <3>3, <3>6
    <3> QED
      BY <3>3, <3>6, <3>7
  <2> QED
    BY <2>1, <2>2
<1> HIDE DEF u, y
<1>4. \A m \in y.data : m \in {} \/ (s.obj[o] # None /\ m \in s.obj[o].data)
  BY <1>1, <1>2
<1>5. u.players[p] \in {s.players[p], x, None}
  BY <1>3
<1>6. /\ Role(s, u, p, x) /\ Adds(s, u, p, {})
      /\ Clean(s) /\ (y.link = None \/ ~Banned(y.data)) => Clean(u)
  BY <1>1, <1>2, <1>3, <1>4, <1>5, Writes
<1>7. u.obj[o] = y
  BY <1>1, <1>3 DEF StateType
<1> QED
  BY <1>2, <1>3, <1>6, <1>7 DEF Turns, u

LEMMA ExecuteTurns ==
    ASSUME NEW s, NEW p \in Pids, NEW m \in Cmds, NEW x, Sound(s), s.players[p] # None
    PROVE  LET u == Execute(s, p, m)
               o == s.players[p]
           IN
           /\ Role(s, u, p, x) /\ Adds(s, u, p, {m}) /\ (m \notin Freezes /\ Clean(s) => Clean(u))
           /\ u.players = s.players /\ u.tick = s.tick
           /\ u.obj[o].link = s.obj[o].link /\ u.obj[o].offline = s.obj[o].offline
           /\ \A e \in Objs : e # o => u.obj[e] = s.obj[e]
<1> DEFINE u == Execute(s, p, m)
           o == s.players[p]
           y == [s.obj[o] EXCEPT !.data = @ \cup {m}]
<1>1. s \in StateType /\ o \in Objs /\ s.obj[o] # None /\ s.obj[o].pid = p
  BY NoneAssumption DEF Sound, Registry, Built
<1>2. s.obj[o] \in Player /\ s.obj[o].data \in SUBSET Cmds
  BY <1>1, BuiltIs
<1>3. /\ y \in Player /\ y.pid = p /\ y.data = s.obj[o].data \cup {m}
      /\ y.link = s.obj[o].link /\ y.offline = s.obj[o].offline
  BY <1>1, <1>2 DEF Player
<1>4. /\ u \in StateType /\ u.obj = [s.obj EXCEPT ![o] = y] /\ u.players = s.players
      /\ u.tick = s.tick /\ u.db = s.db
  BY <1>1, <1>2, <1>3 DEF StateType, Execute
<1> HIDE DEF u, y
<1>5. \A e \in y.data : e \in {m} \/ (s.obj[o] # None /\ e \in s.obj[o].data)
  BY <1>1, <1>3
<1>6. o = s.players[p] \/ o = x
  OBVIOUS
<1>7. u.players[p] \in {s.players[p], x, None}
  BY <1>4
<1> HIDE DEF o
<1>8. /\ Role(s, u, p, x) /\ Adds(s, u, p, {m})
      /\ Clean(s) /\ (y.link = None \/ ~Banned(y.data)) => Clean(u)
  BY <1>1, <1>3, <1>4, <1>5, <1>6, <1>7, Writes
<1>9. m \notin Freezes /\ Clean(s) => y.link = None \/ ~Banned(y.data)
  BY <1>1, <1>3 DEF Clean, Banned, Built
<1>10. u.obj[o] = y /\ \A e \in Objs : e # o => u.obj[e] = s.obj[e]
  BY <1>1, <1>4 DEF StateType
<1> QED
  BY <1>3, <1>4, <1>8, <1>9, <1>10 DEF u, o

(* force_exitgame is of no importance here.                                *)
LEMMA ForceTurns ==
    ASSUME NEW s, NEW o \in Objs, NEW p \in Pids, NEW x, NEW b \in BOOLEAN,
           s \in StateType, Built(s, o)
    PROVE  LET u == [s EXCEPT !.obj[o].force = b] IN
           /\ Turns(s, u, p, x, {}) /\ u.players = s.players /\ u.tick = s.tick
           /\ \A e \in Objs : Same(s, u, e)
<1> DEFINE u == [s EXCEPT !.obj[o].force = b]
           y == [s.obj[o] EXCEPT !.force = b]
<1>1. s.obj[o] \in Player /\ s.obj[o] # None
  BY BuiltIs
<1>2. y \in Player /\ y.pid = s.obj[o].pid /\ y.data = s.obj[o].data /\ y.link = s.obj[o].link
  BY <1>1 DEF Player
<1>3. /\ u \in StateType /\ u.obj = [s.obj EXCEPT ![o] = y] /\ u.players = s.players
      /\ u.tick = s.tick /\ u.db = s.db
  BY <1>1, <1>2 DEF StateType
<1> HIDE DEF u, y
<1>4. u.obj[o] = y /\ y # None /\ \A e \in Objs : e # o => u.obj[e] = s.obj[e]
  BY <1>2, <1>3, NoPlayerAssumption DEF StateType
<1>5. \A e \in Objs : Same(s, u, e)
  BY <1>1, <1>2, <1>4 DEF Same, Built
<1>6. Role(s, u, p, x)
  BY <1>3, <1>5 DEF Role
<1>7. Adds(s, u, p, {})
  BY <1>3, <1>5 DEF Adds, Holds, Same
<1>8. Clean(s) => Clean(u)
  BY <1>5 DEF Clean, Same
<1> QED
  BY <1>3, <1>5, <1>6, <1>7, <1>8 DEF Turns, u
-----------------------------------------------------------------------------
(* What holds of all roles, after a step of a handler t of role p.         *)
Bounded(s, u, p, x) ==
    /\ \A q \in Pids : q # p => u.players[q] = s.players[q]
    /\ u.players[p] \in {s.players[p], x, None}
    /\ \A o \in Objs : o # s.players[p] /\ o # x => Same(s, u, o)
Others(t) == \A v \in Tasks : v # t => task'[v] = task[v]
Own(t, x) ==
    x \in Objs => obj[x] = None \/ (t \in Tasks /\ Aside(task[t]) /\ task[t].o = x)

LEMMA OwnLoose ==
    ASSUME IInv, Kept, NEW t, NEW x \in Objs, Own(t, x)
    PROVE  Loose(State, x)
<1>1. CASE obj[x] = None
  <2>1. ~Built(State, x)
    BY <1>1 DEF Built, State
  <2> QED
    BY <2>1, NoneAssumption DEF IInv, Sound, Registry, Loose
<1>2. CASE t \in Tasks /\ Aside(task[t]) /\ task[t].o = x
  BY <1>2 DEF Kept
<1> QED
  BY <1>1, <1>2 DEF Own

(* The other roles are shown as before.                                    *)
LEMMA OthersShown ==
    ASSUME IInv, Kept, NEW t, NEW p \in Pids, NEW x \in Objs \cup {None}, Own(t, x),
           NEW u, Role(State, u, p, x)
    PROVE  \A q \in Pids : q # p /\ Shown(State, q) => Shown(u, q)
<1> SUFFICES ASSUME NEW q \in Pids, q # p, Shown(State, q) PROVE Shown(u, q)
  OBVIOUS
<1>1. u.players[q] = State.players[q] /\ u.tick[q] = State.tick[q]
  BY DEF Role
<1>2. CASE State.players[q] = None
  BY <1>1, <1>2 DEF Shown
<1>3. CASE State.players[q] # None
  <2> DEFINE o == State.players[q]
  <2>1. o \in Objs /\ State.obj[o].pid = q /\ Built(State, o)
    BY <1>3 DEF IInv, Sound, Registry, Built
  <2>2. o # x
    BY <2>1, OwnLoose, NoneAssumption DEF Loose
  <2>3. o # State.players[p]
    BY <1>3, <2>1 DEF IInv, Sound, Registry
  <2>4. u.obj[o].link = State.obj[o].link
    BY <2>1, <2>2, <2>3 DEF Role, Same
  <2> QED
    BY <1>1, <1>3, <2>4 DEF Shown, Online
<1> QED
  BY <1>2, <1>3

LEMMA CoveredKept ==
    ASSUME Covered, NEW u, State' = u, NEW p \in Pids, NEW t, Others(t),
           \A q \in Pids : q # p /\ Shown(State, q) => Shown(u, q),
           t \in Tasks => \A q \in Pids : Leaves(task[t], q) => q = p,
           \/ Shown(u, p)
           \/ t \in Tasks /\ Leaves(task'[t], p)
           \/ (t \in Tasks => ~Leaves(task[t], p)) /\ (Shown(State, p) => Shown(u, p))
    PROVE  Covered'
<1> SUFFICES ASSUME NEW q \in Pids, ~Shown(u, q)
             PROVE  \E v \in Tasks : Leaves(task'[v], q)
  BY DEF Covered
<1>1. ~Shown(State, q) => \E v \in Tasks : Leaves(task[v], q)
  BY DEF Covered
<1>2. CASE q # p
  BY <1>1, <1>2 DEF Others
<1>3. CASE q = p
  BY <1>1, <1>3 DEF Others
<1> QED
  BY <1>2, <1>3

LEMMA KeptKept ==
    ASSUME IInv, Kept, NEW u, State' = u, NEW p \in Pids, NEW x \in Objs \cup {None},
           NEW t, Others(t), Bounded(State, u, p, x), Own(t, x),
           t \in Tasks /\ Aside(task'[t]) =>
              /\ task'[t].o = x /\ x \in Objs /\ obj[x] = None
              /\ u.obj[x].link # None /\ Loose(u, x)
    PROVE  Kept'
<1>1. ASSUME NEW v \in Tasks, v # t, Aside(task[v])
      PROVE  /\ u.obj[task[v].o].link # None /\ Loose(u, task[v].o)
             /\ task[v].o # x
  <2> DEFINE y == task[v].o
  <2>1. y \in Objs /\ Built(State, y) /\ State.obj[y].link # None /\ Loose(State, y)
    BY <1>1 DEF IInv, TaskOK, Built, Aside, Kept
  <2>2. y # x
    BY <1>1, <2>1, NoneAssumption DEF Own, Kept, Built, State
  <2>3. y # State.players[p]
    BY <2>1 DEF Loose
  <2>4. u.obj[y].link = State.obj[y].link
    BY <2>1, <2>2, <2>3 DEF Bounded, Same
  <2>5. Loose(u, y)
    BY <2>1, <2>2, NoneAssumption DEF Bounded, Loose
  <2> QED
    BY <2>1, <2>2, <2>4, <2>5
<1>2. ASSUME NEW v \in Tasks, Aside(task'[v])
      PROVE  /\ u.obj[task'[v].o].link # None /\ Loose(u, task'[v].o)
             /\ \A w \in Tasks : w # v /\ Aside(task'[w]) => task'[w].o # task'[v].o
  <2>1. CASE v = t
    <3>1. task'[t].o = x /\ u.obj[x].link # None /\ Loose(u, x)
      BY <1>2, <2>1
    <3>2. \A w \in Tasks : w # v /\ Aside(task'[w]) => task'[w].o # x
      BY <1>1, <2>1 DEF Others
    <3> QED
      BY <2>1, <3>1, <3>2
  <2>2. CASE v # t
    <3>1. task'[v] = task[v] /\ Aside(task[v])
      BY <1>2, <2>2 DEF Others
    <3>2. ASSUME NEW w \in Tasks, w # v, Aside(task'[w]) PROVE task'[w].o # task[v].o
      <4>1. CASE w = t
        BY <1>1, <2>2, <3>1, <3>2, <4>1
      <4>2. CASE w # t
        BY <3>1, <3>2, <4>2 DEF Others, Kept
      <4> QED
        BY <4>1, <4>2
    <3> QED
      BY <1>1, <2>2, <3>1, <3>2
  <2> QED
    BY <2>1, <2>2
<1> QED
  BY <1>2 DEF Kept

LEMMA HomesKept ==
    ASSUME Homes, NEW u, State' = u, NEW p \in Pids, NEW D, Adds(State, u, p, D),
           executed \subseteq executed',
           \A m \in D : Known(State, task, p, m) \/ (m \notin executed /\ m \in executed'),
           \A v \in Tasks, q \in Pids, m \in Cmds :
              Brought(task'[v], q, m) => Known(State, task, q, m)
    PROVE  Homes'
<1>1. ASSUME NEW q \in Pids, NEW m \in Cmds, Known(u, task', q, m)
      PROVE  Known(State, task, q, m) \/ (q = p /\ m \notin executed /\ m \in executed')
  <2>1. CASE Holds(u, q, m)
    BY <2>1 DEF Adds, Known
  <2>2. CASE ~Holds(u, q, m)
    BY <1>1, <2>2 DEF Known
  <2> QED
    BY <2>1, <2>2
<1>2. ASSUME NEW q \in Pids, NEW m \in Cmds, Known(u, task', q, m)
      PROVE  m \in executed' /\ \A e \in Pids : Known(u, task', e, m) => e = q
  <2>1. CASE m \in executed
    BY <1>1, <1>2, <2>1 DEF Homes
  <2>2. CASE m \notin executed
    BY <1>1, <1>2, <2>2 DEF Homes
  <2> QED
    BY <2>1, <2>2
<1> QED
  BY <1>2 DEF Homes

LEMMA PendingKept ==
    ASSUME Pending, NEW t, Others(t),
           \A v \in Tasks : v # t /\ Waiting(task[v]) => task[v].cmd \notin executed',
           t \in Tasks =>
              \A v \in Tasks : v # t /\ Waiting(task[v]) => task'[t].cmd # task[v].cmd,
           t \in Tasks /\ Waiting(task'[t]) =>
              /\ task'[t].cmd \notin executed'
              /\ task'[t].kind = "admin" => task'[t].cmd \notin Freezes
              /\ \A v \in Tasks : v # t => task[v].cmd # task'[t].cmd
    PROVE  Pending'
BY DEF Pending, Others
-----------------------------------------------------------------------------
(* Steps of several shapes: of a handler that neither loads nor unloads    *)
(* when it is done, of nobody, and of one that begins delplayer.           *)
LEMMA Continued ==
    ASSUME IInv, NEW t \in Tasks, NEW r, Continue(t, r)
    PROVE  Others(t) /\ task'[t] = r
BY DEF Continue, Others, IInv

LEMMA RoleBounded ==
    ASSUME NEW s, NEW u, NEW p \in Pids, NEW x, Role(s, u, p, x)
    PROVE  Bounded(s, u, p, x) /\ u \in StateType
BY DEF Role, Bounded

(* E are the commands the step executes, D those it brings to the role.    *)
Fits(t, E) == E \subseteq Cmds /\ \A m \in E :
    m \notin executed /\ \A v \in Tasks : v # t => task[v].cmd # m

LEMMA TaskTurn ==
    ASSUME IInv, RInv, NEW t \in Tasks, NEW r, NEW u, Become(u), Continue(t, r),
           NEW p \in Pids, NEW x \in Objs \cup {None}, Own(t, x),
           NEW D, NEW E, Role(State, u, p, x), Adds(State, u, p, D), Clean(u),
           executed' = executed \cup E, Fits(t, E),
           \A m \in D : Known(State, task, p, m) \/ m \in E,
           r.at \notin {"loadwait", "load"}, r.cmd \in {None, task[t].cmd},
           \A q \in Pids : Leaves(task[t], q) => q = p,
           \/ Shown(u, p) \/ Leaves(r, p)
           \/ ~Leaves(task[t], p) /\ (Shown(State, p) => Shown(u, p)),
           Aside(r) => /\ r.o = x /\ x \in Objs /\ obj[x] = None
                       /\ u.obj[x].link # None /\ Loose(u, x)
    PROVE  RInv'
<1>1. Others(t) /\ task'[t] = r
  BY Continued
<1>2. Bounded(State, u, p, x) /\ u \in StateType
  BY RoleBounded
<1>3. State' = u
  BY <1>2, Becomes
<1>4. ~Waiting(r) /\ \A q \in Pids, m \in Cmds : ~Brought(r, q, m)
  BY DEF Waiting, Brought
<1>5. Homes'
  <2>1. \A v \in Tasks, q \in Pids, m \in Cmds :
           Brought(task'[v], q, m) => Known(State, task, q, m)
    BY <1>1, <1>4 DEF Others, Known
  <2>2. \A m \in D : Known(State, task, p, m) \/ (m \notin executed /\ m \in executed')
    BY DEF Fits
  <2> QED
    BY <1>3, <2>1, <2>2, HomesKept DEF RInv
<1>6. Pending'
  <2>1. \A v \in Tasks : v # t /\ Waiting(task[v]) =>
           task[v].cmd \notin executed' /\ r.cmd # task[v].cmd
    <3>1. \A v \in Tasks : Waiting(task[v]) => task[v].cmd # None
      BY NoneAssumption DEF IInv, TaskOK, Waiting
    <3>2. \A v \in Tasks : v # t /\ Waiting(task[v]) => task[v].cmd \notin executed'
      BY DEF Fits, RInv, Pending
    <3> QED
      BY <3>1, <3>2 DEF RInv, Pending
  <2> QED
    BY <1>1, <1>4, <2>1, PendingKept DEF RInv
<1>7. Covered'
  <2>1. \A q \in Pids : q # p /\ Shown(State, q) => Shown(u, q)
    BY OthersShown DEF RInv
  <2> QED
    BY <1>1, <1>3, <2>1, CoveredKept DEF RInv
<1>8. Kept'
  BY <1>1, <1>2, <1>3, KeptKept DEF RInv
<1> QED
  BY <1>3, <1>5, <1>6, <1>7, <1>8 DEF RInv

LEMMA QuietTurn ==
    ASSUME IInv, RInv, NEW t \in Tasks, NEW r, NEW u, Become(u), Continue(t, r),
           executed' = executed, r.at \notin {"loadwait", "load"}, ~Aside(r),
           r.cmd \in {None, task[t].cmd},
           NEW p \in Pids, NEW x \in Objs \cup {None}, Own(t, x), Turns(State, u, p, x, {}),
           \A q \in Pids : Leaves(task[t], q) => q = p,
           \/ Shown(u, p) \/ Leaves(r, p)
           \/ ~Leaves(task[t], p) /\ (Shown(State, p) => Shown(u, p))
    PROVE  RInv'
<1>1. executed' = executed \cup {} /\ Fits(t, {})
  BY DEF Fits
<1>2. Role(State, u, p, x) /\ Adds(State, u, p, {}) /\ Clean(u)
  BY DEF Turns, RInv
<1> QED
  BY <1>1, <1>2, TaskTurn

(* A command that is executed is new, and nobody waits with it.            *)
New(m) == m \notin executed /\ \A v \in Tasks : task[v].cmd # m

LEMMA EventTurn ==
    ASSUME IInv, RInv, NEW u, Become(u), task' = task, NEW p \in Pids, NEW D,
           Turns(State, u, p, None, D),
           executed' = executed \cup D, D \subseteq Cmds, \A m \in D : New(m),
           Shown(State, p) => Shown(u, p)
    PROVE  RInv'
<1>1. Others(None) /\ Own(None, None) /\ None \notin Tasks /\ None \notin Objs
  BY NoneAssumption DEF Others, Own
<1>2. Role(State, u, p, None) /\ Adds(State, u, p, D) /\ (Clean(State) => Clean(u))
  BY DEF Turns
<1>3. Bounded(State, u, p, None) /\ u \in StateType
  BY <1>2, RoleBounded
<1>4. State' = u
  BY <1>3, Becomes
<1>5. Clean(u)
  BY <1>2 DEF RInv
<1>6. Homes'
  <2>1. \A m \in D : m \notin executed /\ m \in executed'
    BY DEF New
  <2>2. \A v \in Tasks, q \in Pids, m \in Cmds :
           Brought(task'[v], q, m) => Known(State, task, q, m)
    BY DEF Known
  <2> QED
    BY <1>2, <1>4, <2>1, <2>2, HomesKept DEF RInv
<1>7. Pending'
  <2>1. \A v \in Tasks : Waiting(task[v]) => task[v].cmd \notin executed'
    BY DEF New, RInv, Pending
  <2> QED
    BY <1>1, <2>1, PendingKept DEF RInv
<1>8. Covered'
  <2>1. \A q \in Pids : q # p /\ Shown(State, q) => Shown(u, q)
    BY <1>1, <1>2, OthersShown DEF RInv
  <2> QED
    BY <1>1, <1>4, <2>1, CoveredKept DEF RInv
<1>9. Kept'
  BY <1>1, <1>3, <1>4, KeptKept DEF RInv
<1> QED
  BY <1>4, <1>5, <1>6, <1>7, <1>8, <1>9 DEF RInv
-----------------------------------------------------------------------------
(* Steps that leave the state as it is.                                    *)
LEMMA Idles ==
    ASSUME IInv, NEW p \in Pids, NEW x
    PROVE  Turns(State, State, p, x, {}) /\ State \in StateType
<1>1. State \in StateType
  BY DEF IInv, Sound
<1> QED
  BY <1>1, WritesNone DEF Holds

LEMMA IdleTurn ==
    ASSUME IInv, RInv, NEW t \in Tasks, NEW r, Become(State), Continue(t, r),
           executed' = executed, r.at \notin {"loadwait", "load", "save"},
           r.cmd \in {None, task[t].cmd}, task[t].at \notin {"logout", "save"}, NEW p \in Pids
    PROVE  RInv'
<1>1. Turns(State, State, p, None, {})
  BY Idles
<1>2. Own(t, None) /\ ~Aside(r)
  BY NoneAssumption DEF Own, Aside
<1>3. \A q \in Pids : ~Leaves(task[t], q)
  BY DEF Leaves
<1> QED
  BY <1>1, <1>2, <1>3, QuietTurn

LEMMA LoadTurn ==
    ASSUME IInv, RInv, NEW t \in Tasks, NEW r, Become(State), Continue(t, r),
           executed' = executed, r.at \in {"loadwait", "load"},
           r.at = "load" => r.read = db[r.pid],
           task[t].at \notin {"logout", "save"}, r.pid \in Pids,
           Waiting(r) =>
              \/ New(r.cmd) /\ (r.kind = "admin" => r.cmd \notin Freezes)
              \/ Waiting(task[t]) /\ r.cmd = task[t].cmd /\ r.kind = task[t].kind,
           r.cmd = None \/ New(r.cmd) \/ r.cmd = task[t].cmd
    PROVE  RInv'
<1>1. Others(t) /\ task'[t] = r
  BY Continued
<1>2. Turns(State, State, r.pid, None, {}) /\ State \in StateType
  BY Idles
<1>3. State' = State
  BY <1>2, Becomes
<1>4. Role(State, State, r.pid, None) /\ Adds(State, State, r.pid, {})
  BY <1>2 DEF Turns
<1>5. Homes'
  <2>1. ASSUME NEW v \in Tasks, NEW q \in Pids, NEW m \in Cmds, Brought(task'[v], q, m)
        PROVE  Known(State, task, q, m)
    <3>1. CASE v = t
      BY <1>1, <2>1, <3>1 DEF Brought, Known, Holds, State
    <3>2. CASE v # t
      BY <1>1, <2>1, <3>2 DEF Others, Known
    <3> QED
      BY <3>1, <3>2
  <2> QED
    BY <1>3, <1>4, <2>1, HomesKept DEF RInv
<1>6. Pending'
  <2>1. \A v \in Tasks : Waiting(task[v]) => task[v].cmd # None /\ task[v].cmd \notin executed
    BY NoneAssumption DEF IInv, TaskOK, Waiting, RInv, Pending
  <2>2. \A v \in Tasks : v # t /\ Waiting(task[v]) => r.cmd # task[v].cmd
    BY <2>1 DEF New, RInv, Pending
  <2>3. Waiting(r) => /\ r.cmd \notin executed /\ (r.kind = "admin" => r.cmd \notin Freezes)
                      /\ \A v \in Tasks : v # t => task[v].cmd # r.cmd
    BY DEF New, RInv, Pending
  <2> QED
    BY <1>1, <2>1, <2>2, <2>3, PendingKept DEF RInv
<1>7. Covered'
  <2>1. \A q \in Pids : ~Leaves(task[t], q)
    BY DEF Leaves
  <2> QED
    BY <1>1, <1>3, <2>1, CoveredKept DEF RInv
<1>8. Kept'
  <2>1. Bounded(State, State, r.pid, None) /\ Own(t, None) /\ ~Aside(r)
    BY <1>4, RoleBounded, NoneAssumption DEF Own, Aside
  <2> QED
    BY <1>1, <1>3, <2>1, KeptKept DEF RInv
<1> QED
  BY <1>3, <1>5, <1>6, <1>7, <1>8 DEF RInv

LEMMA Unchanging ==
    ASSUME UNCHANGED <<objVars, ghosts>>
    PROVE  Become(State) /\ executed' = executed
BY DEF objVars, Become, State, ghosts, history

LEMMA DoneIs == Done.at = "done" /\ Done.cmd = None
BY DEF Done, IdleTask

LEMMA StartIs ==
    ASSUME NEW kind, NEW p
    PROVE  /\ Start(kind, p).kind = kind /\ Start(kind, p).pid = p /\ Start(kind, p).cmd = None
           /\ Start(kind, p).at = "idle" /\ Start(kind, p).o = None
BY DEF Start, IdleTask

LEMMA EnterGameRole ==
    ASSUME IInv, RInv, NEW t \in Tasks, NEW l \in Links, NEW p \in Pids, EnterGame(t, l, p)
    PROVE  RInv'
<1> DEFINE r == [Start("enter", p) EXCEPT !.at = "token", !.link = l]
<1>1. Continue(t, r) /\ Become(State) /\ executed' = executed /\ task[t].at = "idle"
  BY Unchanging DEF EnterGame
<1>2. r.at = "token" /\ r.cmd = None
  BY DEF Start, IdleTask
<1> HIDE DEF r
<1> QED
  BY <1>1, <1>2, IdleTurn

LEMMA EndsRole ==
    ASSUME IInv, RInv, NEW t \in Tasks,
           EnterRefused(t) \/ EnterFinish(t) \/ EnterLoadRefused(t) \/ CmdLoadRefused(t)
    PROVE  RInv'
<1>1. /\ Continue(t, Done) /\ Become(State) /\ executed' = executed
      /\ task[t].at \in {"token", "login", "load"}
  BY Unchanging DEF EnterRefused, EnterFinish, EnterLoadRefused, CmdLoadRefused,
      HasToken, LeaveEnter
<1>2. task[t].pid \in Pids
  BY <1>1 DEF IInv, TaskOK
<1> QED
  BY <1>1, <1>2, DoneIs, IdleTurn

LEMMA LoadLockedRole ==
    ASSUME IInv, RInv, NEW t \in Tasks, LoadLocked(t)
    PROVE  RInv'
<1> DEFINE r == [task[t] EXCEPT !.at = "load", !.read = db[task[t].pid]]
<1>1. Continue(t, r) /\ Become(State) /\ executed' = executed /\ task[t].at = "loadwait"
  BY Unchanging DEF LoadLocked
<1>2. /\ r.at = "load" /\ r.pid = task[t].pid /\ r.read = db[r.pid] /\ r.cmd = task[t].cmd
      /\ r.kind = task[t].kind /\ r.pid \in Pids
  BY <1>1 DEF IInv, TaskOK, Task
<1> HIDE DEF r
<1> QED
  BY <1>1, <1>2, LoadTurn DEF Waiting

LEMMA RecoverRole ==
    ASSUME IInv, RInv, NEW t \in Tasks, NEW r \in Task, Recover(t, r), Become(State),
           executed' = executed, task[t].at \notin {"logout", "save"}, r.pid \in Pids,
           \/ r.kind = "enter" /\ r.cmd = task[t].cmd
           \/ New(r.cmd) /\ (r.kind = "admin" => r.cmd \notin Freezes)
    PROVE  RInv'
<1> DEFINE e == [r EXCEPT !.at = "load", !.read = db[r.pid]]
           w == [r EXCEPT !.at = "loadwait"]
<1>1. Continue(t, e) \/ Continue(t, w)
  BY DEF Recover
<1>2. /\ e.at = "load" /\ e.read = db[e.pid] /\ e.pid = r.pid /\ e.cmd = r.cmd /\ e.kind = r.kind
      /\ w.at = "loadwait" /\ w.pid = r.pid /\ w.cmd = r.cmd /\ w.kind = r.kind
  BY DEF Task
<1> HIDE DEF e, w
<1>3. CASE Continue(t, e)
  BY <1>2, <1>3, LoadTurn DEF Waiting
<1>4. CASE Continue(t, w)
  BY <1>2, <1>4, LoadTurn DEF Waiting
<1> QED
  BY <1>1, <1>3, <1>4
-----------------------------------------------------------------------------
(* The login.                                                              *)
LEMMA EnterRecoverRole ==
    ASSUME IInv, RInv, NEW t \in Tasks, EnterRecover(t)
    PROVE  RInv'
<1>1. /\ task[t].at = "token" /\ Become(State) /\ executed' = executed
      /\ IF OpenKuafu THEN Continue(t, [task[t] EXCEPT !.at = "route"]) ELSE Recover(t, task[t])
  BY Unchanging DEF EnterRecover, HasToken
<1>2. task[t].pid \in Pids /\ task[t].kind = "enter" /\ task[t] \in Task
  BY <1>1 DEF IInv, TaskOK
<1>3. CASE OpenKuafu
  <2> DEFINE r == [task[t] EXCEPT !.at = "route"]
  <2>1. r.at = "route" /\ r.cmd = task[t].cmd
    BY <1>2 DEF Task
  <2> HIDE DEF r
  <2> QED
    BY <1>1, <1>2, <1>3, <2>1, IdleTurn DEF r
<1>4. CASE ~OpenKuafu
  BY <1>1, <1>2, <1>4, RecoverRole
<1> QED
  BY <1>3, <1>4

LEMMA LoadForCmdRole ==
    ASSUME IInv, RInv, NEW t \in Tasks, NEW kind \in {"cmd", "admin"}, NEW p \in Pids,
           NEW m \in Cmds, LoadForCmd(t, kind, p, m)
    PROVE  RInv'
<1> DEFINE r == [Start(kind, p) EXCEPT !.cmd = m]
<1>1. /\ Recover(t, r) /\ Become(State) /\ executed' = executed /\ task[t].at = "idle" /\ Fresh(m)
      /\ kind = "admin" => m \notin Freezes
  BY Unchanging DEF LoadForCmd
<1>2. r \in Task /\ r.pid = p /\ r.cmd = m /\ r.kind = kind
  BY DEF Start, IdleTask, Task, Kinds, Steps
<1> HIDE DEF r
<1> QED
  BY <1>1, <1>2, RecoverRole DEF Fresh, New

(* The link, and the assertions, are of no importance for the roles.       *)
LEMMA UpTurns ==
    ASSUME NEW s \in StateType, NEW u \in StateType, NEW p \in Pids, NEW x,
           u.players = s.players, u.tick = s.tick, u.obj = s.obj, u.db = s.db
    PROVE  Turns(s, u, p, x, {}) /\ (Shown(s, p) => Shown(u, p))
<1>1. Turns(s, u, p, x, {})
  BY WritesNone DEF Holds
<1> QED
  BY <1>1 DEF Shown, Online

LEMMA UpTurn ==
    ASSUME IInv, RInv, NEW t \in Tasks, NEW up \in SUBSET Links,
           NEW f \in SUBSET {"filter", "add", "recover"},
           Become([State EXCEPT !.up = up, !.failed = f]), Continue(t, Done),
           executed' = executed, task[t].at \notin {"logout", "save"}, NEW p \in Pids
    PROVE  RInv'
<1> DEFINE u == [State EXCEPT !.up = up, !.failed = f]
<1>1. /\ u \in StateType /\ u.players = State.players /\ u.tick = State.tick
      /\ u.obj = State.obj /\ u.db = State.db /\ State \in StateType
  BY DEF IInv, Sound, StateType
<1> HIDE DEF u
<1>2. Own(t, None) /\ ~Aside(Done) /\ \A q \in Pids : ~Leaves(task[t], q)
  BY NoneAssumption, DoneIs DEF Own, Aside, Leaves
<1>3. Turns(State, u, p, None, {}) /\ (Shown(State, p) => Shown(u, p))
  BY <1>1, UpTurns
<1> QED
  BY <1>2, <1>3, DoneIs, QuietTurn DEF u

LEMMA EnterRoutedRole ==
    ASSUME IInv, RInv, NEW t \in Tasks, EnterRouted(t)
    PROVE  RInv'
<1> DEFINE r == task[t]
<1>1. r.at = "route" /\ executed' = executed
  BY DEF EnterRouted, history
<1>2. r.pid \in Pids /\ r.kind = "enter" /\ r \in Task /\ r.link \in Links
  BY <1>1 DEF IInv, TaskOK, Entering
<1>3. State.up \in SUBSET Links /\ State.failed \in SUBSET {"filter", "add", "recover"}
      /\ State = [State EXCEPT !.up = State.up, !.failed = State.failed]
  BY DEF IInv, Sound, StateType
<1>4. CASE LeaveEnter(t, r) /\ Become([State EXCEPT !.up = @ \ {r.link}])
  <2> DEFINE up == State.up \ {r.link}
             f == State.failed
  <2>1. up \in SUBSET Links /\ f \in SUBSET {"filter", "add", "recover"}
    BY <1>3
  <2>2. [State EXCEPT !.up = @ \ {r.link}] = [State EXCEPT !.up = up, !.failed = f]
    BY DEF State
  <2>3. Become([State EXCEPT !.up = up, !.failed = f])
    BY <1>4, <2>2
  <2> HIDE DEF up, f
  <2> QED
    BY <1>1, <1>2, <1>4, <2>1, <2>3, UpTurn DEF LeaveEnter
<1>5. CASE LeaveEnter(t, r) /\ Become(State)
  BY <1>1, <1>2, <1>5, DoneIs, IdleTurn DEF LeaveEnter
<1>6. CASE Recover(t, r) /\ Become(State)
  BY <1>1, <1>2, <1>6, RecoverRole
<1>7. CASE LeaveEnter(t, r) /\ Become([State EXCEPT !.failed = @ \cup {"recover"}])
  <2> DEFINE up == State.up
             f == State.failed \cup {"recover"}
  <2>1. up \in SUBSET Links /\ f \in SUBSET {"filter", "add", "recover"}
    BY <1>3
  <2>2. [State EXCEPT !.failed = @ \cup {"recover"}] = [State EXCEPT !.up = up, !.failed = f]
    BY DEF State
  <2>3. Become([State EXCEPT !.up = up, !.failed = f])
    BY <1>7, <2>2
  <2> HIDE DEF up, f
  <2> QED
    BY <1>1, <1>2, <1>7, <2>1, <2>3, UpTurn DEF LeaveEnter
<1> QED
  BY <1>4, <1>5, <1>6, <1>7 DEF EnterRouted

(* Whom the role had a link to is disconnected.                            *)
LEMMA CloseIfOnline ==
    ASSUME NEW s, NEW p \in Pids, NEW x, Sound(s), s.players[p] # None,
           NEW u, u = IF Online(s, p) THEN CloseLink(s, s.players[p]) ELSE s
    PROVE  /\ Turns(s, u, p, x, {}) /\ Sound(u) /\ Keeps(s, u)
           /\ u.players = s.players /\ u.tick = s.tick
           /\ u.obj[s.players[p]].link = None
           /\ u.obj[s.players[p]].data = s.obj[s.players[p]].data
<1> DEFINE o == s.players[p]
<1>1. o \in Objs /\ Built(s, o) /\ s \in StateType
  BY DEF Sound, Registry, Built
<1>2. CASE Online(s, p)
  <2>1. s.obj[o].link # None /\ u = CloseLink(s, o)
    BY <1>2 DEF Online
  <2> HIDE DEF o
  <2>2. /\ Turns(s, u, p, x, {}) /\ u.players = s.players /\ u.tick = s.tick
        /\ u.obj[o].link = None /\ u.obj[o].data = s.obj[o].data
    BY <1>1, <2>1, CloseTurns DEF o
  <2>3. Sound(u) /\ Keeps(s, u)
    BY <1>1, <2>1, CloseSound
  <2> QED
    BY <2>2, <2>3 DEF o
<1>3. CASE ~Online(s, p)
  <2>1. u = s /\ s.obj[o].link = None
    BY <1>3 DEF Online
  <2>2. Turns(s, s, p, x, {})
    BY <1>1, WritesNone DEF Holds
  <2> QED
    BY <2>1, <2>2 DEF Keeps
<1> QED
  BY <1>2, <1>3

(* delplayer begins, after what the handler has done before.               *)
Begun(t, s, r, p, x, u, e) ==
    /\ Become(u) /\ Continue(t, e)
    /\ Turns(s, u, p, x, {}) /\ u.players = s.players /\ u.obj = s.obj
    /\ u.tick = s.tick
    /\ e.at = "save" /\ e.pid = r.pid /\ e.cmd = r.cmd /\ e.kind = r.kind
    /\ e.o = r.o

LEMMA BegunTurn ==
    ASSUME NEW t \in Tasks, NEW s, NEW p \in Pids, NEW r \in Task, NEW x,
           BeginDel(t, s, p, r), Sound(s), s.players[p] # None
    PROVE  \E u, e : Begun(t, s, r, p, x, u, e)
<1> DEFINE o == s.players[p]
           rest(ok) == [r EXCEPT !.at = "save", !.del = o, !.missed = ~ok]
<1>1. o \in Objs /\ s \in StateType
  BY DEF Sound, Registry, Built
<1>2. PICK u \in {NowSave(s, o), s}, e \in {rest(TRUE), rest(FALSE)} :
         Become(u) /\ Continue(t, e)
  BY DEF BeginDel
<1>3. /\ e.at = "save" /\ e.pid = r.pid /\ e.cmd = r.cmd /\ e.kind = r.kind
      /\ e.o = r.o
  BY <1>2 DEF Task
<1> HIDE DEF rest, o
<1>4. CASE u = NowSave(s, o)
  <2>1. /\ Turns(s, u, p, x, {}) /\ u.players = s.players /\ u.obj = s.obj
        /\ u.tick = s.tick
    BY <1>1, <1>4, SaveTurns
  <2> QED
    BY <1>2, <1>3, <2>1 DEF Begun
<1>5. CASE u = s
  <2>1. Turns(s, s, p, x, {})
    BY <1>1, UpTurns
  <2> QED
    BY <1>2, <1>3, <1>5, <2>1 DEF Begun
<1> QED
  BY <1>2, <1>4, <1>5

LEMMA DelTurn ==
    ASSUME IInv, RInv, NEW t \in Tasks, NEW s, NEW p \in Pids, NEW r \in Task,
           BeginDel(t, s, p, r), Sound(s), s.players[p] # None, r.pid = p,
           NEW x \in Objs \cup {None}, Own(t, x),
           NEW D, NEW E, Role(State, s, p, x), Adds(State, s, p, D), Clean(s),
           executed' = executed \cup E, Fits(t, E),
           \A m \in D : Known(State, task, p, m) \/ m \in E,
           r.cmd \in {None, task[t].cmd},
           \A q \in Pids : Leaves(task[t], q) => q = p,
           r.kind = "enter" => /\ r.o = x /\ x \in Objs /\ obj[x] = None
                               /\ s.obj[x].link # None /\ Loose(s, x)
    PROVE  RInv'
<1>1. PICK u, e : Begun(t, s, r, p, x, u, e)
  BY BegunTurn, ZenonT(60)
<1>2. Become(u) /\ Continue(t, e)
  BY <1>1 DEF Begun
<1>3. /\ Turns(s, u, p, x, {}) /\ u.players = s.players /\ u.obj = s.obj /\ u.tick = s.tick
  BY <1>1 DEF Begun
<1>4. /\ e.at = "save" /\ e.pid = p /\ e.cmd = r.cmd /\ e.kind = r.kind /\ e.o = r.o
  BY <1>1 DEF Begun
<1>5. u \in StateType
  BY <1>3 DEF Turns, Role
<1>6. Role(State, u, p, x)
  <2>1. \A i \in Objs : Same(s, u, i)
    BY <1>3 DEF Same, Built
  <2> QED
    BY <1>3, <1>5, <2>1 DEF Role, Same
<1>7. Adds(State, u, p, D)
  BY <1>3 DEF Turns, Adds
<1>8. Clean(u)
  BY <1>3 DEF Turns
<1>9. Aside(e) => /\ e.o = x /\ x \in Objs /\ obj[x] = None
                  /\ u.obj[x].link # None /\ Loose(u, x)
  BY <1>3, <1>4 DEF Aside, Loose
<1>10. Leaves(e, p)
  BY <1>4 DEF Leaves
<1> QED
  BY <1>2, <1>4, <1>6, <1>7, <1>8, <1>9, <1>10, TaskTurn

LEMMA TurnsTwice ==
    ASSUME NEW s, NEW u, NEW v, NEW p \in Pids, NEW x, NEW D,
           Turns(s, u, p, x, D), Turns(u, v, p, x, {})
    PROVE  Turns(s, v, p, x, D)
<1>1. D \subseteq D /\ {} \subseteq D
  OBVIOUS
<1> QED
  BY <1>1, TurnsOn

LEMMA EnterReplaceRole ==
    ASSUME IInv, RInv, NEW t \in Tasks, EnterReplace(t)
    PROVE  RInv'
<1> DEFINE r == task[t]
           p == r.pid
           o == players[p]
           s == IF Online(State, p) THEN CloseLink(State, o) ELSE State
           u == BindLink(s, o, r.link)
<1>1. /\ r.at = "token" /\ o # None /\ executed' = executed
      /\ IF Banned(obj[o].data) THEN Become(s) /\ LeaveEnter(t, r)
         ELSE Become(u) /\ Continue(t, [r EXCEPT !.at = "login", !.o = o])
  BY DEF EnterReplace, HasToken, history
<1>2. p \in Pids /\ r \in Task /\ r.link \in Links /\ Sound(State)
  BY <1>1 DEF IInv, TaskOK, Entering
<1>3. State.players = players /\ State.obj = obj /\ State.tick = lastTick
  BY DEF State
<1>4. o \in Objs /\ Built(State, o) /\ State.obj[o].pid = p
  BY <1>1, <1>2, <1>3 DEF Sound, Registry, Built
<1> HIDE DEF s, u
<1>5. CASE Banned(obj[o].data)
  <2>1. obj[o].link = None
    BY <1>3, <1>4, <1>5 DEF RInv, Clean
  <2>2. s = State
    BY <1>3, <2>1 DEF s, Online
  <2> QED
    BY <1>1, <1>2, <1>5, <2>2, DoneIs, IdleTurn DEF LeaveEnter
<1>6. CASE ~Banned(obj[o].data)
  <2> DEFINE e == [r EXCEPT !.at = "login", !.o = o]
  <2>1. Become(u) /\ Continue(t, e)
    BY <1>1, <1>6
  <2>2. e.at = "login" /\ e.cmd = r.cmd
    BY <1>2 DEF Task
  <2> HIDE DEF e
  <2>3. /\ Turns(State, s, p, None, {}) /\ Sound(s) /\ Keeps(State, s)
        /\ s.players = State.players /\ s.obj[o].data = State.obj[o].data
    BY <1>1, <1>2, <1>3, CloseIfOnline DEF s
  <2>4. Built(s, o) /\ s.obj[o].pid = p
    BY <1>4, <2>3 DEF Keeps
  <2>5. /\ Turns(s, u, p, None, {}) /\ u.players = s.players
        /\ u.obj[o].link = r.link
    BY <1>2, <1>3, <1>4, <1>6, <2>3, <2>4, BindTurns DEF u
  <2>6. Turns(State, u, p, None, {})
    BY <1>2, <2>3, <2>5, TurnsTwice
  <2>7. Shown(u, p)
    BY <1>2, <1>3, <2>3, <2>5, NoneAssumption DEF Shown, Online
  <2>8. Own(t, None) /\ ~Aside(e) /\ \A q \in Pids : ~Leaves(r, q)
    BY <1>1, <2>2, NoneAssumption DEF Own, Aside, Leaves
  <2> QED
    BY <1>1, <1>2, <2>1, <2>2, <2>6, <2>7, <2>8, QuietTurn
<1> QED
  BY <1>5, <1>6

LEMMA EnterLoadedRole ==
    ASSUME IInv, RInv, NEW t \in Tasks, NEW o \in Objs, EnterLoaded(t, o)
    PROVE  RInv'
<1> DEFINE r == task[t]
           p == r.pid
           n == NewPlayer(State, o, p, r.read)
           s == BindLink(n, o, r.link)
           u == AddPlayer(s, o)
           r1 == [r EXCEPT !.o = o]
           r2 == [r EXCEPT !.at = "login", !.o = o]
<1>1. /\ r \in Task /\ r.at = "load" /\ r.kind = "enter" /\ obj[o] = None /\ ~Banned(r.read)
      /\ p \in Pids /\ r.link \in Links /\ r.read \in SUBSET Cmds /\ executed' = executed
  BY DEF IInv, TaskOK, Entering, EnterLoaded, Task, history
<1>2. /\ Sound(State) /\ State.players = players /\ State.obj = obj
  BY DEF IInv, State
<1>3. \/ players[p] = None /\ Become(u) /\ Continue(t, r2)
      \/ players[p] # None /\ BeginDel(t, s, p, r1)
  BY DEF EnterLoaded
<1>4. /\ r1 \in Task /\ r1.o = o /\ r1.pid = p /\ r1.kind = "enter" /\ r1.cmd = r.cmd
      /\ r2.at = "login" /\ r2.cmd = r.cmd
  BY <1>1 DEF Task
<1>5. \A m \in r.read : Known(State, task, p, m) \/ m \in {}
  BY <1>1 DEF Known, Brought
<1>6. Own(t, o) /\ ~Leaves(r, p) /\ (\A q \in Pids : ~Leaves(r, q)) /\ Loose(State, o)
  BY <1>1, OwnLoose DEF Own, Leaves, RInv
<1>7. executed' = executed \cup {} /\ Fits(t, {})
  BY <1>1 DEF Fits
<1> DEFINE D == r.read
<1> HIDE DEF n, s, u, r1, r2, p
<1>8. /\ Sound(n) /\ n.players = players /\ Built(n, o) /\ n.obj[o].pid = p
      /\ n.obj[o].data = r.read
  BY <1>1, <1>2, NewSound DEF n
<1>9. Turns(State, n, p, o, D)
  BY <1>1, <1>2, NewTurns DEF n
<1>10. Sound(s) /\ Keeps(n, s) /\ s.players = players
  BY <1>1, <1>8, BindSound DEF s
<1>11. Turns(n, s, p, o, {}) /\ s.obj[o].link = r.link
  BY <1>1, <1>8, BindTurns DEF s
<1>12. Turns(State, s, p, o, D) /\ Built(s, o) /\ s.obj[o].pid = p /\ r.link # None
  BY <1>1, <1>8, <1>9, <1>10, <1>11, TurnsTwice, NoneAssumption DEF Keeps
<1>13. CASE players[p] = None /\ Become(u) /\ Continue(t, r2)
  <2>1. Turns(s, u, p, o, {}) /\ u.players[p] = o /\ u.obj[o].link = r.link
    BY <1>1, <1>10, <1>11, <1>12, <1>13, AddTurns DEF u
  <2>2. Turns(State, u, p, o, D)
    BY <1>1, <1>12, <2>1, TurnsTwice
  <2>3. Shown(u, p)
    BY <1>1, <1>12, <2>1, NoneAssumption DEF Shown, Online
  <2>4. Role(State, u, p, o) /\ Adds(State, u, p, D) /\ Clean(u) /\ ~Aside(r2)
    BY <1>4, <2>2 DEF Turns, RInv, Aside
  <2> QED
    BY <1>1, <1>4, <1>5, <1>6, <1>7, <1>13, <2>3, <2>4, TaskTurn
<1>14. CASE players[p] # None /\ BeginDel(t, s, p, r1)
  <2>1. Role(State, s, p, o) /\ Adds(State, s, p, D) /\ Clean(s)
    BY <1>12 DEF Turns, RInv
  <2>2. s.obj[o].link # None /\ Loose(s, o) /\ s.players[p] # None
    BY <1>2, <1>6, <1>10, <1>11, <1>12, <1>14 DEF Loose
  <2> QED
    BY <1>1, <1>4, <1>5, <1>6, <1>7, <1>10, <1>14, <2>1, <2>2, DelTurn
<1> QED
  BY <1>3, <1>13, <1>14
-----------------------------------------------------------------------------
(* The commands.                                                           *)
LEMMA OnlineWhere ==
    ASSUME NEW s, NEW u, NEW p \in Pids, Sound(s), u.players = s.players,
           s.players[p] # None => u.obj[s.players[p]].link = s.obj[s.players[p]].link
    PROVE  Online(u, p) <=> Online(s, p)
BY DEF Online

LEMMA ClientCmdRole ==
    ASSUME IInv, RInv, NEW l \in Links, NEW m \in Cmds, ClientCmd(l, m)
    PROVE  RInv'
<1> DEFINE p == linkPid[l]
<1>1. p \in Pids /\ Sound(State) /\ State.players = players
  BY DEF IInv, Sound, StateType, State, ClientCmd
<1>2. /\ task' = task /\ New(m) /\ m \notin Freezes
      /\ IF Online(State, p)
         THEN Become(Execute(State, p, m)) /\ executed' = executed \cup {m}
         ELSE Become([State EXCEPT !.failed = @ \cup {"filter"}]) /\ executed' = executed
  BY DEF ClientCmd, Fresh, New, Executed, history
<1> HIDE DEF p
<1>3. CASE Online(State, p)
  <2> DEFINE u == Execute(State, p, m)
  <2>1. State.players[p] # None
    BY <1>3 DEF Online
  <2>2. /\ Role(State, u, p, None) /\ Adds(State, u, p, {m}) /\ (Clean(State) => Clean(u))
        /\ u.players = State.players /\ u.tick = State.tick
        /\ u.obj[State.players[p]].link = State.obj[State.players[p]].link
    BY <1>1, <1>2, <2>1, ExecuteTurns
  <2> HIDE DEF u
  <2>3. Turns(State, u, p, None, {m})
    BY <2>2 DEF Turns
  <2>4. Shown(State, p) => Shown(u, p)
    BY <1>1, <2>2, OnlineWhere DEF Shown
  <2>5. Become(u)
    BY <1>2, <1>3 DEF u
  <2> QED
    BY <1>1, <1>2, <1>3, <2>3, <2>4, <2>5, EventTurn
<1>4. CASE ~Online(State, p)
  <2> DEFINE u == [State EXCEPT !.failed = @ \cup {"filter"}]
  <2>1. /\ u \in StateType /\ u.players = State.players /\ u.tick = State.tick
        /\ u.obj = State.obj /\ u.db = State.db /\ State \in StateType
    BY DEF IInv, Sound, StateType
  <2>2. Become(u) /\ executed' = executed \cup {}
    BY <1>2, <1>4
  <2> HIDE DEF u
  <2>3. Turns(State, u, p, None, {}) /\ (Shown(State, p) => Shown(u, p))
    BY <1>1, <2>1, UpTurns
  <2> QED
    BY <1>1, <1>2, <2>2, <2>3, EventTurn
<1> QED
  BY <1>3, <1>4

LEMMA DoPlayerCmdRole ==
    ASSUME IInv, RInv, NEW p \in Pids, NEW m \in Cmds, DoPlayerCmd(p, m)
    PROVE  RInv'
<1> DEFINE s == SetLastTick(State, p)
           u == Execute(s, p, m)
<1>1. Sound(State) /\ State.players = players
  BY DEF IInv, State
<1>2. /\ task' = task /\ New(m) /\ m \notin Freezes /\ Become(u) /\ executed' = executed \cup {m}
      /\ players[p] # None
  BY DEF DoPlayerCmd, Fresh, New, Executed
<1> HIDE DEF u, s
<1>3. Turns(State, s, p, None, {}) /\ Shown(s, p) /\ Sound(s) /\ s.players = State.players
  BY <1>1, TickTurns, TickSound DEF s
<1>8. s.players[p] # None
  BY <1>1, <1>2, <1>3
<1>4. /\ Role(s, u, p, None) /\ Adds(s, u, p, {m}) /\ (Clean(s) => Clean(u))
      /\ u.players = s.players /\ u.tick = s.tick
      /\ u.obj[s.players[p]].link = s.obj[s.players[p]].link
  BY <1>2, <1>3, <1>8, ExecuteTurns DEF u
<1>5. Turns(s, u, p, None, {m}) /\ {} \subseteq {m} /\ {m} \subseteq {m}
  BY <1>4 DEF Turns
<1>6. Turns(State, u, p, None, {m})
  BY <1>3, <1>5, TurnsOn
<1>7. Shown(u, p)
  BY <1>3, <1>4, OnlineWhere DEF Shown
<1> QED
  BY <1>2, <1>6, <1>7, EventTurn

(* kick: whatever has happened to the role, its link is closed.            *)
LEMMA KickTurn ==
    ASSUME IInv, RInv, NEW t \in Tasks, NEW s, NEW p \in Pids, NEW r \in Task,
           KickPlayer(t, s, p, r), Sound(s), s.players[p] # None, r.pid = p,
           NEW x \in Objs \cup {None}, Own(t, x),
           NEW D, NEW E, Role(State, s, p, x), Adds(State, s, p, D),
           \A e \in Objs : e # s.players[p] /\ Built(s, e) /\ s.obj[e].link # None =>
              ~Banned(s.obj[e].data),
           executed' = executed \cup E, Fits(t, E),
           \A m \in D : Known(State, task, p, m) \/ m \in E,
           r.cmd \in {None, task[t].cmd}, \A q \in Pids : Leaves(task[t], q) => q = p
    PROVE  RInv'
<1> DEFINE o == s.players[p]
           c == IF Online(s, p) THEN CloseLink(s, o) ELSE s
           u == [c EXCEPT !.obj[o].force = TRUE]
           e == [r EXCEPT !.kind = "kick", !.at = "logout", !.o = o]
<1>1. Become(u) /\ Continue(t, e)
  BY DEF KickPlayer
<1>2. e.at = "logout" /\ e.pid = p /\ e.cmd = r.cmd
  BY DEF Task
<1>3. o \in Objs /\ Built(s, o)
  BY DEF Sound, Registry, Built
<1> HIDE DEF c, u, e
<1>4. /\ Turns(s, c, p, None, {}) /\ Turns(s, c, p, x, {}) /\ Sound(c) /\ Keeps(s, c)
      /\ c.players = s.players /\ c.obj[o].link = None
  <2>1. c = IF Online(s, p) THEN CloseLink(s, s.players[p]) ELSE s
    BY DEF c
  <2>2. /\ Turns(s, c, p, x, {}) /\ Sound(c) /\ Keeps(s, c)
        /\ c.players = s.players /\ c.obj[s.players[p]].link = None
    BY <2>1, CloseIfOnline, SMTT(60)
  <2>3. Turns(s, c, p, None, {})
    BY <2>1, CloseIfOnline
  <2> QED
    BY <2>2, <2>3
<1>5. Built(c, o) /\ c \in StateType
  BY <1>3, <1>4 DEF Keeps, Sound
<1>6. Turns(c, u, p, x, {}) /\ \A i \in Objs : Same(c, u, i)
  BY <1>3, <1>5, ForceTurns DEF u
<1>7. Clean(u)
  <2>1. ASSUME NEW i \in Objs, Built(u, i), u.obj[i].link # None PROVE ~Banned(u.obj[i].data)
    <3>1. Same(c, u, i) /\ i # o
      BY <1>4, <1>6, <2>1 DEF Same
    <3>2. Same(s, c, i)
      BY <1>4, <3>1, NoneAssumption DEF Turns, Role
    <3>3. Built(s, i) /\ s.obj[i].link # None /\ u.obj[i].data = s.obj[i].data
      BY <2>1, <3>1, <3>2 DEF Same
    <3> QED
      BY <3>1, <3>3
  <2> QED
    BY <2>1 DEF Clean
<1>8. Role(State, u, p, x) /\ Adds(State, u, p, D)
  <2>1. Turns(s, u, p, x, {})
    BY <1>4, <1>6, TurnsTwice
  <2>2. D \subseteq D /\ {} \subseteq D
    OBVIOUS
  <2> HIDE DEF o
  <2> QED
    BY <2>1, <2>2, RoleOn DEF Turns
<1>9. Leaves(e, p) /\ ~Aside(e)
  BY <1>2 DEF Leaves, Aside
<1> QED
  BY <1>1, <1>2, <1>7, <1>8, <1>9, TaskTurn

LEMMA AdminTurn ==
    ASSUME IInv, RInv, NEW t \in Tasks, NEW s, NEW p \in Pids, NEW r \in Task,
           AdminEnd(t, s, p, r), Sound(s), s.players[p] # None, r.pid = p, r.kind = "admin",
           NEW x \in Objs \cup {None}, Own(t, x),
           NEW D, NEW E, Role(State, s, p, x), Adds(State, s, p, D), Clean(s),
           executed' = executed \cup E, Fits(t, E),
           \A m \in D : Known(State, task, p, m) \/ m \in E,
           r.cmd \in {None, task[t].cmd}, \A q \in Pids : ~Leaves(task[t], q),
           s.obj[s.players[p]].offline \/ (Shown(State, p) => Shown(s, p))
    PROVE  RInv'
<1>1. CASE BeginDel(t, s, p, r)
  BY <1>1, DelTurn
<1>2. CASE ~s.obj[s.players[p]].offline /\ Become(s) /\ Continue(t, Done)
  <2>1. ~Aside(Done) /\ Done.cmd = None /\ Done.at = "done"
    BY DoneIs DEF Aside
  <2> QED
    BY <1>2, <2>1, TaskTurn
<1> QED
  BY <1>1, <1>2 DEF AdminEnd

LEMMA AdminCmdRole ==
    ASSUME IInv, RInv, NEW t \in Tasks, NEW p \in Pids, NEW m \in Cmds, AdminCmd(t, p, m)
    PROVE  RInv'
<1> DEFINE s == Execute(State, p, m)
           r == Start("admin", p)
<1>1. Sound(State) /\ State.players = players
  BY DEF IInv, State
<1>2. /\ task[t].at = "idle" /\ New(m) /\ m \notin Freezes /\ executed' = executed \cup {m}
      /\ players[p] # None /\ AdminEnd(t, s, p, r)
  BY DEF AdminCmd, Fresh, New, Executed
<1>3. r \in Task /\ r.pid = p /\ r.kind = "admin" /\ r.cmd = None
  BY DEF Start, IdleTask, Task, Kinds, Steps
<1> HIDE DEF s, r
<1>4. /\ Role(State, s, p, None) /\ Adds(State, s, p, {m}) /\ (Clean(State) => Clean(s))
      /\ s.players = State.players /\ s.tick = State.tick
      /\ s.obj[State.players[p]].link = State.obj[State.players[p]].link
  BY <1>1, <1>2, ExecuteTurns DEF s
<1>5. Sound(s)
  BY <1>1, <1>2, ExecuteSound DEF s
<1>6. Shown(State, p) => Shown(s, p)
  BY <1>1, <1>4, OnlineWhere DEF Shown
<1>7. Own(t, None) /\ (\A q \in Pids : ~Leaves(task[t], q)) /\ Fits(t, {m}) /\ Clean(State)
  BY <1>2, NoneAssumption DEF Own, Leaves, Fits, New, RInv
<1> QED
  BY <1>1, <1>2, <1>3, <1>4, <1>5, <1>6, <1>7, AdminTurn

LEMMA FreezeRole ==
    ASSUME IInv, RInv, NEW t \in Tasks, NEW p \in Pids, NEW m \in Cmds, Freeze(t, p, m)
    PROVE  RInv'
<1> DEFINE s == SetLastTick(State, p)
           c == Execute(s, p, m)
           r == Start("kick", p)
<1>1. Sound(State) /\ State.players = players /\ Clean(State)
  BY DEF IInv, State, RInv
<1>2. /\ task[t].at = "idle" /\ New(m) /\ executed' = executed \cup {m}
      /\ players[p] # None /\ KickPlayer(t, c, p, r)
  BY DEF Freeze, Fresh, New, Executed
<1>3. r \in Task /\ r.pid = p /\ r.cmd = None
  BY DEF Start, IdleTask, Task, Kinds, Steps
<1> HIDE DEF s, c, r
<1>4. Turns(State, s, p, None, {}) /\ Sound(s) /\ s.players = State.players
  BY <1>1, TickTurns, TickSound DEF s
<1>5. s.players[p] # None
  BY <1>1, <1>2, <1>4
<1>6. /\ Role(s, c, p, None) /\ Adds(s, c, p, {m}) /\ c.players = s.players
      /\ \A e \in Objs : e # s.players[p] => c.obj[e] = s.obj[e]
  BY <1>4, <1>5, ExecuteTurns DEF c
<1>7. Sound(c)
  BY <1>4, <1>5, ExecuteSound DEF c
<1>8. Role(State, c, p, None) /\ Adds(State, c, p, {m})
  <2>1. {} \subseteq {m} /\ {m} \subseteq {m}
    OBVIOUS
  <2> QED
    BY <1>4, <1>6, <2>1, RoleOn DEF Turns
<1>9. \A e \in Objs : e # c.players[p] /\ Built(c, e) /\ c.obj[e].link # None =>
         ~Banned(c.obj[e].data)
  <2>1. Clean(s)
    BY <1>1, <1>4 DEF Turns
  <2> QED
    BY <1>6, <2>1 DEF Clean, Built
<1>10. Own(t, None) /\ (\A q \in Pids : ~Leaves(task[t], q)) /\ Fits(t, {m})
  BY <1>2, NoneAssumption DEF Own, Leaves, Fits, New
<1> QED
  BY <1>2, <1>3, <1>5, <1>6, <1>7, <1>8, <1>9, <1>10, KickTurn

(* loadplayer: what findOne has answered is registered, unless another     *)
(* handler was faster.                                                     *)
LEMMA LoadPlayerTurns ==
    ASSUME IInv, NEW t \in Tasks, NEW o \in Objs, task[t].at = "load", obj[o] = None
    PROVE  LET p == task[t].pid
               s == LoadPlayer(State, o, p, task[t].read)
           IN
           /\ Turns(State, s, p, o, task[t].read) /\ Sound(s) /\ s.players[p] # None
           /\ s.obj[s.players[p]].offline \/ s = State
<1> DEFINE r == task[t]
           p == r.pid
           s == LoadPlayer(State, o, p, r.read)
           n == NewPlayer(State, o, p, r.read)
           u == AddPlayer(n, o)
<1>1. p \in Pids /\ r.read \in SUBSET Cmds
  BY DEF IInv, TaskOK, Task
<1>2. Sound(State) /\ State.players = players /\ State.obj = obj
  BY DEF IInv, State
<1>3. s = IF players[p] = None THEN u ELSE State
  BY <1>2 DEF LoadPlayer
<1>4. Sound(s) /\ s.players[p] # None
  BY LoadPlayerSound
<1> HIDE DEF s, n, u, p, r
<1>5. CASE players[p] = None
  <2>1. /\ Turns(State, n, p, o, r.read) /\ n.players = players /\ Built(n, o)
        /\ n.obj[o].pid = p /\ n.obj[o].link = None
    BY <1>1, <1>2, NewTurns DEF n
  <2>2. Sound(n)
    BY <1>1, <1>2, NewSound DEF n
  <2>5. Turns(n, u, p, o, {}) /\ u.players[p] = o /\ u.obj[o].offline = (n.obj[o].link = None)
    BY <1>1, <1>5, <2>1, <2>2, AddTurns DEF u
  <2>3. Turns(n, u, p, o, {}) /\ u.players[p] = o /\ u.obj[o].offline
    BY <2>1, <2>5
  <2>4. Turns(State, u, p, o, r.read)
    BY <1>1, <2>1, <2>3, TurnsTwice
  <2> QED
    BY <1>3, <1>4, <1>5, <2>3, <2>4 DEF s, p, r
<1>6. CASE players[p] # None
  <2>1. s = State
    BY <1>3, <1>6
  <2>2. Turns(State, State, p, o, {})
    BY <1>1, Idles
  <2>3. {} \subseteq r.read
    OBVIOUS
  <2>4. Turns(State, State, p, o, r.read)
    BY <1>1, <2>2, <2>3, TurnsOn
  <2> QED
    BY <1>4, <2>1, <2>4 DEF s, p, r
<1> QED
  BY <1>5, <1>6

LEMMA CmdLoadedRole ==
    ASSUME IInv, RInv, NEW t \in Tasks, NEW o \in Objs, CmdLoaded(t, o)
    PROVE  RInv'
<1> DEFINE r == task[t]
           p == r.pid
           m == r.cmd
           D == r.read \cup {m}
           s == LoadPlayer(State, o, p, r.read)
           a == Execute(s, p, m)
           k == SetLastTick(s, p)
           c == Execute(k, p, m)
<1>1. /\ r \in Task /\ r.at = "load" /\ r.kind \in {"cmd", "admin"} /\ obj[o] = None
      /\ p \in Pids /\ m \in Cmds /\ executed' = executed \cup {m} /\ r.read \in SUBSET Cmds
  BY DEF IInv, TaskOK, CmdLoaded, Executed, Task
<1>2. IF r.kind = "admin" THEN AdminEnd(t, a, p, r)
      ELSE IF m \in Freezes THEN KickPlayer(t, c, p, r)
           ELSE Become(c) /\ Continue(t, Done)
  BY DEF CmdLoaded
<1>3. Turns(State, s, p, o, r.read) /\ Sound(s) /\ s.players[p] # None
      /\ (s.obj[s.players[p]].offline \/ s = State)
  BY <1>1, LoadPlayerTurns
<1>4. Own(t, o) /\ (\A q \in Pids : ~Leaves(r, q)) /\ Fits(t, {m})
  BY <1>1 DEF Own, Leaves, Fits, RInv, Pending, Waiting
<1>5. \A e \in D : Known(State, task, p, e) \/ e \in {m}
  BY <1>1 DEF Known, Brought
<1>6. {m} \subseteq D /\ r.read \subseteq D /\ Clean(State) /\ {} \subseteq r.read
  BY DEF RInv
<1>10. r.kind = "admin" => m \notin Freezes
  BY <1>1 DEF RInv, Pending, Waiting
<1> HIDE DEF s, a, k, c, D, m, p, r
<1>7. CASE r.kind = "admin"
  <2>1. /\ Role(s, a, p, o) /\ Adds(s, a, p, {m}) /\ (m \notin Freezes /\ Clean(s) => Clean(a))
        /\ a.players = s.players /\ a.tick = s.tick
        /\ a.obj[s.players[p]].link = s.obj[s.players[p]].link
        /\ a.obj[s.players[p]].offline = s.obj[s.players[p]].offline
    BY <1>1, <1>3, ExecuteTurns DEF a
  <2>2. Sound(a)
    BY <1>1, <1>3, ExecuteSound DEF a
  <2>3. Role(State, a, p, o) /\ Adds(State, a, p, D)
    BY <1>1, <1>3, <1>6, <2>1, RoleOn DEF Turns
  <2>4. Clean(a)
    BY <1>3, <1>6, <1>7, <1>10, <2>1 DEF Turns
  <2>5. a.obj[a.players[p]].offline \/ (Shown(State, p) => Shown(a, p))
    BY <1>1, <1>3, <2>1, OnlineWhere DEF Shown
  <2>6. a.players[p] # None
    BY <1>3, <2>1
  <2> QED
    BY <1>1, <1>2, <1>4, <1>5, <1>7, <2>2, <2>3, <2>4, <2>5, <2>6, AdminTurn DEF m, p, r
<1>8. CASE r.kind # "admin"
  <2>1. Turns(s, k, p, o, {}) /\ Shown(k, p) /\ Sound(k) /\ k.players = s.players
    BY <1>1, <1>3, TickTurns, TickSound DEF k
  <2>2. Turns(State, k, p, o, r.read)
    BY <1>1, <1>3, <2>1, TurnsTwice
  <2>9. k.players[p] # None
    BY <1>3, <2>1
  <2>3. /\ Role(k, c, p, o) /\ Adds(k, c, p, {m}) /\ (m \notin Freezes /\ Clean(k) => Clean(c))
        /\ c.players = k.players /\ c.tick = k.tick
        /\ c.obj[k.players[p]].link = k.obj[k.players[p]].link
        /\ \A e \in Objs : e # k.players[p] => c.obj[e] = k.obj[e]
    BY <1>1, <2>1, <2>9, ExecuteTurns DEF c
  <2>4. Sound(c)
    BY <1>1, <1>3, <2>1, ExecuteSound DEF c
  <2>5. Role(State, c, p, o) /\ Adds(State, c, p, D)
    BY <1>1, <1>6, <2>2, <2>3, RoleOn DEF Turns
  <2>6. Clean(k)
    BY <1>6, <2>2 DEF Turns
  <2>7. CASE m \in Freezes
    <3>1. KickPlayer(t, c, p, r)
      BY <1>2, <1>8, <2>7
    <3>2. \A e \in Objs : e # c.players[p] /\ Built(c, e) /\ c.obj[e].link # None =>
             ~Banned(c.obj[e].data)
      BY <2>3, <2>6 DEF Clean, Built
    <3>3. c.players[p] # None
      BY <1>3, <2>1, <2>3
    <3> QED
      BY <1>1, <1>4, <1>5, <2>4, <2>5, <3>1, <3>2, <3>3, KickTurn DEF m, p, r
  <2>8. CASE m \notin Freezes
    <3>1. Become(c) /\ Continue(t, Done) /\ Clean(c)
      BY <1>2, <1>8, <2>3, <2>6, <2>8
    <3>2. Shown(c, p)
      BY <1>1, <2>1, <2>3, OnlineWhere DEF Shown
    <3>3. Done.at = "done" /\ Done.cmd = None /\ ~Aside(Done)
      BY DoneIs DEF Aside
    <3> QED
      BY <1>1, <1>4, <1>5, <2>5, <3>1, <3>2, <3>3, TaskTurn DEF r
  <2> QED
    BY <2>7, <2>8
<1> QED
  BY <1>7, <1>8
-----------------------------------------------------------------------------
(* The exits.                                                              *)
LEMMA KickRole ==
    ASSUME IInv, RInv, NEW t \in Tasks, NEW p \in Pids, Kick(t, p)
    PROVE  RInv'
<1> DEFINE r == Start("kick", p)
<1>1. Sound(State) /\ State.players = players /\ Clean(State)
  BY DEF IInv, State, RInv
<1>2. /\ task[t].at = "idle" /\ executed' = executed \cup {} /\ players[p] # None
      /\ KickPlayer(t, State, p, r)
  BY DEF Kick, history
<1>3. r \in Task /\ r.pid = p /\ r.cmd = None
  BY DEF Start, IdleTask, Task, Kinds, Steps
<1> HIDE DEF r
<1>4. Role(State, State, p, None) /\ Adds(State, State, p, {})
  BY Idles DEF Turns
<1>5. Own(t, None) /\ (\A q \in Pids : ~Leaves(task[t], q)) /\ Fits(t, {})
  BY <1>2, NoneAssumption DEF Own, Leaves, Fits
<1>6. State.players[p] # None
  BY <1>1, <1>2
<1> QED
  BY <1>1, <1>2, <1>3, <1>4, <1>5, <1>6, KickTurn DEF Clean

LEMMA CloseOnlineRole ==
    ASSUME IInv, RInv, NEW t \in Tasks, NEW l \in Links, CloseOnline(t, l)
    PROVE  RInv'
<1> DEFINE p == linkPid[l]
           o == players[p]
           c == CloseLink(State, o)
           u == [c EXCEPT !.up = @ \ {l}]
           e == [Start("close", p) EXCEPT !.at = "logout", !.o = o]
<1>1. p \in Pids /\ Sound(State) /\ State.players = players
  BY DEF IInv, Sound, StateType, State, CloseOnline
<1>2. /\ task[t].at = "idle" /\ executed' = executed /\ Online(State, p)
      /\ Become(u) /\ Continue(t, e)
  BY DEF CloseOnline, history
<1>3. e.at = "logout" /\ e.pid = p /\ e.cmd = None
  BY DEF Start, IdleTask
<1> HIDE DEF p, c, u, e
<1>4. State.players[p] # None
  BY <1>2 DEF Online
<1>5. c = IF Online(State, p) THEN CloseLink(State, State.players[p]) ELSE State
  BY <1>1, <1>2 DEF c
<1>6. Turns(State, c, p, None, {}) /\ Sound(c)
  BY <1>1, <1>4, <1>5, CloseIfOnline
<1>7. /\ c \in StateType /\ u \in StateType /\ u.players = c.players /\ u.tick = c.tick
      /\ u.obj = c.obj /\ u.db = c.db
  BY <1>6 DEF u, Sound, StateType
<1>8. Turns(c, u, p, None, {})
  BY <1>1, <1>7, UpTurns
<1>9. Turns(State, u, p, None, {})
  BY <1>1, <1>6, <1>8, TurnsTwice
<1>10. /\ Own(t, None) /\ ~Aside(e) /\ Leaves(e, p) /\ \A q \in Pids : ~Leaves(task[t], q)
  BY <1>2, <1>3, NoneAssumption DEF Own, Aside, Leaves
<1> QED
  BY <1>1, <1>2, <1>3, <1>9, <1>10, QuietTurn

(* Nothing that matters here changes.                                      *)
LEMMA StillTurn ==
    ASSUME RInv, State'.players = State.players, State'.tick = State.tick,
           State'.obj = State.obj, State'.db = State.db, task' = task, executed' = executed
    PROVE  RInv'
<1>1. \A o \in Objs : Built(State', o) <=> Built(State, o)
  BY DEF Built
<1>2. Clean(State')
  BY <1>1 DEF RInv, Clean
<1>3. \A p \in Pids, m \in Cmds : Known(State', task', p, m) <=> Known(State, task, p, m)
  BY <1>1 DEF Known, Holds
<1>4. Homes'
  BY <1>3 DEF RInv, Homes
<1>5. Pending'
  BY DEF RInv, Pending
<1>6. Covered'
  BY DEF RInv, Covered, Shown, Online
<1>7. Kept'
  BY DEF RInv, Kept, Loose
<1> QED
  BY <1>2, <1>4, <1>5, <1>6, <1>7 DEF RInv

LEMMA CloseIdleRole ==
    ASSUME IInv, RInv, NEW l \in Links, CloseIdle(l)
    PROVE  RInv'
<1> DEFINE u == [State EXCEPT !.up = @ \ {l}]
<1>1. Become(u) /\ task' = task /\ executed' = executed
  BY DEF CloseIdle, history
<1>2. /\ u \in StateType /\ u.players = State.players /\ u.tick = State.tick
      /\ u.obj = State.obj /\ u.db = State.db
  BY DEF IInv, Sound, StateType
<1> HIDE DEF u
<1>3. State' = u
  BY <1>1, <1>2, Becomes
<1> QED
  BY <1>1, <1>2, <1>3, StillTurn

LEMMA OvertickRole ==
    ASSUME IInv, RInv, NEW p \in Pids, Overtick(p)
    PROVE  RInv'
<1> DEFINE u == [State EXCEPT !.tick[p] = "old"]
<1>1. Become(u) /\ task' = task /\ executed' = executed \cup {} /\ State \in StateType
  BY DEF Overtick, IInv, Sound, history
<1>2. /\ u \in StateType /\ u.players = State.players /\ u.obj = State.obj /\ u.db = State.db
      /\ u.tick = [State.tick EXCEPT ![p] = "old"]
  BY <1>1 DEF StateType
<1> HIDE DEF u, State
<1>3. u.tick[p] = "old" /\ \A q \in Pids : q # p => u.tick[q] = State.tick[q]
  BY <1>1, <1>2 DEF StateType
<1>4. Turns(State, u, p, None, {})
  BY <1>1, <1>2, <1>3, WritesNone DEF Holds
<1>5. Shown(u, p)
  BY <1>3, NoneAssumption DEF Shown
<1> QED
  BY <1>1, <1>4, <1>5, EventTurn

LEMMA AutosaveRole ==
    ASSUME IInv, RInv, NEW o \in Objs, Autosave(o)
    PROVE  RInv'
<1> DEFINE u == NowSave(State, o)
           p == obj[o].pid
<1>1. Become(u) /\ task' = task /\ executed' = executed \cup {} /\ Sound(State) /\ p \in Pids
  BY DEF Autosave, IInv, Sound, State, Built, history
<1> HIDE DEF u, p
<1>2. Turns(State, u, p, None, {}) /\ u.players = State.players /\ u.obj = State.obj
      /\ u.tick = State.tick
  BY <1>1, SaveTurns DEF u
<1>3. Shown(State, p) => Shown(u, p)
  BY <1>2 DEF Shown, Online
<1> QED
  BY <1>1, <1>2, <1>3, EventTurn

LEMMA ExitGameRole ==
    ASSUME IInv, RInv, NEW t \in Tasks, ExitGame(t)
    PROVE  RInv'
<1> DEFINE r == task[t]
           p == r.pid
           s == [State EXCEPT !.tick[p] = None]
           u == [s EXCEPT !.obj[r.o].force = FALSE]
           v == [State EXCEPT !.tick[p] = None, !.obj[r.o].force = FALSE]
           k == SetLastTick(State, p)
<1>1. /\ r \in Task /\ r.at = "logout" /\ r.kind \in {"kick", "close"} /\ Built(State, r.o)
      /\ p \in Pids /\ executed' = executed
  BY DEF IInv, TaskOK, ExitGame, history
<1>2. Sound(State) /\ State.players = players /\ State \in StateType /\ Clean(State)
  BY DEF IInv, State, RInv, Sound
<1>3. \/ players[p] = None /\ Become(v) /\ Continue(t, Done)
      \/ players[p] # None /\ BeginDel(t, State, p, r)
      \/ Become(k) /\ Continue(t, Done)
  BY DEF ExitGame
<1>4. Own(t, None) /\ \A q \in Pids : Leaves(r, q) => q = p
  BY NoneAssumption DEF Own, Leaves
<1>5. Done.at = "done" /\ Done.cmd = None /\ ~Aside(Done)
  BY DoneIs DEF Aside
<1> HIDE DEF s, u, v, k, p, State
<1>6. CASE players[p] = None /\ Become(v) /\ Continue(t, Done)
  <2>1. /\ s \in StateType /\ s.players = State.players /\ s.obj = State.obj
        /\ s.db = State.db /\ s.tick = [State.tick EXCEPT ![p] = None]
    BY <1>1, <1>2 DEF s, StateType
  <2>2. Turns(State, s, p, None, {})
    BY <1>1, <1>2, <2>1, WritesNone DEF Holds, StateType
  <2>3. Built(s, r.o) /\ r.o \in Objs
    BY <1>1, <2>1 DEF Built
  <2>4. Turns(s, u, p, None, {}) /\ u.players = s.players
    BY <1>1, <2>1, <2>3, ForceTurns DEF u
  <2>5. v = u
    BY <1>1, <1>2 DEF v, u, s, StateType
  <2>6. Turns(State, v, p, None, {}) /\ Shown(v, p)
    BY <1>1, <1>2, <1>6, <2>1, <2>2, <2>4, <2>5, TurnsTwice DEF Shown
  <2> QED
    BY <1>1, <1>4, <1>5, <1>6, <2>6, QuietTurn
<1>7. CASE players[p] # None /\ BeginDel(t, State, p, r)
  <2>1. Role(State, State, p, None) /\ Adds(State, State, p, {})
    BY <1>1, Idles DEF Turns
  <2>2. executed' = executed \cup {} /\ Fits(t, {}) /\ State.players[p] # None /\ r.pid = p
    BY <1>1, <1>2, <1>7 DEF Fits, p
  <2> QED
    BY <1>1, <1>2, <1>4, <1>7, <2>1, <2>2, DelTurn
<1>8. CASE Become(k) /\ Continue(t, Done)
  <2>1. Turns(State, k, p, None, {}) /\ Shown(k, p)
    BY <1>1, <1>2, TickTurns DEF k
  <2> QED
    BY <1>1, <1>4, <1>5, <1>8, <2>1, QuietTurn
<1> QED
  BY <1>3, <1>6, <1>7, <1>8

(* onMinute forgets the ticks of several roles, but none that needs one.   *)
LEMMA VisitEnds ==
    ASSUME IInv, RInv, NEW t \in Tasks, NEW e, NEW v \in StateType, Become(v), Continue(t, e),
           NEW p \in Pids, Bounded(State, v, p, None),
           \A q \in Pids, m \in Cmds : Holds(v, q, m) => Holds(State, q, m),
           v.obj = State.obj,
           \A q \in Pids : Shown(State, q) => Shown(v, q),
           \A q \in Pids : Leaves(task[t], q) => q = p /\ Shown(v, p),
           executed' = executed, e.at \in {"done", "save"}, ~Aside(e),
           e.cmd \in {None, task[t].cmd}
    PROVE  RInv'
<1>1. Others(t) /\ task'[t] = e /\ State' = v /\ Own(t, None)
  BY Continued, Becomes, NoneAssumption DEF Own
<1>2. ~Waiting(e) /\ \A q \in Pids, m \in Cmds : ~Brought(e, q, m)
  BY DEF Waiting, Brought
<1>3. Clean(v)
  BY DEF RInv, Clean, Built
<1>4. Homes'
  <2>1. Adds(State, v, p, {})
    BY DEF Adds
  <2>2. \A u \in Tasks, q \in Pids, m \in Cmds :
           Brought(task'[u], q, m) => Known(State, task, q, m)
    BY <1>1, <1>2 DEF Others, Known
  <2> QED
    BY <1>1, <2>1, <2>2, HomesKept DEF RInv
<1>5. Pending'
  <2>1. \A u \in Tasks : Waiting(task[u]) => task[u].cmd # None /\ task[u].cmd \notin executed'
    BY NoneAssumption DEF IInv, TaskOK, Waiting, RInv, Pending
  <2>2. \A u \in Tasks : u # t /\ Waiting(task[u]) => e.cmd # task[u].cmd
    BY <2>1 DEF RInv, Pending
  <2> QED
    BY <1>1, <1>2, <2>1, <2>2, PendingKept DEF RInv
<1>6. Covered'
  <2>1. \/ Shown(v, p)
        \/ ~Leaves(task[t], p) /\ (Shown(State, p) => Shown(v, p))
    OBVIOUS
  <2>2. /\ \A q \in Pids : q # p /\ Shown(State, q) => Shown(v, q)
        /\ \A q \in Pids : Leaves(task[t], q) => q = p
    OBVIOUS
  <2> QED
    BY <1>1, <2>1, <2>2, CoveredKept DEF RInv
<1>7. Kept'
  BY <1>1, KeptKept DEF RInv
<1> QED
  BY <1>1, <1>3, <1>4, <1>5, <1>6, <1>7 DEF RInv

LEMMA VisitTurn ==
    ASSUME IInv, RInv, NEW t \in Tasks, NEW s, NEW r \in Task, NEW todo \in SUBSET Pids,
           Visit(t, s, r, todo), Sound(s), r.kind = "minute",
           r.cmd \in {None, task[t].cmd},
           NEW p \in Pids, Bounded(State, s, p, None), s.obj = State.obj, s.db = State.db,
           \A q \in Pids : Shown(State, q) => Shown(s, q),
           \A q \in Pids : Leaves(task[t], q) => q = p /\ Shown(s, p),
           executed' = executed
    PROVE  RInv'
<1> DEFINE Tick(set) == [q \in Pids |-> IF q \in set THEN None ELSE s.tick[q]]
           Rest(set) == [s EXCEPT !.tick = Tick(set)]
           Then(i, set) == [r EXCEPT !.pid = i, !.todo = todo \ (set \cup {i})]
<1>1. PICK skip \in SUBSET {q \in todo : ~(s.players[q] # None /\ ~Online(s, q))} :
         \/ Become(Rest(skip)) /\ Continue(t, Done)
         \/ \E q \in todo \ skip :
               s.players[q] # None /\ BeginDel(t, Rest(skip), q, Then(q, skip))
  BY DEF Visit
<1> DEFINE u == Rest(skip)
<1>2. s \in StateType
  BY DEF Sound
<1>3. /\ u \in StateType /\ u.players = s.players /\ u.obj = s.obj /\ u.saved = s.saved
      /\ u.db = s.db /\ u.failed = s.failed /\ u.tick = Tick(skip)
  BY <1>2 DEF StateType
<1>4. \A q \in Pids : Shown(s, q) => Shown(u, q)
  <2> SUFFICES ASSUME NEW q \in Pids, Shown(s, q) PROVE Shown(u, q)
    OBVIOUS
  <2> HIDE DEF u
  <2>1. q \in skip => s.players[q] = None \/ Online(s, q)
    OBVIOUS
  <2>2. q \notin skip => u.tick[q] = s.tick[q]
    BY <1>3
  <2> QED
    BY <1>3, <2>1, <2>2 DEF Shown, Online
<1>5. \/ Become(u) /\ Continue(t, Done)
      \/ \E q \in todo \ skip : s.players[q] # None /\ BeginDel(t, u, q, Then(q, skip))
  BY <1>1
<1> HIDE DEF u
<1>6. Bounded(State, u, p, None) /\ \A q \in Pids, m \in Cmds : Holds(u, q, m) => Holds(State, q, m)
  BY <1>3 DEF Bounded, Same, Built, Holds
<1>7. CASE Become(u) /\ Continue(t, Done)
  <2>1. Done.at = "done" /\ Done.cmd = None /\ ~Aside(Done)
    BY DoneIs DEF Aside
  <2> QED
    BY <1>3, <1>4, <1>6, <1>7, <2>1, VisitEnds
<1>8. ASSUME NEW q \in todo \ skip, s.players[q] # None, BeginDel(t, u, q, Then(q, skip))
      PROVE  RInv'
  <2> DEFINE then == Then(q, skip)
  <2>1. then \in Task /\ then.kind = "minute" /\ then.cmd = r.cmd
    BY <1>8 DEF Task
  <2>2. BeginDel(t, u, q, then) /\ u.players[q] # None /\ q \in Pids
    BY <1>3, <1>8
  <2>3. Sound(u)
    BY <1>3, OtherSound DEF Sound
  <2> HIDE DEF then
  <2>4. PICK v, e : Begun(t, u, then, q, None, v, e)
    BY <2>1, <2>2, <2>3, BegunTurn, ZenonT(60)
  <2>5. e.at = "save" /\ e.kind = "minute" /\ e.cmd = r.cmd
    BY <2>1, <2>4 DEF Begun
  <2>6. v \in StateType /\ \A i \in Pids, m \in Cmds : Holds(v, i, m) => Holds(State, i, m)
    BY <1>6, <2>4 DEF Begun, Turns, Role, Adds
  <2>7. Bounded(State, v, p, None)
    BY <1>3, <1>6, <2>4 DEF Begun, Bounded, Same, Built
  <2>8. \A i \in Pids : Shown(u, i) => Shown(v, i)
    BY <2>4 DEF Begun, Shown, Online
  <2>9. ~Aside(e)
    BY <2>5 DEF Aside
  <2>10. \A i \in Pids : Shown(State, i) => Shown(v, i)
    BY <1>4, <2>8
  <2>11. \A i \in Pids : Leaves(task[t], i) => i = p /\ Shown(v, p)
    BY <1>4, <2>8
  <2> QED
    BY <1>3, <2>4, <2>5, <2>6, <2>7, <2>9, <2>10, <2>11, VisitEnds DEF Begun
<1> QED
  BY <1>5, <1>7, <1>8

LEMMA MinuteRole ==
    ASSUME IInv, RInv, NEW t \in Tasks, Minute(t)
    PROVE  RInv'
<1> DEFINE r == Start("minute", None)
           over == {p \in Pids : lastTick[p] = "old"}
<1>1. /\ Visit(t, State, r, over) /\ executed' = executed /\ over \in SUBSET Pids
      /\ task[t].at = "idle"
  BY DEF Minute, history
<1>2. PICK p \in Pids : p \in over
  BY DEF Minute
<1>3. r \in Task /\ r.kind = "minute" /\ r.cmd = None
  BY DEF Start, IdleTask, Task, Kinds, Steps
<1> HIDE DEF r, over
<1>4. Bounded(State, State, p, None) /\ Sound(State)
  BY Idles, RoleBounded DEF Turns, IInv
<1>5. \A q \in Pids : ~Leaves(task[t], q)
  BY <1>1 DEF Leaves
<1> QED
  BY <1>1, <1>3, <1>4, <1>5, VisitTurn

LEMMA SavedRole ==
    ASSUME IInv, RInv, NEW t \in Tasks, Saved(t)
    PROVE  RInv'
<1> DEFINE r == task[t]
           p == r.pid
           s == DelPlayer(State, p, r.del)
           a == AddPlayer(s, r.o)
           u == [s EXCEPT !.obj[r.o].force = FALSE]
           e == [r EXCEPT !.at = "login", !.del = None, !.missed = FALSE]
<1>1. /\ r \in Task /\ r.at = "save" /\ p \in Pids /\ executed' = executed
      /\ Built(State, r.del) /\ State.obj[r.del].pid = p
      /\ r.kind \in {"enter", "kick", "close", "admin", "minute"}
      /\ r.kind \in {"kick", "close"} => Built(State, r.o)
      /\ r.kind = "enter" => Built(State, r.o) /\ State.obj[r.o].pid = p
  BY DEF IInv, TaskOK, Saved
<1>2. Sound(State) /\ State.obj = obj
  BY DEF IInv, State
<1>3. /\ r.kind = "enter" => Become(a) /\ Continue(t, e)
      /\ r.kind \in {"kick", "close"} => Become(u) /\ Continue(t, Done)
      /\ r.kind = "admin" => Become(s) /\ Continue(t, Done)
      /\ r.kind = "minute" => Visit(t, s, r, r.todo)
  BY <1>1 DEF Saved
<1>4. Own(t, None) /\ \A q \in Pids : Leaves(r, q) => q = p
  BY NoneAssumption DEF Own, Leaves
<1>5. Done.at = "done" /\ Done.cmd = None /\ ~Aside(Done)
  BY DoneIs DEF Aside
<1>6. r.del \in Objs
  BY <1>1 DEF Built
<1>7. e.at = "login" /\ e.cmd = r.cmd /\ ~Aside(e)
  BY <1>1 DEF Task, Aside
<1> HIDE DEF s, a, u, e, p
<1>8. \A x : Turns(State, s, p, x, {})
  BY <1>1, <1>2, <1>6, DelTurns DEF s
<1>9. /\ s.players[p] = None /\ s.obj = State.obj
      /\ \A q \in Pids : q # p => s.players[q] = State.players[q] /\ s.tick[q] = State.tick[q]
  <2>1. /\ Turns(State, s, p, None, {}) /\ s.players[p] = None /\ s.obj = State.obj
        /\ \A q \in Pids : q # p => s.players[q] = State.players[q] /\ s.tick[q] = State.tick[q]
    BY <1>1, <1>2, <1>6, DelTurns DEF s
  <2> QED
    BY <2>1
<1>10. Sound(s) /\ s.db = State.db
  <2>1. s = DelPlayer(State, State.obj[r.del].pid, r.del)
    BY <1>1 DEF s
  <2>2. State.db = db
    BY DEF State
  <2> QED
    BY <1>1, <1>2, <1>6, <2>1, DelSound
<1>11. Shown(s, p)
  BY <1>9 DEF Shown
<1>12. CASE r.kind = "enter"
  <2>1. r.o \in Objs /\ Built(s, r.o) /\ s.obj[r.o].pid = p
    BY <1>1, <1>9, <1>12 DEF Built
  <2>2. Turns(s, a, p, r.o, {}) /\ a.players[p] = r.o /\ a.obj[r.o].link = s.obj[r.o].link
    BY <1>1, <1>9, <1>10, <2>1, AddTurns DEF a
  <2>3. Turns(State, a, p, r.o, {})
    BY <1>1, <1>8, <2>2, TurnsTwice
  <2>4. Own(t, r.o) /\ State.obj[r.o].link # None
    BY <1>1, <1>12 DEF Own, Aside, RInv, Kept
  <2>5. Shown(a, p)
    BY <1>1, <1>9, <2>1, <2>2, <2>4, NoneAssumption DEF Shown, Online
  <2> QED
    BY <1>1, <1>3, <1>4, <1>7, <1>12, <2>1, <2>3, <2>4, <2>5, QuietTurn
<1>13. CASE r.kind \in {"kick", "close"}
  <2>1. Built(s, r.o) /\ r.o \in Objs /\ s \in StateType
    BY <1>1, <1>9, <1>10, <1>13 DEF Built, Sound
  <2>2. Turns(s, u, p, None, {}) /\ u.players = s.players
    BY <1>1, <2>1, ForceTurns DEF u
  <2>3. Turns(State, u, p, None, {}) /\ Shown(u, p)
    BY <1>1, <1>8, <1>9, <2>2, TurnsTwice DEF Shown
  <2> QED
    BY <1>1, <1>3, <1>4, <1>5, <1>13, <2>3, QuietTurn
<1>14. CASE r.kind = "admin"
  BY <1>1, <1>3, <1>4, <1>5, <1>8, <1>11, <1>14, QuietTurn
<1>15. CASE r.kind = "minute"
  <2>1. Bounded(State, s, p, None)
    BY <1>8, <1>1, RoleBounded DEF Turns
  <2>2. \A q \in Pids : Shown(State, q) => Shown(s, q)
    BY <1>9, <1>11 DEF Shown, Online
  <2>3. r.todo \in SUBSET Pids
    BY <1>1 DEF Task
  <2> QED
    BY <1>1, <1>3, <1>4, <1>9, <1>10, <1>11, <1>15, <2>1, <2>2, <2>3, VisitTurn
<1> QED
  BY <1>1, <1>12, <1>13, <1>14, <1>15
-----------------------------------------------------------------------------
LEMMA InitRole == Init => RInv
<1> SUFFICES ASSUME Init PROVE RInv
  OBVIOUS
<1>1. \A t \in Tasks : task[t].at = "idle"
  BY DEF Init, IdleTask
<1>2. /\ State.players = [p \in Pids |-> None] /\ State.obj = [o \in Objs |-> None]
      /\ State.db = [p \in Pids |-> {}]
  BY DEF Init, State
<1>3. \A p \in Pids, m \in Cmds : ~Known(State, task, p, m)
  BY <1>1, <1>2 DEF Known, Holds, Brought, Built
<1>4. Clean(State)
  BY <1>2 DEF Clean, Built
<1> QED
  BY <1>1, <1>2, <1>3, <1>4 DEF RInv, Homes, Pending, Waiting, Covered, Shown, Kept, Aside

LEMMA NextRole ==
    ASSUME IInv, RInv, [Next]_vars
    PROVE  RInv'
<1>1. CASE UNCHANGED vars
  <2>1. UNCHANGED <<objVars, asserts, task, executed>>
    BY <1>1 DEF vars, ghosts, history
  <2>2. State' = State
    BY <2>1 DEF State, objVars
  <2> QED
    BY <2>1, <2>2, StillTurn
<1>2. CASE Event
  <2>1. ASSUME NEW l \in Links, CloseIdle(l) \/ \E m \in Cmds : ClientCmd(l, m)
        PROVE  RInv'
    BY <2>1, CloseIdleRole, ClientCmdRole
  <2>2. ASSUME NEW p \in Pids, Overtick(p) \/ \E m \in Cmds : DoPlayerCmd(p, m)
        PROVE  RInv'
    BY <2>2, OvertickRole, DoPlayerCmdRole
  <2>3. ASSUME NEW o \in Objs, Autosave(o) PROVE RInv'
    BY <2>3, AutosaveRole
  <2>4. ASSUME NEW t \in Tasks, Minute(t) \/ \E l \in Links : CloseOnline(t, l)
        PROVE  RInv'
    BY <2>4, MinuteRole, CloseOnlineRole
  <2>5. ASSUME NEW t \in Tasks, NEW p \in Pids,
               \/ \E l \in Links : EnterGame(t, l, p)
               \/ \E m \in Cmds : AdminCmd(t, p, m) \/ Freeze(t, p, m)
               \/ \E m \in Cmds, kind \in {"cmd", "admin"} : LoadForCmd(t, kind, p, m)
               \/ Kick(t, p)
        PROVE  RInv'
    BY <2>5, EnterGameRole, AdminCmdRole, FreezeRole, LoadForCmdRole, KickRole
  <2> QED
    BY <1>2, <2>1, <2>2, <2>3, <2>4, <2>5 DEF Event
<1>3. ASSUME NEW t \in Tasks, Resume(t) PROVE RInv'
  <2>1. CASE EnterRefused(t) \/ EnterFinish(t) \/ EnterLoadRefused(t) \/ CmdLoadRefused(t)
    BY <2>1, EndsRole
  <2>2. CASE EnterReplace(t) \/ EnterRecover(t) \/ EnterRouted(t) \/ LoadLocked(t)
    BY <2>2, EnterReplaceRole, EnterRecoverRole, EnterRoutedRole, LoadLockedRole
  <2>3. ASSUME NEW o \in Objs, EnterLoaded(t, o) \/ CmdLoaded(t, o) PROVE RInv'
    BY <2>3, EnterLoadedRole, CmdLoadedRole
  <2>4. CASE ExitGame(t) \/ Saved(t)
    BY <2>4, ExitGameRole, SavedRole
  <2> QED
    BY <1>3, <2>1, <2>2, <2>3, <2>4 DEF Resume
<1> QED
  BY <1>1, <1>2, <1>3 DEF Next

(* The inductive invariant about the roles, on top of the one of           *)
(* PlayerMgrProofs.                                                        *)
THEOREM RolesInvariant == Spec => [](IInv /\ DInv /\ RInv)
<1>1. Init => RInv
  BY InitRole
<1>2. IInv /\ RInv /\ [Next]_vars => RInv'
  BY NextRole
<1> QED
  BY <1>1, <1>2, Invariance, PTL DEF Spec

(* A role that was frozen while nobody loaded or unloaded it is never      *)
(* online again: kick closes the link at once, and the three logins        *)
(* (EnterReplace, EnterLoaded, and one already under way) find the ban in  *)
(* the object they work on, because no object and no answer of findOne is  *)
(* without a command that counts (DInv).                                   *)
THEOREM FrozenRolesStayOut == Spec => []FrozenStaysOut
<1>1. IInv /\ DInv /\ RInv => FrozenStaysOut
  <2> SUFFICES ASSUME IInv, DInv, RInv, NEW m \in (executed \cap Freezes) \ atRisk,
                      NEW p \in Pids, Online(State, p), m \in db[p] \cup obj[players[p]].data
               PROVE  FALSE
    BY DEF FrozenStaysOut
  <2> DEFINE o == players[p]
  <2>1. State.players = players /\ State.obj = obj /\ State.db = db /\ State.saved = autosaved
    BY DEF State
  <2>2. Built(State, o) /\ o \in autosaved /\ obj[o].pid = p /\ obj[o].link # None /\ m \in Cmds
    BY <2>1 DEF IInv, Sound, Registry, Online
  <2>3. m \notin obj[o].data
    BY <2>1, <2>2 DEF RInv, Clean, Banned, Built
  <2>4. Known(State, task, p, m)
    BY <2>1, <2>3 DEF Known, Holds
  <2>5. PICK q \in Pids : Safe(State, task, q, m)
    BY DEF DInv
  <2>6. Known(State, task, q, m)
    <3>1. CASE m \in State.db[q]
      BY <3>1 DEF Known, Holds
    <3>2. CASE State.players[q] # None /\ m \in State.obj[State.players[q]].data
      BY <3>2 DEF Known, Holds, IInv, Sound, Registry, Built
    <3> QED
      BY <2>5, <3>1, <3>2 DEF Safe
  <2>7. q = p
    BY <2>2, <2>4, <2>6 DEF RInv, Homes
  <2>8. m \in obj[o].data
    BY <2>1, <2>2, <2>5, <2>7 DEF Safe, Held
  <2> QED
    BY <2>3, <2>8
<1> QED
  BY <1>1, RolesInvariant, PTL

(* A loaded role without a connection is on its way out, so onMinute finds *)
(* it or its own exit unloads it.                                          *)
THEOREM NoPlayerIsForgotten == Spec => []NoForgottenPlayer
<1>1. RInv => NoForgottenPlayer
  <2> SUFFICES ASSUME RInv, NEW p \in Pids, players[p] # None, ~Online(State, p),
                      lastTick[p] = None
               PROVE  \E t \in Tasks : task[t].pid = p /\ task[t].at \notin {"idle", "done"}
    BY DEF NoForgottenPlayer
  <2>1. ~Shown(State, p)
    BY DEF Shown, State
  <2>2. PICK t \in Tasks : Leaves(task[t], p)
    BY <2>1 DEF RInv, Covered
  <2> QED
    BY <2>2 DEF Leaves
<1> QED
  BY <1>1, RolesInvariant, PTL
=============================================================================
