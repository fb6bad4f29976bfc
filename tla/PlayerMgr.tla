----------------------------- MODULE PlayerMgr -----------------------------
(***************************************************************************)
(* The life of the player objects of one game server: cplayermgr           *)
(* (app/game/player/playermgr/playermgr.lua), the login and link handlers  *)
(* (app/game/client/login.lua, client.lua), the exit of a player           *)
(* (app/game/player/player.lua), the commands other services send          *)
(* (app/game/cluster/api.lua) and the saving of players (savemgr.lua).     *)
(*                                                                         *)
(* A handler is a task: it runs until it calls another service and resumes *)
(* when the answer comes, so one action is the code between two such       *)
(* yields.  The calls that yield are the check of the token, findOne and   *)
(* update of the database, and the services onlogin and onlogout talk to.  *)
(* The messages of a game service to its database are served in order, so  *)
(* a save is effective, and a load has read its value, at the step that    *)
(* sends the request; what the task does with the answer comes later.      *)
(*                                                                         *)
(* A player's content is the set of the commands that were executed on it, *)
(* which is what a save writes and a load reads back.                      *)
(***************************************************************************)
EXTENDS Naturals, Sequences, FiniteSets

CONSTANTS
    Pids,     \* players
    Links,    \* connections of clients, each used once
    Cmds,     \* commands, each executed at most once
    Freezes,  \* the commands that are freezePlayer, which bans the role
    Tasks,    \* handlers that yield, each run once
    Objs,     \* identities of player objects, each built once
    OpenKuafu, \* the setting open_kuafu == "1": players may roam to other servers
    None      \* Lua's nil

ASSUME FreezesAssumption == Freezes \subseteq Cmds
(* nil is none of the others. *)
ASSUME NoneAssumption ==
    None \notin Pids \cup Links \cup Cmds \cup Tasks \cup Objs \cup {"recent", "old"}

VARIABLES
    players,     \* cplayermgr.players : pid -> object or nil
    lastTick,    \* cplayermgr.last_tick : nil, "recent" or, past overtick, "old"
    obj,         \* the player objects
    autosaved,   \* the objects registered with csavemgr
    db,          \* the player collection of mongodb
    linkUp,      \* the connections that can deliver messages
    linkPid,     \* linkobj.pid
    task,        \* the running handlers
    enterQueue,  \* the lock "EnterGame.<pid>": its holder, then the waiters
    loadQueue,   \* the lock "player.<pid>": its holder, then the waiters
    asserts,     \* the assertions of the code that have failed
    executed,    \* commands executed on some player object
    atRisk,      \* those that may be lost: see Durable
    split        \* players of which delplayer removed an object nobody had saved

objVars == <<players, lastTick, obj, autosaved, db, linkUp, linkPid>>
history == <<executed, atRisk, split>>
ghosts == <<asserts, history>>
vars == <<objVars, task, enterQueue, loadQueue, ghosts>>

Kinds == {"enter", "cmd", "admin", "kick", "close", "minute"}
Steps == {"idle", "token", "route", "loadwait", "load", "login", "logout", "save",
          "done"}

Player == [pid : Pids, data : SUBSET Cmds, link : Links \cup {None},
           offline : BOOLEAN, force : BOOLEAN]
ASSUME NoPlayerAssumption == None \notin Player

(* The locals of a handler: o is the player it works on, del the player    *)
(* that delplayer is removing, missed that its save has failed, read what  *)
(* findOne has returned, todo the pids that onMinute still has to visit.   *)
Task == [kind : Kinds \cup {None}, at : Steps, pid : Pids \cup {None},
         link : Links \cup {None}, cmd : Cmds \cup {None},
         o : Objs \cup {None}, del : Objs \cup {None}, missed : BOOLEAN,
         read : SUBSET Cmds, todo : SUBSET Pids]

TypeOK ==
    /\ players \in [Pids -> Objs \cup {None}]
    /\ lastTick \in [Pids -> {None, "recent", "old"}]
    /\ obj \in [Objs -> Player \cup {None}]
    /\ autosaved \in SUBSET Objs
    /\ db \in [Pids -> SUBSET Cmds]
    /\ linkUp \in SUBSET Links
    /\ linkPid \in [Links -> Pids \cup {None}]
    /\ task \in [Tasks -> Task]
    /\ enterQueue \in [Pids -> Seq(Tasks)]
    /\ loadQueue \in [Pids -> Seq(Tasks)]
    /\ asserts \in SUBSET {"filter", "add", "recover"}
    /\ executed \in SUBSET Cmds
    /\ atRisk \in SUBSET executed
    /\ split \in SUBSET Pids

IdleTask == [kind |-> None, at |-> "idle", pid |-> None, link |-> None,
             cmd |-> None, o |-> None, del |-> None, missed |-> FALSE, read |-> {},
             todo |-> {}]

Init ==
    /\ players = [p \in Pids |-> None]
    /\ lastTick = [p \in Pids |-> None]
    /\ obj = [o \in Objs |-> None]
    /\ autosaved = {}
    /\ db = [p \in Pids |-> {}]
    /\ linkUp = Links
    /\ linkPid = [l \in Links |-> None]
    /\ task = [t \in Tasks |-> IdleTask]
    /\ enterQueue = [p \in Pids |-> <<>>]
    /\ loadQueue = [p \in Pids |-> <<>>]
    /\ asserts = {}
    /\ executed = {}
    /\ atRisk = {}
    /\ split = {}

-----------------------------------------------------------------------------
(* The state a handler changes, as a record, so that the pieces of a       *)
(* handler between two yields compose.                                     *)
State == [players |-> players, tick |-> lastTick, obj |-> obj,
          saved |-> autosaved, db |-> db, up |-> linkUp, lpid |-> linkPid,
          failed |-> asserts]

Become(s) ==
    /\ players' = s.players
    /\ lastTick' = s.tick
    /\ obj' = s.obj
    /\ autosaved' = s.saved
    /\ db' = s.db
    /\ linkUp' = s.up
    /\ linkPid' = s.lpid
    /\ asserts' = s.failed

(* getonlineplayer and isdisconnect.  The flag linkobj.disconnecting is    *)
(* set and the link unbound without a yield, so it is never seen set.      *)
Online(s, p) ==
    p \in Pids /\ s.players[p] # None /\ s.obj[s.players[p]].link # None

(* Faulty variants of the helpers below are named after the slip, e.g.     *)
(* SetLastTick_LoadedOnly; the properties must tell them apart.            *)
SetLastTick_LoadedOnly(s, p) ==
    [s EXCEPT !.tick[p] =
        IF s.players[p] # None /\ ~Online(s, p) /\ s.obj[s.players[p]].offline
        THEN "recent" ELSE None]

(* setplayerlasttick *)
SetLastTick(s, p) ==
    [s EXCEPT !.tick[p] =
        IF s.players[p] # None /\ ~Online(s, p) THEN "recent" ELSE None]

(* _loadplayer with the answer of findOne: a new object.                   *)
NewPlayer(s, o, p, data) ==
    [s EXCEPT !.obj[o] = [pid |-> p, data |-> data, link |-> None,
                          offline |-> FALSE, force |-> FALSE]]

(* save_to_db: what is written is the content at this moment.  Its flag    *)
(* no_save_to_db is set nowhere, and checkSaveData always says yes; the    *)
(* components it leaves out for their form are not modelled.               *)
SaveToDb(s, o) == [s EXCEPT !.db[s.obj[o].pid] = s.obj[o].data]

(* csavemgr: an object on autosave is written by nowsave and by the timer, *)
(* until closesave.                                                        *)
StartAutosave(s, o) == [s EXCEPT !.saved = @ \cup {o}]

NowSave(s, o) == IF o \in s.saved THEN SaveToDb(s, o) ELSE s

CloseSave(s, o) == [s EXCEPT !.saved = @ \ {o}]

(* addplayer: register the object and put it on autosave; the container    *)
(* asserts that the pid is free.                                           *)
AddPlayer(s, o) ==
    LET p == s.obj[o].pid IN
    IF s.players[p] # None
    THEN [s EXCEPT !.failed = @ \cup {"add"}]
    ELSE StartAutosave([s EXCEPT !.players[p] = o,
                                 !.obj[o].offline = (s.obj[o].link = None)], o)

BindLink_StoresObject(s, o, l) ==
    [s EXCEPT !.lpid[l] = o, !.obj[o].link = l, !.obj[o].offline = FALSE]

(* bind_linkobj *)
Unbind(s, o) ==
    [s EXCEPT !.lpid[s.obj[o].link] = None, !.obj[o].link = None]

BindLink(s, o, l) ==
    LET u == IF s.obj[o].link = None THEN s ELSE Unbind(s, o) IN
    [u EXCEPT !.lpid[l] = s.obj[o].pid, !.obj[o].link = l, !.obj[o].offline = FALSE]

(* disconnect up to the exit of the player: unbind the link and close it.  *)
CloseLink(s, o) ==
    [Unbind(s, o) EXCEPT !.up = @ \ {s.obj[o].link}]

(* The second half of delplayer, after nowsave has returned: closesave     *)
(* takes the saved object off autosave, players:del(pid) removes whatever  *)
(* the pid now stands for.                                                 *)
DelPlayer(s, p, o) ==
    [CloseSave(s, o) EXCEPT !.players[p] = None, !.tick[p] = None]
-----------------------------------------------------------------------------
(* Tasks and the two locks.                                                *)

Continue(t, r) == task' = [task EXCEPT ![t] = r]

Done == [IdleTask EXCEPT !.at = "done"]

Start(kind, p) ==
    [IdleTask EXCEPT !.kind = kind, !.pid = p]

(* recoverplayer of a player that is not loaded: take the lock             *)
(* "player.<pid>" and, holding it, send findOne.                           *)
Recover(t, r) ==
    LET q == loadQueue[r.pid] IN
    /\ loadQueue' = [loadQueue EXCEPT ![r.pid] = Append(q, t)]
    /\ Continue(t, IF q = <<>> THEN [r EXCEPT !.at = "load", !.read = db[r.pid]]
                              ELSE [r EXCEPT !.at = "loadwait"])

(* A waiter gets the lock "player.<pid>" and sends findOne.                *)
LoadLocked(t) ==
    LET r == task[t] IN
    /\ r.at = "loadwait"
    /\ Head(loadQueue[r.pid]) = t
    /\ Continue(t, [r EXCEPT !.at = "load", !.read = db[r.pid]])
    /\ UNCHANGED <<objVars, enterQueue, loadQueue, ghosts>>

BeginDel_SkipsSave(t, s, p, r) ==
    /\ Become(s)
    /\ Continue(t, [r EXCEPT !.at = "save", !.del = s.players[p], !.missed = FALSE])

BeginDel_ClosesEarly(t, s, p, r) ==
    LET x == s.players[p] IN
    /\ Become(CloseSave(NowSave(s, x), x))
    /\ Continue(t, [r EXCEPT !.at = "save", !.del = x, !.missed = FALSE])

(* delplayer of a loaded player, up to the yield of nowsave, which does    *)
(* not tell when the save has failed: its xpcall keeps the error.          *)
BeginDel(t, s, p, r) ==
    LET x == s.players[p]
        u == NowSave(s, x)
        Saves(ok) == Continue(t, [r EXCEPT !.at = "save", !.del = x, !.missed = ~ok])
    IN
    \/ Become(u) /\ Saves(TRUE)
    \/ u # s /\ Become(s) /\ Saves(FALSE)

(* Other tasks load or unload p.                                           *)
Moving(t, p) ==
    \E u \in Tasks \ {t} : task[u].pid = p /\ task[u].at \in {"loadwait", "load", "save"}

(* A command runs on the registered player object of p.                    *)
Execute(s, p, m) == [s EXCEPT !.obj[s.players[p]].data = @ \cup {m}]

Banned_Never(data) == data \cap Freezes \cap {} # {}

KickPlayer_ClearsForce(t, s, p, r) ==
    LET o == s.players[p] IN
    /\ Become(IF Online(s, p) THEN CloseLink(s, o) ELSE s)
    /\ Continue(t, [r EXCEPT !.kind = "kick", !.at = "logout", !.o = o])

(* gg.isBanEnterGame: the content has player.banGame set.                  *)
Banned(data) == data \cap Freezes # {}

(* kick up to the yield in onlogout: force_exitgame, then disconnect or,   *)
(* without a link, exitgame.                                               *)
KickPlayer(t, s, p, r) ==
    LET o == s.players[p]
        c == IF Online(s, p) THEN CloseLink(s, o) ELSE s
    IN
    /\ Become([c EXCEPT !.obj[o].force = TRUE])
    /\ Continue(t, [r EXCEPT !.kind = "kick", !.at = "logout", !.o = o])

Executed(t, p, m) ==
    /\ executed' = executed \cup {m}
    /\ atRisk' = IF Moving(t, p) \/ p \in split THEN atRisk \cup {m} ELSE atRisk
    /\ UNCHANGED split

Fresh(m) == m \notin executed /\ \A t \in Tasks : task[t].cmd # m

-----------------------------------------------------------------------------
(* C2S_EnterGame: _entergame under the lock "EnterGame.<pid>".             *)
EnterGame(t, l, p) ==
    /\ task[t].at = "idle"
    /\ l \in linkUp
    /\ linkPid[l] = None
    /\ Continue(t, [Start("enter", p) EXCEPT !.at = "token", !.link = l])
    /\ enterQueue' = [enterQueue EXCEPT ![p] = Append(@, t)]
    /\ UNCHANGED <<objVars, loadQueue, ghosts>>

LeaveEnter_KeepsLock(t, r) == Continue(t, Done) /\ UNCHANGED enterQueue

LeaveEnter(t, r) ==
    /\ enterQueue' = [enterQueue EXCEPT ![r.pid] = Tail(@)]
    /\ Continue(t, Done)

HasToken(t) == task[t].at = "token" /\ Head(enterQueue[task[t].pid]) = t

(* checktoken refuses, the link has entered meanwhile (REPEAT_ENTERGAME)   *)
(* or the account does not match: the handler ends.                        *)
EnterRefused(t) ==
    /\ HasToken(t)
    /\ LeaveEnter(t, task[t])
    /\ UNCHANGED <<objVars, loadQueue, ghosts>>

(* The player is loaded: its link, if any, is closed (LOGOUT_TYPE_REPLACE) *)
(* and the new one bound, or the banned role refused.                      *)
EnterReplace(t) ==
    LET r == task[t]
        o == players[r.pid]
        s == IF Online(State, r.pid) THEN CloseLink(State, o) ELSE State
    IN
    /\ HasToken(t)
    /\ linkPid[r.link] = None
    /\ o # None
    /\ IF Banned(obj[o].data)
       THEN /\ Become(s)
            /\ LeaveEnter(t, r)
       ELSE /\ Become(BindLink(s, o, r.link))
            /\ Continue(t, [r EXCEPT !.at = "login", !.o = o])
            /\ UNCHANGED enterQueue
    /\ UNCHANGED <<loadQueue, history>>

(* The player is not loaded: recoverplayer, or first gg.route, a call to   *)
(* the center, when players may roam.                                      *)
EnterRecover(t) ==
    LET r == task[t] IN
    /\ HasToken(t)
    /\ linkPid[r.link] = None
    /\ players[r.pid] = None
    /\ IF OpenKuafu
       THEN Continue(t, [r EXCEPT !.at = "route"]) /\ UNCHANGED loadQueue
       ELSE Recover(t, r)
    /\ UNCHANGED <<objVars, enterQueue, ghosts>>

(* gg.route has answered.  The player is on another server: go_server      *)
(* closes the link, unless that server is not known here.  Or it is to be  *)
(* recovered here; recoverplayer asserts that it is not loaded.            *)
EnterRouted(t) ==
    LET r == task[t] IN
    /\ r.at = "route"
    /\ \/ /\ LeaveEnter(t, r)
          /\ \/ Become([State EXCEPT !.up = @ \ {r.link}])
             \/ Become(State)
          /\ UNCHANGED loadQueue
       \/ /\ players[r.pid] = None
          /\ Recover(t, r)
          /\ Become(State)
          /\ UNCHANGED enterQueue
       \/ /\ players[r.pid] # None
          /\ Become([State EXCEPT !.failed = @ \cup {"recover"}])
          /\ LeaveEnter(t, r)
          /\ UNCHANGED loadQueue
    /\ UNCHANGED history

Unlock(r) == loadQueue' = [loadQueue EXCEPT ![r.pid] = Tail(@)]

(* findOne has answered: bind the link to the new object, then, if another *)
(* task has loaded the player meanwhile, delplayer that one first.         *)
EnterLoaded(t, o) ==
    LET r == task[t]
        p == r.pid
        s == BindLink(NewPlayer(State, o, p, r.read), o, r.link)
    IN
    /\ r.at = "load" /\ r.kind = "enter"
    /\ obj[o] = None
    /\ ~Banned(r.read)
    /\ Unlock(r)
    /\ IF players[p] = None
       THEN /\ Become(AddPlayer(s, o))
            /\ Continue(t, [r EXCEPT !.at = "login", !.o = o])
       ELSE BeginDel(t, s, p, [r EXCEPT !.o = o])
    /\ UNCHANGED <<enterQueue, history>>

(* findOne has answered, but the role does not exist, is of another        *)
(* account or is banned: the loaded object is dropped.                     *)
EnterLoadRefused(t) ==
    LET r == task[t] IN
    /\ r.at = "load" /\ r.kind = "enter"
    /\ Unlock(r)
    /\ LeaveEnter(t, r)
    /\ UNCHANGED <<objVars, ghosts>>

(* The same for a command or an admin operation: loadplayer finds nobody,  *)
(* or raises the error of findOne, and the handler ends.                   *)
CmdLoadRefused(t) ==
    LET r == task[t] IN
    /\ r.at = "load" /\ r.kind \in {"cmd", "admin"}
    /\ Unlock(r)
    /\ Continue(t, Done)
    /\ UNCHANGED <<objVars, enterQueue, ghosts>>

(* onlogin of the player has returned.                                     *)
EnterFinish(t) ==
    /\ task[t].at = "login"
    /\ LeaveEnter(t, task[t])
    /\ UNCHANGED <<objVars, loadQueue, ghosts>>
-----------------------------------------------------------------------------
(* A message of a client that has entered.  The filter asserts that its    *)
(* player is registered with a link, then the command runs on it.          *)
ClientCmd(l, m) ==
    LET p == linkPid[l] IN
    /\ l \in linkUp
    /\ p # None
    /\ Fresh(m) /\ m \notin Freezes
    /\ IF Online(State, p)
       THEN Become(Execute(State, p, m)) /\ Executed(None, p, m)
       ELSE Become([State EXCEPT !.failed = @ \cup {"filter"}]) /\ UNCHANGED history
    /\ UNCHANGED <<task, enterQueue, loadQueue>>

(* api.doPlayerCmd, sent by another service, on a loaded player.           *)
DoPlayerCmd(p, m) ==
    /\ players[p] # None
    /\ Fresh(m) /\ m \notin Freezes
    /\ Become(Execute(SetLastTick(State, p), p, m))
    /\ Executed(None, p, m)
    /\ UNCHANGED <<task, enterQueue, loadQueue>>

(* doPlayerCmd of freezePlayer on a loaded player: banGame, then kick.     *)
Freeze(t, p, m) ==
    /\ task[t].at = "idle"
    /\ players[p] # None
    /\ Fresh(m) /\ m \in Freezes
    /\ KickPlayer(t, Execute(SetLastTick(State, p), p, m), p, Start("kick", p))
    /\ Executed(t, p, m)
    /\ UNCHANGED <<enterQueue, loadQueue>>

(* loadplayer_callback of the admin operations, on a loaded player: the    *)
(* callback, then unloadplayer, which only unloads an offline player.      *)
AdminEnd(t, s, p, r) ==
    IF s.obj[s.players[p]].offline
    THEN BeginDel(t, s, p, r)
    ELSE Become(s) /\ Continue(t, Done)

AdminCmd(t, p, m) ==
    /\ task[t].at = "idle"
    /\ players[p] # None
    /\ Fresh(m) /\ m \notin Freezes
    /\ AdminEnd(t, Execute(State, p, m), p, Start("admin", p))
    /\ Executed(t, p, m)
    /\ UNCHANGED <<enterQueue, loadQueue>>

(* doPlayerCmd or an admin operation on a player that has to be loaded.    *)
LoadForCmd(t, kind, p, m) ==
    /\ task[t].at = "idle"
    /\ kind = "cmd" \/ (kind = "admin" /\ m \notin Freezes)
    /\ players[p] = None
    /\ Fresh(m)
    /\ Recover(t, [Start(kind, p) EXCEPT !.cmd = m])
    /\ UNCHANGED <<objVars, enterQueue, ghosts>>

LoadPlayer_NoRecheck(s, o, p, data) == AddPlayer(NewPlayer(s, o, p, data), o)

(* loadplayer after findOne has answered: register the new object unless   *)
(* another task has registered one, and run the command on the registered  *)
(* one.                                                                    *)
LoadPlayer(s, o, p, data) ==
    IF s.players[p] = None THEN AddPlayer(NewPlayer(s, o, p, data), o) ELSE s

CmdLoaded(t, o) ==
    LET r == task[t]
        s == LoadPlayer(State, o, r.pid, r.read)
    IN
    /\ r.at = "load" /\ r.kind \in {"cmd", "admin"}
    /\ obj[o] = None
    /\ Unlock(r)
    /\ IF r.kind = "admin"
       THEN AdminEnd(t, Execute(s, r.pid, r.cmd), r.pid, r)
       ELSE LET c == Execute(SetLastTick(s, r.pid), r.pid, r.cmd) IN
            IF r.cmd \in Freezes
            THEN KickPlayer(t, c, r.pid, r)
            ELSE Become(c) /\ Continue(t, Done)
    /\ Executed(t, r.pid, r.cmd)
    /\ UNCHANGED enterQueue

-----------------------------------------------------------------------------
(* kick, by the client (C2S_ExitGame), an admin or a gm command.           *)
Kick(t, p) ==
    /\ task[t].at = "idle"
    /\ players[p] # None
    /\ KickPlayer(t, State, p, Start("kick", p))
    /\ UNCHANGED <<enterQueue, loadQueue, history>>

(* The connection of a client closes.  onClose disconnects the registered  *)
(* player of linkobj.pid, which yields in onlogout; a link that entered    *)
(* with nobody, or whose player is gone or without link, is just dropped.  *)
CloseOnline(t, l) ==
    LET p == linkPid[l] IN
    /\ task[t].at = "idle"
    /\ l \in linkUp
    /\ p # None
    /\ Online(State, p)
    /\ Become([CloseLink(State, players[p]) EXCEPT !.up = @ \ {l}])
    /\ Continue(t, [Start("close", p) EXCEPT !.at = "logout", !.o = players[p]])
    /\ UNCHANGED <<enterQueue, loadQueue, history>>

CloseIdle(l) ==
    /\ l \in linkUp
    /\ ~Online(State, linkPid[l])
    /\ Become([State EXCEPT !.up = @ \ {l}])
    /\ UNCHANGED <<task, enterQueue, loadQueue, history>>

(* The rest of exitgame, after onlogout: a forced exit unloads the player, *)
(* another one starts the clock of its unloading.                          *)
ExitGame(t) ==
    LET r == task[t] IN
    /\ r.at = "logout"
    /\ IF obj[r.o].force
       THEN IF players[r.pid] = None
            THEN /\ Become([State EXCEPT !.tick[r.pid] = None, !.obj[r.o].force = FALSE])
                 /\ Continue(t, Done)
            ELSE BeginDel(t, State, r.pid, r)
       ELSE /\ Become(SetLastTick(State, r.pid))
            /\ Continue(t, Done)
    /\ UNCHANGED <<enterQueue, loadQueue, history>>

(* onMinute, from one yield to the next: of the pids whose last tick was   *)
(* old, in any order, forget the tick of those that are online or gone,    *)
(* until one has to be unloaded, which yields, or none is left.            *)
Visit(t, s, r, todo) ==
    LET Idle(p) == s.players[p] # None /\ ~Online(s, p) IN
    \E skip \in SUBSET {p \in todo : ~Idle(p)} :
        LET u == [s EXCEPT !.tick = [p \in Pids |-> IF p \in skip THEN None ELSE @[p]]] IN
        \/ skip = todo /\ Become(u) /\ Continue(t, Done)
        \/ \E p \in todo \ skip :
              /\ Idle(p)
              /\ BeginDel(t, u, p, [r EXCEPT !.pid = p, !.todo = todo \ (skip \cup {p})])

Minute(t) ==
    LET over == {p \in Pids : lastTick[p] = "old"} IN
    /\ task[t].at = "idle"
    /\ over # {}
    /\ Visit(t, State, Start("minute", None), over)
    /\ UNCHANGED <<enterQueue, loadQueue, history>>

(* overtick has passed since the last tick.                                *)
Overtick(p) ==
    /\ lastTick[p] = "recent"
    /\ Become([State EXCEPT !.tick[p] = "old"])
    /\ UNCHANGED <<task, enterQueue, loadQueue, history>>

(* delplayer after nowsave has returned, and what its caller does next.    *)
Saved(t) ==
    LET r == task[t]
        s == DelPlayer(State, r.pid, r.del)
    IN
    /\ r.at = "save"
    /\ CASE r.kind = "enter" ->
              /\ Become(AddPlayer(s, r.o))
              /\ Continue(t, [r EXCEPT !.at = "login", !.del = None, !.missed = FALSE])
         [] r.kind \in {"kick", "close"} ->
              /\ Become([s EXCEPT !.obj[r.o].force = FALSE])
              /\ Continue(t, Done)
         [] r.kind = "admin" -> Become(s) /\ Continue(t, Done)
         [] r.kind = "minute" -> Visit(t, s, r, r.todo)
    /\ atRisk' = IF r.missed THEN atRisk \cup (obj[r.del].data \cap executed) ELSE atRisk
    /\ split' = IF players[r.pid] \in {None, r.del} THEN split ELSE split \cup {r.pid}
    /\ UNCHANGED <<enterQueue, loadQueue, executed>>

(* The autosave timer of an object: ontimer, nowsave.                      *)
Autosave(o) ==
    /\ o \in autosaved
    /\ db[obj[o].pid] # obj[o].data
    /\ Become(NowSave(State, o))
    /\ UNCHANGED <<task, enterQueue, loadQueue, history>>

-----------------------------------------------------------------------------
(* The steps of a task that has started, and the events of the outside.    *)
Resume(t) ==
    \/ EnterRefused(t) \/ EnterReplace(t) \/ EnterRecover(t) \/ EnterRouted(t)
    \/ EnterLoadRefused(t) \/ CmdLoadRefused(t) \/ EnterFinish(t) \/ LoadLocked(t)
    \/ \E o \in Objs : EnterLoaded(t, o) \/ CmdLoaded(t, o)
    \/ ExitGame(t) \/ Saved(t)

Event ==
    \/ \E l \in Links : CloseIdle(l)
    \/ \E l \in Links, m \in Cmds : ClientCmd(l, m)
    \/ \E p \in Pids, m \in Cmds : DoPlayerCmd(p, m)
    \/ \E p \in Pids : Overtick(p)
    \/ \E o \in Objs : Autosave(o)
    \/ \E t \in Tasks, p \in Pids :
          \/ \E l \in Links : EnterGame(t, l, p)
          \/ \E m \in Cmds : AdminCmd(t, p, m) \/ Freeze(t, p, m)
          \/ \E m \in Cmds, kind \in {"cmd", "admin"} : LoadForCmd(t, kind, p, m)
          \/ Kick(t, p)
    \/ \E t \in Tasks : Minute(t) \/ \E l \in Links : CloseOnline(t, l)

Next == Event \/ \E t \in Tasks : Resume(t)

Spec == Init /\ [][Next]_vars

(* Every service that is called answers.                                   *)
FairSpec == Spec /\ \A t \in Tasks : WF_vars(Resume(t))
-----------------------------------------------------------------------------
(* A command is in the database or in the registered object, which is      *)
(* saved later, whatever logins, kicks, timeouts and loads follow.  What   *)
(* the code may lose (atRisk) is a command executed while another task     *)
(* loads or unloads the player; what was in an object that delplayer has   *)
(* dropped after its save failed; and, from then on until the server       *)
(* stops, every command of a player that is split.  That happens when two  *)
(* delplayers of one object overlap: the first ends, another object is     *)
(* registered, and the second, which has saved the old one, removes it.    *)
(* It stays on autosave with nobody to execute anything on it, and its     *)
(* saves undo what later objects of the player have saved.                 *)
Durable ==
    \A m \in executed \ atRisk : \E p \in Pids :
        \/ m \in db[p]
        \/ players[p] # None /\ m \in obj[players[p]].data

(* A registered player is on autosave, so what it does is written in the   *)
(* end: no closesave of an earlier object of the pid takes it off.         *)
RegisteredIsAutosaved ==
    \A p \in Pids : players[p] # None =>
        players[p] \in autosaved /\ obj[players[p]].pid = p

(* The container's assertion in addplayer ("Exist Object") holds: the      *)
(* checks of loadplayer and _entergame before it are made after the yield. *)
AddAssertion == "add" \notin asserts

(* A connection enters once (REPEAT_ENTERGAME): it is bound to at most one *)
(* player object, and linkobj.pid agrees with it.                          *)
LinkBinding ==
    /\ \A o \in Objs : obj[o] # None /\ obj[o].link # None =>
          linkPid[obj[o].link] = obj[o].pid
    /\ \A o, x \in Objs :
          /\ obj[o] # None /\ obj[x] # None
          /\ obj[o].link # None /\ obj[o].link = obj[x].link
          => o = x

(* A role that was frozen has no connection from then on: neither the      *)
(* login that replaces, nor the one that loads, nor one that was under way *)
(* lets it in.  A freeze is a command and may be lost like any other, as   *)
(* Durable says; these are excepted here.                                  *)
FrozenStaysOut ==
    \A m \in (executed \cap Freezes) \ atRisk : \A p \in Pids :
        Online(State, p) => m \notin db[p] \cup obj[players[p]].data

(* A loaded player without a connection is on the way out: its tick is     *)
(* set, or a handler of the player, whichever it is, has not ended yet.    *)
(* Otherwise onMinute would never unload it.                               *)
NoForgottenPlayer ==
    \A p \in Pids : players[p] # None /\ ~Online(State, p) =>
        \/ lastTick[p] # None
        \/ \E t \in Tasks : task[t].pid = p /\ task[t].at \notin {"idle", "done"}

(* The assertion of cclient:filter: the player of a link that has entered  *)
(* is registered with a link.                                              *)
FilterAssertion == "filter" \notin asserts

(* The assertion of recoverplayer: the player is not loaded.               *)
RecoverAssertion == "recover" \notin asserts

(* The logins of a role come to an end: none keeps the lock that           *)
(* serialises them, even though each waits for the load lock and for other *)
(* services while it holds it.                                             *)
LoginEnds ==
    \A p \in Pids : enterQueue[p] # <<>> ~> enterQueue[p] = <<>>

(* A kicked object leaves the registry, however its exit interleaves with  *)
(* a disconnect, a login or another kick of the same player.               *)
Kicked(o) == \E t \in Tasks : task[t].kind = "kick" /\ task[t].o = o

KickUnloads == \A o \in Objs : Kicked(o) ~> \A p \in Pids : players[p] # o
=============================================================================
