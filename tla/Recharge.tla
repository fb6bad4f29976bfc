------------------------------ MODULE Recharge ------------------------------
(***************************************************************************)
(* Paid orders on their way to a player: RechargeMgr of the chainbridge    *)
(* service (app/chainbridge/gg/RechargeMgr.lua), which looks up confirmed  *)
(* orders again and again and sends them to the game server of the player, *)
(* and ChainBridgeBag of the player                                        *)
(* (app/game/player/chainBridge/ChainBridgeBag.lua), which marks an order, *)
(* credits it and reports it finished.                                     *)
(*                                                                         *)
(* Nothing is acknowledged: messages may be lost, an order that is not     *)
(* finished is sent again, and the marks and credits live in the player    *)
(* object, which is saved from time to time and lost when the game server  *)
(* crashes.  The orders are those of one player, and some (Stuck) that can *)
(* never be handled because their role cannot be loaded.                   *)
(*                                                                         *)
(* An order whose player is not loaded loads it, as a login does: under a  *)
(* lock, with a yield between the read and the registration.  A delplayer, *)
(* of an unloading or of the login that finds the player registered by     *)
(* somebody else, yields while it saves.  PlayerMgr has these handlers in  *)
(* full; what matters here is which content reaches the database.          *)
(***************************************************************************)
EXTENDS Naturals, FiniteSets

CONSTANTS
    Orders,      \* order numbers, in the order of their creation
    Stuck,       \* orders whose doPlayerCmd finds no player
    Passes,      \* runs of onSecond that may overlap
    CheckCnt,    \* orders looked up at a time: checkRechargeTokenCnt, checkPayOrderCnt
    MaxCopies,   \* bound: copies of one message under way
    Objs,        \* bound: player objects that exist at a time
    MaxCrashes,  \* bound: crashes of either server
    None

ASSUME OrdersAssumption ==
    /\ Orders \subseteq Nat \ {0}
    /\ Stuck \subseteq Orders
ASSUME BoundsAssumption ==
    MaxCopies \in Nat /\ MaxCrashes \in Nat /\ CheckCnt \in Nat /\ None \notin Objs

VARIABLES
    kind,     \* of rechargeToken, of order_settle, or one that pays a rebate to an inviter
    state,    \* state of the order in mongodb
    owner,    \* orders whose document names the player
    wallet,   \* what share knows of the payer's wallet: nobody, another chain, the player
    pass,     \* the runs of checkRechargeToken and checkPayOrder
    deal,     \* copies of dealRechargeToken and dealPayOrder under way
    finish,   \* rechargeTokenFinish and payOrderFinish under way
    obj,      \* the player objects: their marks and credits
    cur,      \* the registered object, None when the player is not loaded
    autosave, \* the objects that are saved from time to time
    waiting,  \* who waits for the lock of the load: orders, Login
    reading,  \* who has it (nobody or one) and waits for findOne
    read,     \* the content findOne answers with
    leaving,  \* the object each of the two delplayers has saved, or None
    entrant,  \* the object that the login registers after its delplayer, or None
    pending,  \* <<o, k>> : dealPayOrder of o on object k waits for the rebate
    db,       \* the player's document: marks and credits
    crashes,
    exposed   \* history: the orders that may be lost, see SettledIsCredited

bridgeVars == <<kind, owner, wallet, pass>>
loadVars == <<waiting, reading, read>>
delVars == <<leaving, entrant>>
gameVars == <<obj, cur, autosave, loadVars, delVars, pending, exposed>>
vars == <<state, bridgeVars, deal, finish, gameVars, db, crashes>>

Kinds == {"token", "order", "rebate"}
Tokens == {o \in Orders : kind[o] = "token"}
Rebates == {o \in Orders : kind[o] = "rebate"}

Login == 0
Loaders == Orders \cup {Login}
Dels == {"unload", "login"}
Content == [seen : SUBSET Orders, credit : [Orders -> Nat]]
Pass == [on : BOOLEAN, todo : SUBSET Orders, valid : SUBSET Orders,
         asked : Orders \cup {0}, answer : {"none", "other", "ok"}]

TypeOK ==
    /\ state \in [Orders -> {"none", "confirm", "success", "error"}]
    /\ kind \in [Orders -> Kinds]
    /\ owner \in SUBSET Orders
    /\ wallet \in [Orders -> {"none", "other", "ok"}]
    /\ pass \in [Passes -> Pass]
    /\ deal \in [Orders -> 0..MaxCopies]
    /\ finish \in SUBSET Orders
    /\ obj \in [Objs -> Content]
    /\ cur \in autosave \cup {None} /\ autosave \in SUBSET Objs
    /\ waiting \in SUBSET Loaders
    /\ reading \in {{}} \cup {{l} : l \in Loaders \ waiting}
    /\ read \in Content
    /\ leaving \in [Dels -> Objs \cup {None}]
    /\ entrant \in Objs \cup {None}
    /\ pending \in SUBSET (Orders \X Objs)
    /\ db \in Content
    /\ crashes \in 0..MaxCrashes
    /\ exposed \in SUBSET Orders

Empty == [seen |-> {}, credit |-> [o \in Orders |-> 0]]
NoPass == [on |-> FALSE, todo |-> {}, valid |-> {}, asked |-> 0, answer |-> "none"]

Init ==
    /\ state = [o \in Orders |-> "none"]
    /\ kind = [o \in Orders |-> "order"]
    /\ owner = {}
    /\ wallet = [o \in Orders |-> "none"]
    /\ pass = [p \in Passes |-> NoPass]
    /\ deal = [o \in Orders |-> 0]
    /\ finish = {}
    /\ obj = [k \in Objs |-> Empty]
    /\ cur = None /\ autosave = {}
    /\ waiting = {} /\ reading = {} /\ read = Empty
    /\ leaving = [d \in Dels |-> None] /\ entrant = None
    /\ pending = {}
    /\ db = Empty
    /\ crashes = 0
    /\ exposed = {}
-----------------------------------------------------------------------------
(* The chainbridge service.                                                *)

(* An order is paid and confirmed; the orders of order_settle name their   *)
(* player.                                                                 *)
Insert(o, k) ==
    /\ state[o] = "none"
    /\ o \in Stuck => k = "order"              \* bound: one kind of these
    /\ state' = [state EXCEPT ![o] = "confirm"]
    /\ kind' = [kind EXCEPT ![o] = k]
    /\ owner' = IF k = "token" THEN owner ELSE owner \cup {o}
    /\ UNCHANGED <<wallet, pass, deal, finish, gameVars, db, crashes>>

(* The wallet of a payer is bound to an account.                           *)
BindWallet(o, w) ==
    /\ o \in Tokens /\ wallet[o] = "none"
    /\ wallet' = [wallet EXCEPT ![o] = w]
    /\ UNCHANGED <<state, kind, owner, pass, deal, finish, gameVars, db, crashes>>

(* findSortLimit: the oldest of a set of orders.                           *)
Oldest(S, n) == {o \in S : Cardinality({x \in S : x < o}) < n}

(* checkRechargeToken (S is Tokens) and checkPayOrder: look up the oldest  *)
(* confirmed orders.                                                       *)
Check(p, S) ==
    LET docs == Oldest({o \in S : state[o] = "confirm"}, CheckCnt) IN
    /\ ~pass[p].on
    /\ docs # {}
    /\ pass' = [pass EXCEPT ![p] = [NoPass EXCEPT !.on = TRUE, !.todo = docs \ owner,
                                                  !.valid = docs \cap owner]]
    /\ UNCHANGED <<state, kind, owner, wallet, deal, finish, gameVars, db, crashes>>

(* getAccountByWalletAddress for an order that does not name its player.   *)
Ask(p, o) ==
    /\ pass[p].asked = 0
    /\ o \in pass[p].todo
    /\ pass' = [pass EXCEPT ![p] = [@ EXCEPT !.asked = o, !.answer = wallet[o]]]
    /\ UNCHANGED <<state, kind, owner, wallet, deal, finish, gameVars, db, crashes>>

(* The run r has got its answer for the order it asked about.              *)
Looked(r, ok) ==
    [r EXCEPT !.asked = 0, !.todo = @ \ {r.asked},
              !.valid = @ \cup IF ok THEN {r.asked} ELSE {}]

(* The answer: the order gets its player, or ends in error.                *)
Answered(p) ==
    LET o == pass[p].asked
        ok == pass[p].answer = "ok"
    IN
    /\ o # 0
    /\ state' = IF ok THEN state ELSE [state EXCEPT ![o] = "error"]
    /\ owner' = IF ok THEN owner \cup {o} ELSE owner
    /\ pass' = [pass EXCEPT ![p] = Looked(@, ok)]
    /\ UNCHANGED <<kind, wallet, deal, finish, gameVars, db, crashes>>

(* All orders are looked at: send the valid ones to their player.          *)
Send(p) ==
    /\ pass[p].on /\ pass[p].todo = {}
    /\ deal' = [o \in Orders |-> IF o \in pass[p].valid /\ deal[o] < MaxCopies
                                 THEN deal[o] + 1 ELSE deal[o]]
    /\ pass' = [pass EXCEPT ![p] = NoPass]
    /\ UNCHANGED <<state, kind, owner, wallet, finish, gameVars, db, crashes>>

(* rechargeTokenFinish, payOrderFinish *)
Finished(o) ==
    /\ o \in finish
    /\ finish' = finish \ {o}
    /\ state' = [state EXCEPT ![o] = "success"]
    /\ UNCHANGED <<bridgeVars, deal, gameVars, db, crashes>>
-----------------------------------------------------------------------------
(* The game server.                                                        *)

(* The objects that something refers to; the others are garbage.           *)
Live == ({cur, entrant} \cup autosave \cup {leaving[d] : d \in Dels}
            \cup {x[2] : x \in pending}) \ {None}

(* An object that is not in use.                                           *)
Fresh == CHOOSE k \in Objs : k \notin Live

(* The objects are f from now on; garbage is collected.                    *)
Become(f) == obj' = [k \in Objs |-> IF k \in Live' THEN f[k] ELSE Empty]

(* The objects that nobody will ever close, and that are saved all the     *)
(* same: a delplayer has removed another object than the one it had saved. *)
Astray == autosave \ ({cur} \cup {leaving[d] : d \in Dels})

(* Somebody builds the player or removes it, or has left an object astray. *)
(* What is done to the player meanwhile may be lost.                       *)
Moving == waiting # {} \/ (\E d \in Dels : leaving[d] # None) \/ Astray # {}

(* The orders S are handled; b is whether the player is moving meanwhile.  *)
Expose(S, b) == exposed' = IF b THEN exposed \cup S ELSE exposed

Receive(o) ==
    /\ deal[o] > 0
    /\ deal' = [deal EXCEPT ![o] = @ - 1]

Mark(c, o) == [c EXCEPT !.seen = @ \cup {o}]
Credit(c, o) == [c EXCEPT !.credit[o] = @ + 1]

(* Faulty variants of the definitions here and below are named after the   *)
(* slip.                                                                   *)
DealNow_NoCheck(o, k, c) ==
    /\ o \notin Rebates
    /\ finish' = finish \cup {o}
    /\ UNCHANGED pending
    /\ Become([obj EXCEPT ![k] = [c EXCEPT !.seen = @ \cup {o}, !.credit[o] = @ + 1]])

DealAgain_NoFinish(o, k, c) ==
    /\ o \in c.seen
    /\ UNCHANGED <<finish, pending>>
    /\ Become([obj EXCEPT ![k] = c])

(* dealRechargeToken, or dealPayOrder of a product that pays no rebate, on *)
(* object k with content c: a new order is marked and credited in one go.  *)
DealNow(o, k, c) ==
    /\ o \notin Rebates
    /\ o \notin c.seen
    /\ finish' = finish \cup {o}
    /\ UNCHANGED pending
    /\ Become([obj EXCEPT ![k] = Credit(Mark(c, o), o)])

(* dealPayOrder of a recharge: the order is marked, then the mail of the   *)
(* rebate waits for other services.                                        *)
DealOrder(o, k, c) ==
    /\ o \in Rebates
    /\ o \notin c.seen
    /\ pending' = pending \cup {<<o, k>>}
    /\ Become([obj EXCEPT ![k] = Mark(c, o)])
    /\ UNCHANGED finish

(* An order that is marked is only reported finished, again.               *)
DealAgain(o, k, c) ==
    /\ o \in c.seen
    /\ finish' = finish \cup {o}
    /\ UNCHANGED pending
    /\ Become([obj EXCEPT ![k] = c])

Deal(o, k, c) == DealNow(o, k, c) \/ DealOrder(o, k, c) \/ DealAgain(o, k, c)

(* doPlayerCmd of a player that is loaded.                                 *)
DealHere(o) ==
    /\ Receive(o)
    /\ o \notin Stuck /\ cur # None
    /\ Expose({o}, Moving \/ reading # {})
    /\ UNCHANGED <<state, bridgeVars, cur, autosave, loadVars, delVars, db, crashes>>
    /\ Deal(o, cur, obj[cur])

(* loadplayer and recoverplayer of a player that is not: wait for the      *)
(* lock.  A second handler of the order starts after the first (bound).    *)
Wait(l) ==
    /\ cur = None
    /\ l \notin waiting \cup reading
    /\ waiting' = waiting \cup {l}
    /\ UNCHANGED <<state, bridgeVars, finish, obj, cur, autosave, reading, read, delVars,
                   pending, exposed, db, crashes>>

DealLoads(o) == o \notin Stuck /\ Receive(o) /\ Wait(o)

(* doPlayerCmd returns when there is no such role.                         *)
DealNobody(o) ==
    /\ Receive(o)
    /\ o \in Stuck
    /\ UNCHANGED <<state, bridgeVars, finish, gameVars, db, crashes>>

(* One login at a time (the EnterGame lock).                               *)
LoginLoads == entrant = None /\ Wait(Login) /\ UNCHANGED deal

(* load_from_db, one loader after the other: findOne is answered.          *)
Reads(l) ==
    /\ reading = {}
    /\ l \in waiting
    /\ waiting' = waiting \ {l}
    /\ reading' = {l}
    /\ read' = db
    /\ UNCHANGED <<state, bridgeVars, deal, finish, obj, cur, autosave, delVars, pending,
                   exposed, db, crashes>>

(* The load fails, or the login is refused (a ban, another account).       *)
Refused(l) ==
    /\ l \in reading
    /\ reading' = {} /\ read' = Empty
    /\ UNCHANGED <<state, bridgeVars, deal, finish, obj, cur, autosave, waiting, delVars,
                   pending, exposed, db, crashes>>

Register_NoAutosave ==
    /\ cur = None /\ Objs \ Live # {}
    /\ cur' = Fresh
    /\ UNCHANGED autosave

(* The answer arrives, and the player is still not registered: addplayer.  *)
Register ==
    /\ cur = None /\ Objs \ Live # {}
    /\ cur' = Fresh
    /\ autosave' = autosave \cup {Fresh}

DealLoaded(o) ==
    /\ Register /\ Expose({o}, Moving)
    /\ Deal(o, Fresh, read)

(* Somebody else has registered the player: what was read is dropped.      *)
DealDropped(o) ==
    /\ cur # None
    /\ Expose({o}, Moving)
    /\ UNCHANGED <<cur, autosave>>
    /\ Deal(o, cur, obj[cur])

DealReturns(o) ==
    /\ o \in reading
    /\ reading' = {} /\ read' = Empty
    /\ UNCHANGED <<state, bridgeVars, deal, waiting, delVars, db, crashes>>
    /\ DealLoaded(o) \/ DealDropped(o)

(* Two delplayers overlap only while there are objects to spare (bound).   *)
Bound == Cardinality(Astray) + 2 < Cardinality(Objs)

BeginDel_NoSave(d) ==
    /\ leaving' = [leaving EXCEPT ![d] = cur]
    /\ exposed' = exposed \cup {x[1] : x \in pending}
    /\ UNCHANGED db

(* delplayer begins: nowsave writes the registered object and yields.  A   *)
(* save that fails is only logged; then, as for the orders on their way,   *)
(* what is not in the database may be lost.                                *)
BeginDel(d) ==
    /\ leaving' = [leaving EXCEPT ![d] = cur]
    /\ \E ok \in BOOLEAN :
          /\ db' = IF ok THEN obj[cur] ELSE db
          /\ exposed' = exposed \cup {x[1] : x \in pending}
                \cup IF ok THEN {} ELSE {o \in obj[cur].seen : db.credit[o] = 0}

(* delplayer ends: the object it has saved is saved no more, and whatever  *)
(* object is registered by now is removed.                                 *)
EndDel(d, next) ==
    /\ leaving[d] # None
    /\ leaving' = [leaving EXCEPT ![d] = None]
    /\ cur' = next
    /\ autosave' = (autosave \ {leaving[d]}) \cup ({next} \ {None})
    /\ Become(obj)

(* The login registers what it has read, or, when somebody else has        *)
(* registered the player meanwhile, removes that object first.             *)
LoginAdds ==
    /\ UNCHANGED <<delVars, exposed, db>>
    /\ Register
    /\ Become([obj EXCEPT ![Fresh] = read])

LoginReplaces ==
    /\ cur # None
    /\ leaving["unload"] # None => Bound
    /\ BeginDel("login")
    /\ UNCHANGED <<cur, autosave>>
    /\ Objs \ Live # {} /\ entrant' = Fresh
    /\ Become([obj EXCEPT ![Fresh] = read])

LoginReturns ==
    /\ Login \in reading
    /\ reading' = {} /\ read' = Empty
    /\ UNCHANGED <<state, bridgeVars, deal, finish, waiting, pending, crashes>>
    /\ LoginAdds \/ LoginReplaces

LoginEnds ==
    /\ entrant' = None /\ UNCHANGED pending
    /\ EndDel("login", entrant)
    /\ UNCHANGED <<state, bridgeVars, deal, finish, loadVars, exposed, db, crashes>>

(* unloadplayer, or a kick.                                                *)
BeginUnload ==
    /\ cur # None /\ leaving["unload"] = None
    /\ entrant # None => Bound
    /\ BeginDel("unload")
    /\ UNCHANGED <<state, bridgeVars, deal, finish, obj, cur, autosave, loadVars, entrant,
                   pending, crashes>>

EndUnload ==
    /\ UNCHANGED <<entrant, pending>>
    /\ EndDel("unload", None)
    /\ UNCHANGED <<state, bridgeVars, deal, finish, loadVars, exposed, db, crashes>>

(* dealPayOrder after the rebate: the credit, on the object it started     *)
(* with, even if that one has been removed meanwhile.                      *)
Rebated(o, k) ==
    /\ <<o, k>> \in pending
    /\ pending' = pending \ {<<o, k>>}
    /\ finish' = finish \cup {o}
    /\ Expose({o}, Moving \/ reading # {} \/ k # cur)
    /\ UNCHANGED <<state, bridgeVars, deal, cur, autosave, loadVars, delVars, db, crashes>>
    /\ Become([obj EXCEPT ![k] = Credit(@, o)])

(* The timer of the autosave, of every object that is on it.               *)
Autosave(k) ==
    /\ k \in autosave
    /\ db # obj[k]
    /\ db' = obj[k]
    /\ UNCHANGED <<state, bridgeVars, deal, finish, gameVars, crashes>>
-----------------------------------------------------------------------------
(* Failures: the game server stops with everything it has in memory, the   *)
(* chainbridge service stops in the middle of its passes, a message is     *)
(* lost.                                                                   *)
CrashGame ==
    /\ crashes < MaxCrashes
    /\ crashes' = crashes + 1
    /\ exposed' = exposed \cup {x[1] : x \in pending} \cup
          IF cur = None THEN {} ELSE {o \in obj[cur].seen : db.credit[o] = 0}
    /\ cur' = None /\ autosave' = {} /\ waiting' = {} /\ reading' = {} /\ read' = Empty
    /\ leaving' = [d \in Dels |-> None] /\ entrant' = None
    /\ pending' = {}
    /\ Become(obj)
    /\ UNCHANGED <<state, bridgeVars, deal, finish, db>>

CrashBridge ==
    /\ crashes < MaxCrashes
    /\ \E p \in Passes : pass[p].on
    /\ crashes' = crashes + 1
    /\ pass' = [p \in Passes |-> NoPass]
    /\ UNCHANGED <<state, kind, owner, wallet, deal, finish, gameVars, db>>

LoseDeal(o) ==
    /\ Receive(o)
    /\ UNCHANGED <<state, bridgeVars, finish, gameVars, db, crashes>>

LoseFinish(o) ==
    /\ o \in finish
    /\ finish' = finish \ {o}
    /\ UNCHANGED <<state, bridgeVars, deal, gameVars, db, crashes>>

-----------------------------------------------------------------------------
CheckAny(p) == Check(p, Tokens) \/ Check(p, Orders \ Tokens)

Next ==
    \/ \E o \in Orders :
          \/ \E k \in Kinds : Insert(o, k)
          \/ Finished(o) \/ LoseDeal(o) \/ LoseFinish(o)
          \/ DealHere(o) \/ DealLoads(o) \/ DealReturns(o) \/ DealNobody(o)
          \/ \E w \in {"other", "ok"} : BindWallet(o, w)
          \/ \E k \in Objs : Rebated(o, k)
          \/ \E p \in Passes : Ask(p, o)
    \/ \E p \in Passes : CheckAny(p) \/ Answered(p) \/ Send(p)
    \/ \E l \in Loaders : Reads(l) \/ Refused(l)
    \/ LoginLoads \/ LoginReturns \/ LoginEnds \/ BeginUnload \/ EndUnload
    \/ \E k \in Objs : Autosave(k)
    \/ CrashGame \/ CrashBridge

Spec == Init /\ [][Next]_vars

(* onSecond runs every second and looks up both kinds of orders, called    *)
(* services answer, the lock is handed on in turn, and neither is a        *)
(* message lost for ever nor a load refused for ever.                      *)
Fairness ==
    /\ \A p \in Passes :
          /\ WF_vars(Answered(p) \/ Send(p) \/ \E o \in Orders : Ask(p, o))
          /\ SF_vars(Check(p, Tokens)) /\ SF_vars(Check(p, Orders \ Tokens))
    /\ WF_vars(LoginReturns)
    /\ \A o \in Orders \ Stuck :
          /\ SF_vars(DealHere(o) \/ DealLoads(o)) /\ SF_vars(Reads(o)) /\ SF_vars(DealReturns(o))
          /\ WF_vars(\E k \in Objs : Rebated(o, k))
          /\ SF_vars(Finished(o))

FairSpec == Spec /\ Fairness
-----------------------------------------------------------------------------
(* No order is credited twice, in the saved document or in any object,     *)
(* although orders are sent again while earlier copies are under way,      *)
(* handlers of one order overlap and the marks are lost in a crash.        *)
CreditedOnce ==
    /\ \A o \in Orders : db.credit[o] <= 1
    /\ \A k \in Objs, o \in Orders : obj[k].credit[o] <= 1

(* An order that counts as settled has reached the player: the credit is   *)
(* saved, is in the registered object or is about to be made.  What the    *)
(* code may lose (exposed) is an order that was marked or credited while   *)
(* another handler loaded or removed the player, or on an object that was  *)
(* removed already, or after an object went astray; one whose rebate was   *)
(* under way when the player was removed or the server crashed; and what   *)
(* was not saved at a crash, or when the save of delplayer failed.         *)
SettledIsCredited ==
    \A o \in Orders : state[o] = "success" /\ o \notin exposed =>
        \/ db.credit[o] = 1
        \/ cur # None /\ (obj[cur].credit[o] = 1 \/ <<o, cur>> \in pending)

(* A confirmed order whose player can be loaded is settled in the end,     *)
(* whatever is lost on the way, and although orders that never finish take *)
(* part of each look-up.                                                   *)
Settles ==
    \A o \in Orders \ Stuck : state[o] = "confirm" ~> state[o] \in {"success", "error"}
=============================================================================
