--------------------------- MODULE RechargeProofs ---------------------------
(***************************************************************************)
(* Proofs about Recharge: no order is credited twice, and an order that    *)
(* counts as settled has reached the player, except for those the code may *)
(* lose, for any orders, passes, objects, bounds and limit of the look-up. *)
(***************************************************************************)
EXTENDS Recharge, TLAPS

(* The marks cover the credits, wherever a content is kept.                *)
Fine(c) ==
    \A o \in Orders : c.credit[o] <= 1 /\ (c.credit[o] = 1 => o \in c.seen)

ContentOK == Fine(db) /\ Fine(read) /\ \A k \in Objs : Fine(obj[k])

(* Nobody loads or removes the player.                                     *)
Quiet == ~Moving /\ reading = {}

(* The login's new object waits for its delplayer.                         *)
EntrantOK == entrant # None => leaving["login"] # None

(* A handler that waits for the rebate has marked its order and not yet    *)
(* credited it, on the registered object, unless the order was exposed.    *)
PendingOK ==
    \A o \in Orders, k \in Objs : <<o, k>> \in pending =>
        /\ o \in obj[k].seen /\ obj[k].credit[o] = 0
        /\ o \in exposed \/ (k = cur /\ Quiet)

(* The objects whose content is written, or will be.                       *)
Writers == autosave \cup ({entrant} \ {None})

(* The credit of o is in the document, and nothing will undo it: all that  *)
(* is written, or is registered later, has it too.                         *)
Saved(o) ==
    /\ db.credit[o] = 1
    /\ \A k \in Writers : obj[k].credit[o] = 1
    /\ reading # {} => read.credit[o] = 1

(* It is, or will be, in the registered object, which no other content     *)
(* competes with.                                                          *)
Held(o) == cur # None /\ Quiet /\ (obj[cur].credit[o] = 1 \/ <<o, cur>> \in pending)

Reached(o) == o \in exposed \/ Saved(o) \/ Held(o)

Known(o) ==
    \/ state[o] = "success"
    \/ o \in finish
    \/ o \in db.seen
    \/ reading # {} /\ o \in read.seen
    \/ \E k \in Writers : o \in obj[k].seen

(* An order that is marked, reported or settled has reached the player.    *)
ReachedOK == \A o \in Orders : Known(o) => Reached(o)

Inner == ContentOK /\ EntrantOK /\ PendingOK /\ ReachedOK

IInv == TypeOK /\ Inner
-----------------------------------------------------------------------------
(* Marking and crediting keep a content a content.                         *)
LEMMA ContentSteps ==
  ASSUME NEW c \in Content, NEW o \in Orders
  PROVE  /\ Mark(c, o) \in Content /\ Credit(c, o) \in Content
         /\ Mark(c, o).seen = c.seen \cup {o} /\ Mark(c, o).credit = c.credit
         /\ Credit(c, o).seen = c.seen
         /\ Credit(c, o).credit = [c.credit EXCEPT ![o] = @ + 1]
BY DEF Mark, Credit, Content

LEMMA EmptyIs == Empty \in Content /\ Fine(Empty)
BY DEF Empty, Content, Fine

(* Collecting the garbage.                                                 *)
LEMMA Becomes ==
  ASSUME NEW f \in [Objs -> Content], Become(f)
  PROVE  /\ obj' \in [Objs -> Content]
         /\ \A k \in Objs : obj'[k] = IF k \in Live' THEN f[k] ELSE Empty
BY EmptyIs DEF Become

LEMMA LiveOnes ==
  ASSUME TypeOK
  PROVE  /\ Writers \subseteq Objs /\ Writers \subseteq Live
         /\ cur # None => cur \in Objs /\ cur \in Writers
         /\ \A o \in Orders, k \in Objs : <<o, k>> \in pending => k \in Live
BY BoundsAssumption DEF TypeOK, Writers, Live

LEMMA FreshOne ==
  ASSUME TypeOK, Objs \ Live # {}
  PROVE  Fresh \in Objs /\ Fresh \notin Live /\ Fresh # None /\ Fresh \notin Writers
<1>1. Fresh \in Objs /\ Fresh \notin Live
  BY DEF Fresh
<1> QED BY <1>1, LiveOnes, BoundsAssumption

(* What a handled order does to the content c of its object k.             *)
LEMMA DealIs ==
  ASSUME NEW o \in Orders, NEW k \in Objs, NEW c \in Content, Deal(o, k, c),
         obj \in [Objs -> Content], pending \in SUBSET (Orders \X Objs),
         finish \in SUBSET Orders
  PROVE  \E n \in Content :
           /\ n.seen = c.seen \cup {o}
           /\ \A x \in Orders : x # o => n.credit[x] = c.credit[x]
           /\ \A i \in Objs : obj'[i] = IF i \in Live' THEN IF i = k THEN n ELSE obj[i]
                                                     ELSE Empty
           /\ obj' \in [Objs -> Content] /\ pending' \in SUBSET (Orders \X Objs)
           /\ finish' \in SUBSET Orders /\ finish' \subseteq finish \cup {o}
           /\ \/ o \in c.seen /\ n = c /\ pending' = pending
              \/ o \notin c.seen /\ n.credit[o] = c.credit[o] + 1 /\ pending' = pending
              \/ /\ o \notin c.seen /\ n.credit[o] = c.credit[o]
                 /\ pending' = pending \cup {<<o, k>>}
<1>1. CASE DealNow(o, k, c)
  <2> DEFINE n == Credit(Mark(c, o), o)
             f == [obj EXCEPT ![k] = n]
  <2>1. Mark(c, o) \in Content /\ Mark(c, o).seen = c.seen \cup {o} /\ Mark(c, o).credit = c.credit
    BY ContentSteps
  <2>2. n \in Content /\ n.seen = c.seen \cup {o} /\ n.credit = [c.credit EXCEPT ![o] = @ + 1]
    BY <2>1, ContentSteps
  <2>3. /\ \A x \in Orders : x # o => n.credit[x] = c.credit[x]
        /\ n.credit[o] = c.credit[o] + 1
    BY <2>2 DEF Content
  <2> HIDE DEF n
  <2>4. f \in [Objs -> Content] /\ \A i \in Objs : f[i] = IF i = k THEN n ELSE obj[i]
    BY <2>2
  <2>5. Become(f) /\ o \notin c.seen /\ pending' = pending /\ finish' = finish \cup {o}
    BY <1>1 DEF DealNow, n
  <2> HIDE DEF f
  <2>6. /\ obj' \in [Objs -> Content]
        /\ \A i \in Objs : obj'[i] = IF i \in Live' THEN f[i] ELSE Empty
    BY <2>4, <2>5, Becomes
  <2>7. \A i \in Objs : obj'[i] = IF i \in Live' THEN IF i = k THEN n ELSE obj[i] ELSE Empty
    BY <2>4, <2>6
  <2> QED BY <2>2, <2>3, <2>5, <2>6, <2>7
<1>2. CASE DealOrder(o, k, c)
  <2> DEFINE n == Mark(c, o)
             f == [obj EXCEPT ![k] = n]
  <2>2. n \in Content /\ n.seen = c.seen \cup {o} /\ n.credit = c.credit
    BY ContentSteps
  <2> HIDE DEF n
  <2>4. f \in [Objs -> Content] /\ \A i \in Objs : f[i] = IF i = k THEN n ELSE obj[i]
    BY <2>2
  <2>5. Become(f) /\ o \notin c.seen /\ pending' = pending \cup {<<o, k>>} /\ finish' = finish
    BY <1>2 DEF DealOrder, n
  <2> HIDE DEF f
  <2>6. /\ obj' \in [Objs -> Content]
        /\ \A i \in Objs : obj'[i] = IF i \in Live' THEN f[i] ELSE Empty
    BY <2>4, <2>5, Becomes
  <2>7. \A i \in Objs : obj'[i] = IF i \in Live' THEN IF i = k THEN n ELSE obj[i] ELSE Empty
    BY <2>4, <2>6
  <2> QED BY <2>2, <2>5, <2>6, <2>7
<1>3. CASE DealAgain(o, k, c)
  <2> DEFINE f == [obj EXCEPT ![k] = c]
  <2>4. f \in [Objs -> Content] /\ \A i \in Objs : f[i] = IF i = k THEN c ELSE obj[i]
    OBVIOUS
  <2>5. Become(f) /\ o \in c.seen /\ pending' = pending /\ finish' = finish \cup {o}
    BY <1>3 DEF DealAgain
  <2> HIDE DEF f
  <2>6. /\ obj' \in [Objs -> Content]
        /\ \A i \in Objs : obj'[i] = IF i \in Live' THEN f[i] ELSE Empty
    BY <2>4, <2>5, Becomes
  <2>7. \A i \in Objs : obj'[i] = IF i \in Live' THEN IF i = k THEN c ELSE obj[i] ELSE Empty
    BY <2>4, <2>6
  <2>8. c.seen = c.seen \cup {o}
    BY <2>5
  <2> QED BY <2>5, <2>6, <2>7, <2>8
<1> QED BY <1>1, <1>2, <1>3 DEF Deal

(* An answered order leaves the pass or joins its valid orders.            *)
LEMMA PassStep ==
  ASSUME NEW r \in Pass, r.asked \in Orders, NEW ok \in BOOLEAN
  PROVE  Looked(r, ok) \in Pass
<1>1. /\ r.valid \cup (IF ok THEN {r.asked} ELSE {}) \in SUBSET Orders
      /\ r.todo \ {r.asked} \in SUBSET Orders
  BY DEF Pass
<1> QED BY <1>1 DEF Looked, Pass

LEMMA ReceiveType ==
  ASSUME TypeOK, NEW o \in Orders, Receive(o)
  PROVE  deal' \in [Orders -> 0..MaxCopies]
BY BoundsAssumption DEF Receive, TypeOK

(* The variables of the game server and of the document.                   *)
GameType ==
    /\ finish \in SUBSET Orders
    /\ obj \in [Objs -> Content]
    /\ cur \in autosave \cup {None} /\ autosave \in SUBSET Objs
    /\ waiting \in SUBSET Loaders
    /\ reading \in {{}} \cup {{l} : l \in Loaders \ waiting}
    /\ read \in Content
    /\ leaving \in [Dels -> Objs \cup {None}]
    /\ entrant \in Objs \cup {None}
    /\ pending \in SUBSET (Orders \X Objs)
    /\ db \in Content
    /\ exposed \in SUBSET Orders

LEMMA GameTypeStep ==
  ASSUME TypeOK, UNCHANGED <<state, bridgeVars, crashes>>, GameType',
         deal' \in [Orders -> 0..MaxCopies]
  PROVE  TypeOK'
BY DEF TypeOK, GameType, bridgeVars

LEMMA ExposeType ==
  ASSUME TypeOK, NEW o \in Orders, NEW b, Expose({o}, b)
  PROVE  exposed' \in SUBSET Orders /\ exposed \subseteq exposed'
BY DEF Expose, TypeOK

LEMMA BeginDelType ==
  ASSUME TypeOK, NEW d \in Dels, BeginDel(d), cur # None
  PROVE  /\ leaving' \in [Dels -> Objs \cup {None}] /\ leaving'[d] # None
         /\ \A e \in Dels : leaving[e] # None => leaving'[e] # None
         /\ db' \in {db, obj[cur]} /\ db' \in Content
         /\ exposed' \in SUBSET Orders /\ exposed \subseteq exposed'
         /\ \A o \in Orders, k \in Objs : <<o, k>> \in pending => o \in exposed'
         /\ \A o \in Orders : o \in obj[cur].seen /\ db.credit[o] = 0 =>
               db' = obj[cur] \/ o \in exposed'
<1>1. cur \in Objs /\ obj[cur] \in Content /\ leaving' = [leaving EXCEPT ![d] = cur]
  BY BoundsAssumption DEF BeginDel, TypeOK
<1>2. PICK ok \in BOOLEAN :
        /\ db' = IF ok THEN obj[cur] ELSE db
        /\ exposed' = exposed \cup {x[1] : x \in pending}
             \cup IF ok THEN {} ELSE {o \in obj[cur].seen : db.credit[o] = 0}
  BY DEF BeginDel
<1>3. {x[1] : x \in pending} \subseteq Orders /\ obj[cur].seen \subseteq Orders
  BY <1>1 DEF TypeOK, Content
<1>4. /\ leaving' \in [Dels -> Objs \cup {None}] /\ leaving'[d] # None
      /\ \A e \in Dels : leaving[e] # None => leaving'[e] # None
  BY <1>1 DEF TypeOK
<1>5. /\ exposed' \in SUBSET Orders /\ exposed \subseteq exposed'
      /\ {x[1] : x \in pending} \subseteq exposed'
  BY <1>2, <1>3 DEF TypeOK
<1>6. \A o \in Orders, k \in Objs : <<o, k>> \in pending => o \in exposed'
  BY <1>5
<1>7. db' \in {db, obj[cur]} /\ db' \in Content
  BY <1>1, <1>2 DEF TypeOK
<1>8. \A o \in Orders : o \in obj[cur].seen /\ db.credit[o] = 0 =>
         db' = obj[cur] \/ o \in exposed'
  BY <1>2
<1> QED BY <1>4, <1>5, <1>6, <1>7, <1>8

(* The steps of the players' handlers keep the types.                      *)
LEMMA HandleType ==
  ASSUME TypeOK, NEW o \in Orders, DealHere(o) \/ DealReturns(o)
  PROVE  TypeOK'
<1> USE BoundsAssumption
<1>1. UNCHANGED <<state, bridgeVars, delVars, waiting, db, crashes>>
  BY DEF DealHere, DealReturns, loadVars
<1>2. deal' \in [Orders -> 0..MaxCopies]
  BY ReceiveType DEF DealHere, DealReturns, TypeOK
<1>3. /\ reading' \in {{}} \cup {{l} : l \in Loaders \ waiting} /\ read' \in Content
  BY EmptyIs DEF DealHere, DealReturns, loadVars, TypeOK
<1>4. exposed' \in SUBSET Orders
  BY ExposeType DEF DealHere, DealReturns, DealLoaded, DealDropped
<1>5. PICK k \in Objs, c \in Content :
         /\ Deal(o, k, c) /\ cur' = k /\ autosave' = autosave \cup {k}
  <2>1. CASE cur # None /\ Deal(o, cur, obj[cur]) /\ UNCHANGED <<cur, autosave>>
    <3>1. cur \in Objs /\ obj[cur] \in Content /\ autosave = autosave \cup {cur}
      BY <2>1 DEF TypeOK
    <3> QED BY <2>1, <3>1
  <2>2. CASE DealLoaded(o)
    <3>1. Fresh \in Objs /\ read \in Content
      BY <2>2, FreshOne DEF DealLoaded, Register, TypeOK
    <3> QED BY <2>2, <3>1 DEF DealLoaded, Register
  <2> QED BY <2>1, <2>2 DEF DealHere, DealReturns, DealDropped
<1>6. /\ obj' \in [Objs -> Content] /\ pending' \in SUBSET (Orders \X Objs)
      /\ finish' \in SUBSET Orders
  BY <1>5, DealIs DEF TypeOK
<1>7. cur' \in autosave' \cup {None} /\ autosave' \in SUBSET Objs
  BY <1>5 DEF TypeOK
<1>8. GameType'
  BY <1>1, <1>3, <1>4, <1>6, <1>7 DEF GameType, TypeOK, delVars
<1> QED BY <1>1, <1>2, <1>8, GameTypeStep

LEMMA LoginType ==
  ASSUME TypeOK, LoginReturns
  PROVE  TypeOK'
<1>1. /\ UNCHANGED <<state, bridgeVars, deal, finish, waiting, pending, crashes>>
      /\ reading' = {} /\ read' = Empty
  BY DEF LoginReturns
<1>2. Objs \ Live # {}
  BY DEF LoginReturns, LoginAdds, LoginReplaces, Register
<1>3. Fresh \in Objs /\ Fresh # None
  BY <1>2, FreshOne
<1> DEFINE f == [obj EXCEPT ![Fresh] = read]
<1>4. f \in [Objs -> Content]
  BY <1>3 DEF TypeOK
<1>5. Become(f)
  BY DEF LoginReturns, LoginAdds, LoginReplaces
<1> HIDE DEF f
<1>6. obj' \in [Objs -> Content]
  BY <1>4, <1>5, Becomes
<1>7. /\ cur' \in autosave' \cup {None} /\ autosave' \in SUBSET Objs
      /\ entrant' \in Objs \cup {None}
      /\ leaving' \in [Dels -> Objs \cup {None}] /\ db' \in Content /\ exposed' \in SUBSET Orders
  <2>1. CASE LoginAdds
    BY <2>1, <1>3 DEF LoginAdds, Register, TypeOK, delVars
  <2>2. CASE LoginReplaces
    <3>1. /\ leaving' \in [Dels -> Objs \cup {None}] /\ db' \in Content
          /\ exposed' \in SUBSET Orders
      BY <2>2, BeginDelType DEF LoginReplaces, Dels
    <3> QED BY <2>2, <3>1, <1>3 DEF LoginReplaces, TypeOK
  <2> QED BY <2>1, <2>2 DEF LoginReturns
<1>8. GameType'
  BY <1>1, <1>6, <1>7, EmptyIs DEF GameType, TypeOK
<1>9. deal' \in [Orders -> 0..MaxCopies]
  BY <1>1 DEF TypeOK
<1> QED BY <1>1, <1>8, <1>9, GameTypeStep

LEMMA DelType ==
  ASSUME TypeOK, BeginUnload \/ EndUnload \/ LoginEnds
  PROVE  TypeOK'
<1>1. /\ UNCHANGED <<state, bridgeVars, deal, finish, loadVars, pending, crashes>>
      /\ deal' \in [Orders -> 0..MaxCopies]
  BY DEF BeginUnload, EndUnload, LoginEnds, TypeOK
<1>2. CASE BeginUnload
  <2>1. /\ leaving' \in [Dels -> Objs \cup {None}] /\ db' \in Content
        /\ exposed' \in SUBSET Orders
    BY <1>2, BeginDelType DEF BeginUnload, Dels
  <2>2. GameType'
    BY <1>1, <1>2, <2>1 DEF BeginUnload, GameType, TypeOK, loadVars
  <2> QED BY <1>1, <2>2, GameTypeStep
<1>3. CASE EndUnload \/ LoginEnds
  <2>1. PICK d \in Dels, next \in {None, entrant} : EndDel(d, next)
    BY <1>3 DEF EndUnload, LoginEnds, Dels
  <2>2. obj' \in [Objs -> Content]
    BY <2>1, Becomes DEF EndDel, TypeOK
  <2>3. /\ leaving' \in [Dels -> Objs \cup {None}]
        /\ cur' \in autosave' \cup {None} /\ autosave' \in SUBSET Objs
    BY <2>1 DEF EndDel, TypeOK
  <2>4. UNCHANGED <<db, exposed>> /\ entrant' \in {None, entrant}
    BY <1>3 DEF EndUnload, LoginEnds
  <2>5. GameType'
    BY <1>1, <2>2, <2>3, <2>4 DEF GameType, TypeOK, loadVars
  <2> QED BY <1>1, <2>5, GameTypeStep
<1> QED BY <1>2, <1>3

(* The type of the state is kept by every step.                            *)
LEMMA TypeStep == TypeOK /\ [Next]_vars => TypeOK'
<1> SUFFICES ASSUME TypeOK, [Next]_vars PROVE TypeOK'
  OBVIOUS
<1> USE OrdersAssumption, BoundsAssumption
<1>1. ASSUME NEW o \in Orders, NEW k \in Kinds, Insert(o, k) PROVE TypeOK'
  BY <1>1 DEF Insert, TypeOK, gameVars, loadVars, delVars
<1>2. ASSUME NEW o \in Orders, Finished(o) PROVE TypeOK'
  BY <1>2 DEF Finished, TypeOK, gameVars, bridgeVars, loadVars, delVars
<1>3. ASSUME NEW o \in Orders, DealHere(o) \/ DealReturns(o) PROVE TypeOK'
  BY <1>3, HandleType
<1>4. ASSUME NEW o \in Orders, DealNobody(o) \/ LoseDeal(o) PROVE TypeOK'
  <2>1. deal' \in [Orders -> 0..MaxCopies]
    BY <1>4, ReceiveType DEF DealNobody, LoseDeal
  <2>2. UNCHANGED <<state, bridgeVars, finish, gameVars, db, crashes>>
    BY <1>4 DEF DealNobody, LoseDeal
  <2> QED BY <2>1, <2>2 DEF TypeOK, gameVars, bridgeVars, loadVars, delVars
<1>5. ASSUME NEW o \in Orders, LoseFinish(o) PROVE TypeOK'
  BY <1>5 DEF LoseFinish, TypeOK, gameVars, bridgeVars, loadVars, delVars
<1>6. ASSUME NEW o \in Orders, NEW w \in {"other", "ok"}, BindWallet(o, w) PROVE TypeOK'
  BY <1>6 DEF BindWallet, TypeOK, gameVars, loadVars, delVars
<1>7. ASSUME NEW o \in Orders, NEW k \in Objs, Rebated(o, k) PROVE TypeOK'
  <2> DEFINE f == [obj EXCEPT ![k] = Credit(@, o)]
  <2>1. f \in [Objs -> Content]
    BY ContentSteps DEF TypeOK
  <2>2. Become(f)
    BY <1>7 DEF Rebated
  <2> HIDE DEF f
  <2>3. obj' \in [Objs -> Content]
    BY <2>1, <2>2, Becomes
  <2>4. exposed' \in SUBSET Orders
    BY <1>7, ExposeType DEF Rebated
  <2>5. GameType'
    BY <1>7, <2>3, <2>4 DEF Rebated, GameType, TypeOK, loadVars, delVars
  <2>6. /\ UNCHANGED <<state, bridgeVars, crashes>> /\ deal' \in [Orders -> 0..MaxCopies]
    BY <1>7 DEF Rebated, TypeOK
  <2> QED BY <2>5, <2>6, GameTypeStep
<1>8. ASSUME NEW o \in Orders, NEW p \in Passes, Ask(p, o) PROVE TypeOK'
  <2>1. pass' \in [Passes -> Pass]
    <3>1. [pass[p] EXCEPT !.asked = o, !.answer = wallet[o]] \in Pass
      BY ZenonT(60) DEF TypeOK, Pass
    <3> QED BY <3>1, <1>8 DEF Ask, TypeOK
  <2> QED BY <2>1, <1>8 DEF Ask, TypeOK, gameVars, loadVars, delVars
<1>9. ASSUME NEW p \in Passes, NEW S \in {Tokens, Orders \ Tokens}, Check(p, S) PROVE TypeOK'
  <2>1. pass' \in [Passes -> Pass]
    BY <1>9 DEF Check, Oldest, NoPass, TypeOK, Pass, Tokens
  <2> QED BY <2>1, <1>9 DEF Check, TypeOK, gameVars, loadVars, delVars
<1>10. ASSUME NEW p \in Passes, Answered(p) PROVE TypeOK'
  <2>1. pass[p].asked \in Orders
    BY <1>10 DEF Answered, TypeOK, Pass
  <2>2. pass' \in [Passes -> Pass]
    <3>1. Looked(pass[p], pass[p].answer = "ok") \in Pass
      BY <2>1, PassStep DEF TypeOK
    <3> QED BY <3>1, <1>10 DEF Answered, TypeOK
  <2>3. owner' \in SUBSET Orders
    BY <2>1, <1>10 DEF Answered, TypeOK
  <2>4. state' \in [Orders -> {"none", "confirm", "success", "error"}]
    BY <2>1, <1>10 DEF Answered, TypeOK
  <2> QED BY <2>2, <2>3, <2>4, <1>10 DEF Answered, TypeOK, gameVars, loadVars, delVars
<1>11. ASSUME NEW p \in Passes, Send(p) PROVE TypeOK'
  <2>1. pass' \in [Passes -> Pass]
    BY <1>11 DEF Send, NoPass, TypeOK, Pass
  <2>2. deal' \in [Orders -> 0..MaxCopies]
    BY <1>11 DEF Send, TypeOK
  <2> QED BY <2>1, <2>2, <1>11 DEF Send, TypeOK, gameVars, loadVars, delVars
<1>12. ASSUME NEW k \in Objs, Autosave(k) PROVE TypeOK'
  BY <1>12 DEF Autosave, TypeOK, gameVars, bridgeVars, loadVars, delVars
<1>13. CASE BeginUnload \/ EndUnload \/ LoginEnds
  BY <1>13, DelType
<1>14. CASE LoginReturns
  BY <1>14, LoginType
<1>15. CASE CrashGame
  <2>1. {x[1] : x \in pending} \subseteq Orders
    BY DEF TypeOK
  <2>2. cur # None => obj[cur].seen \subseteq Orders
    BY DEF TypeOK, Content
  <2>3. exposed' \in SUBSET Orders
    BY <2>1, <2>2, <1>15 DEF CrashGame, TypeOK
  <2>4. obj' \in [Objs -> Content]
    BY <1>15, Becomes DEF CrashGame, TypeOK
  <2>5. crashes' \in 0..MaxCrashes /\ UNCHANGED <<state, bridgeVars, deal, finish, db>>
    BY <1>15 DEF CrashGame, TypeOK
  <2>6. /\ cur' \in autosave' \cup {None} /\ autosave' \in SUBSET Objs
        /\ leaving' \in [Dels -> Objs \cup {None}] /\ entrant' = None
        /\ waiting' = {} /\ reading' = {} /\ read' \in Content /\ pending' = {}
    BY <1>15, EmptyIs DEF CrashGame
  <2> QED BY <2>3, <2>4, <2>5, <2>6 DEF TypeOK, bridgeVars
<1>16. CASE CrashBridge
  <2>1. pass' \in [Passes -> Pass]
    BY <1>16 DEF CrashBridge, NoPass, TypeOK, Pass
  <2> QED BY <2>1, <1>16 DEF CrashBridge, TypeOK, gameVars, loadVars, delVars
<1>17. CASE UNCHANGED vars
  BY <1>17 DEF vars, TypeOK, gameVars, bridgeVars, loadVars, delVars
<1>18. ASSUME NEW o \in Orders, DealLoads(o) PROVE TypeOK'
  <2>1. deal' \in [Orders -> 0..MaxCopies] /\ o \in Loaders
    BY <1>18, ReceiveType DEF DealLoads, Loaders
  <2> QED BY <1>18, <2>1 DEF DealLoads, Wait, TypeOK, bridgeVars, delVars
<1>19. CASE LoginLoads
  <2>1. Login \in Loaders
    BY DEF Loaders
  <2> QED BY <1>19, <2>1 DEF LoginLoads, Wait, TypeOK, bridgeVars, delVars
<1>20. ASSUME NEW l \in Loaders, Reads(l) \/ Refused(l) PROVE TypeOK'
  BY <1>20, EmptyIs DEF Reads, Refused, TypeOK, bridgeVars, delVars
<1> QED
  BY <1>1, <1>2, <1>3, <1>4, <1>5, <1>6, <1>7, <1>8, <1>9, <1>10, <1>11, <1>12, <1>13,
     <1>14, <1>15, <1>16, <1>17, <1>18, <1>19, <1>20 DEF Next, CheckAny

-----------------------------------------------------------------------------
(* What happens outside of the player: it may settle an order only after   *)
(* the player has reported it.                                             *)
LEMMA OutsideStep ==
  ASSUME TypeOK, Inner, UNCHANGED <<gameVars, db>>, finish' \subseteq finish,
         \A o \in Orders : state'[o] = "success" => state[o] = "success" \/ o \in finish
  PROVE  Inner'
<1>1. ContentOK' /\ EntrantOK'
  BY DEF Inner, ContentOK, EntrantOK, Fine, gameVars, loadVars, delVars
<1>2. Quiet' <=> Quiet
  BY DEF Quiet, Moving, Astray, gameVars, loadVars, delVars
<1>3. PendingOK'
  BY <1>2 DEF Inner, PendingOK, gameVars
<1>4. ASSUME NEW o \in Orders, Known(o)' PROVE Reached(o)'
  <2>1. Known(o)
    BY <1>4 DEF Known, Writers, gameVars, loadVars, delVars
  <2>2. Reached(o)
    BY <2>1 DEF Inner, ReachedOK
  <2>3. (Saved(o) => Saved(o)') /\ (Held(o) => Held(o)')
    BY <1>2 DEF Saved, Held, Writers, gameVars, loadVars, delVars
  <2> QED BY <2>2, <2>3 DEF Reached, gameVars
<1> QED BY <1>1, <1>3, <1>4 DEF Inner, ReachedOK

(* While nobody loads or removes the player, only its registered object is *)
(* written.                                                                *)
LEMMA QuietOnes ==
  ASSUME TypeOK, Inner, Quiet
  PROVE  /\ waiting = {} /\ reading = {} /\ \A d \in Dels : leaving[d] = None
         /\ entrant = None /\ Writers \subseteq {cur}
<1>1. waiting = {} /\ reading = {} /\ \A d \in Dels : leaving[d] = None
  BY DEF Quiet, Moving
<1>2. entrant = None
  BY <1>1 DEF Inner, EntrantOK, Dels
<1>3. autosave \subseteq {cur}
  <2> SUFFICES ASSUME NEW k \in autosave, k # cur PROVE FALSE
    OBVIOUS
  <2>1. k # None
    BY BoundsAssumption DEF TypeOK
  <2>2. k \in Astray
    BY <1>1, <2>1 DEF Astray
  <2> QED BY <2>2 DEF Quiet, Moving
<1> QED BY <1>1, <1>2, <1>3 DEF Writers

(* An order on its way to the rebate is exposed as soon as somebody loads  *)
(* or removes the player.                                                  *)
LEMMA PendingExposed ==
  ASSUME TypeOK, Inner, ~Quiet \/ cur = None
  PROVE  /\ \A o \in Orders, k \in Objs : <<o, k>> \in pending => o \in exposed
         /\ \A o \in Orders : ~Held(o)
BY BoundsAssumption DEF Inner, PendingOK, Held

(* The object that a handled order finds: the registered one, or a new one *)
(* that holds what was read.                                               *)
Opened(k, c) ==
    /\ UNCHANGED <<state, db, leaving, entrant, waiting>>
    /\ cur' = k
    /\ autosave' = autosave \cup {k}
    /\ \/ cur # None /\ k = cur /\ c = obj[cur]
       \/ cur = None /\ k \notin Live /\ reading # {} /\ c = read
    /\ \/ reading' = reading /\ read' = read
       \/ reading' = {} /\ read' = Empty

LEMMA OpenedIs ==
  ASSUME TypeOK, Inner, NEW k \in Objs, NEW c, Opened(k, c)
  PROVE  /\ Fine(c)
         /\ Moving' <=> Moving
         /\ Quiet => Quiet'
         /\ Writers' = Writers \cup {k} /\ Writers' \subseteq Live'
         /\ \A x \in Orders : x \in c.seen => Known(x)
         /\ \A x \in Orders : Saved(x) => c.credit[x] = 1
<1> USE BoundsAssumption
<1>1. Fine(c)
  BY DEF Opened, Inner, ContentOK, TypeOK
<1>2. Astray' = Astray
  <2>1. CASE cur # None /\ k = cur
    <3>1. autosave' = autosave /\ cur' = cur
      BY <2>1 DEF Opened, TypeOK
    <3> QED BY <3>1 DEF Astray, Opened
  <2>2. CASE cur = None /\ k \notin Live
    <3>1. k \notin autosave /\ k # None /\ None \notin autosave
      BY <2>2 DEF Live, TypeOK
    <3> QED BY <3>1, <2>2 DEF Astray, Opened
  <2> QED BY <2>1, <2>2 DEF Opened
<1>3. Moving' <=> Moving
  BY <1>2 DEF Moving, Opened
<1>4. Quiet => Quiet'
  BY <1>3 DEF Quiet, Opened
<1>5. Writers' = Writers \cup {k} /\ Writers' \subseteq Live'
  BY DEF Writers, Live, Opened, TypeOK
<1>6. ASSUME NEW x \in Orders PROVE (x \in c.seen => Known(x)) /\ (Saved(x) => c.credit[x] = 1)
  <2>1. CASE cur # None /\ c = obj[cur]
    <3>1. cur \in Writers
      BY <2>1 DEF Writers, TypeOK
    <3> QED BY <2>1, <3>1 DEF Known, Saved
  <2>2. CASE reading # {} /\ c = read
    BY <2>2 DEF Known, Saved
  <2> QED BY <2>1, <2>2 DEF Opened
<1> QED BY <1>1, <1>3, <1>4, <1>5, <1>6

(* A handled order: credited, marked or reported again.                    *)
LEMMA DealStep ==
  ASSUME TypeOK, Inner, NEW o \in Orders, NEW k \in Objs, NEW c \in Content, NEW b,
         Opened(k, c), Deal(o, k, c), Expose({o}, b),
         ~b => ~Moving /\ reading' = {}
  PROVE  Inner'
<1> USE BoundsAssumption
<1>1. PICK n \in Content :
        /\ n.seen = c.seen \cup {o}
        /\ \A x \in Orders : x # o => n.credit[x] = c.credit[x]
        /\ \A i \in Objs : obj'[i] = IF i \in Live' THEN IF i = k THEN n ELSE obj[i]
                                                  ELSE Empty
        /\ obj' \in [Objs -> Content] /\ pending' \in SUBSET (Orders \X Objs)
        /\ finish' \in SUBSET Orders /\ finish' \subseteq finish \cup {o}
        /\ \/ o \in c.seen /\ n = c /\ pending' = pending
           \/ o \notin c.seen /\ n.credit[o] = c.credit[o] + 1 /\ pending' = pending
           \/ /\ o \notin c.seen /\ n.credit[o] = c.credit[o]
              /\ pending' = pending \cup {<<o, k>>}
  BY DealIs DEF TypeOK
<1>2. /\ Fine(c) /\ (Moving' <=> Moving) /\ (Quiet => Quiet')
      /\ Writers' = Writers \cup {k} /\ Writers' \subseteq Live'
      /\ \A x \in Orders : x \in c.seen => Known(x)
      /\ \A x \in Orders : Saved(x) => c.credit[x] = 1
  BY OpenedIs
<1>3. /\ Writers \subseteq Objs /\ \A x \in Orders, i \in Objs : <<x, i>> \in pending => i \in Live
  BY LiveOnes
<1>4. exposed \subseteq exposed' /\ (b => o \in exposed')
  BY DEF Expose
<1>5. o \notin c.seen => c.credit[o] = 0
  BY <1>2 DEF Fine, Content
<1>6. Fine(n)
  <2> SUFFICES ASSUME NEW x \in Orders PROVE n.credit[x] <= 1 /\ (n.credit[x] = 1 => x \in n.seen)
    BY DEF Fine
  <2>1. c.credit[x] <= 1 /\ (c.credit[x] = 1 => x \in c.seen)
    BY <1>2 DEF Fine
  <2>2. CASE x # o
    BY <2>1, <2>2, <1>1
  <2>3. CASE x = o
    BY <2>1, <2>3, <1>1, <1>5
  <2> QED BY <2>2, <2>3
<1>7. ContentOK' /\ EntrantOK'
  <2>1. \A i \in Objs : Fine(obj[i]) /\ obj'[i] \in {n, obj[i], Empty}
    BY <1>1 DEF Inner, ContentOK
  <2>2. \A i \in Objs : Fine(obj'[i])
    BY <2>1, <1>6, EmptyIs
  <2>3. Fine(db') /\ Fine(read')
    BY EmptyIs DEF Inner, ContentOK, Opened
  <2>4. EntrantOK'
    BY DEF Inner, EntrantOK, Opened
  <2>5. ContentOK'
    BY <2>2, <2>3 DEF ContentOK, Fine
  <2> QED BY <2>4, <2>5
<1>8. b \/ (Quiet' /\ cur' = k /\ k # None)
  BY <1>2 DEF Quiet, Opened
<1>9. PendingOK'
  <2> SUFFICES ASSUME NEW x \in Orders, NEW i \in Objs, <<x, i>> \in pending'
               PROVE  /\ x \in obj'[i].seen /\ obj'[i].credit[x] = 0
                      /\ x \in exposed' \/ (i = cur' /\ Quiet')
    BY DEF PendingOK
  <2>1. i \in Live'
    BY DEF Live
  <2>2. CASE <<x, i>> \in pending
    <3>1. /\ x \in obj[i].seen /\ obj[i].credit[x] = 0
          /\ x \in exposed \/ (i = cur /\ Quiet)
      BY <2>2 DEF Inner, PendingOK
    <3>2. x \in exposed' \/ (i = cur' /\ Quiet')
      BY <3>1, <1>2, <1>4 DEF Opened
    <3>3. CASE i = k
      <4>1. c = obj[i]
        BY <3>3, <2>2, <1>3 DEF Opened
      <4>2. obj'[i] = n
        BY <3>3, <2>1, <1>1
      <4> QED BY <4>1, <4>2, <3>1, <3>2, <1>1
    <3>4. CASE i # k
      BY <3>1, <3>2, <3>4, <2>1, <1>1
    <3> QED BY <3>3, <3>4
  <2>3. CASE <<x, i>> \notin pending
    <3>1. x = o /\ i = k /\ o \notin c.seen /\ n.credit[o] = c.credit[o]
      BY <2>3, <1>1
    <3>2. obj'[i] = n
      BY <3>1, <2>1, <1>1
    <3> QED BY <3>1, <3>2, <1>1, <1>4, <1>5, <1>8
  <2> QED BY <2>2, <2>3
<1>10. obj'[k] = n /\ \A i \in Writers : i # k => obj'[i] = obj[i]
  BY <1>1, <1>2, <1>3
<1>11. ASSUME NEW x \in Orders, Reached(x), n.credit[x] = c.credit[x] PROVE Reached(x)'
  <2>1. CASE Saved(x)
    <3>1. n.credit[x] = 1
      BY <2>1, <1>2, <1>11
    <3> QED BY <3>1, <2>1, <1>2, <1>10 DEF Reached, Saved, Opened
  <2>2. CASE Held(x)
    <3>1. cur # None /\ k = cur /\ c = obj[cur] /\ Quiet'
      BY <2>2, <1>2 DEF Held, Opened
    <3>2. pending \subseteq pending'
      BY <1>1
    <3> QED BY <3>1, <3>2, <2>2, <1>10, <1>11 DEF Reached, Held, Opened
  <2> QED BY <2>1, <2>2, <1>4, <1>11 DEF Reached
<1>12. ASSUME NEW x \in Orders, Known(x)', x # o \/ o \in c.seen PROVE Known(x)
  <2>1. CASE x \in obj'[k].seen
    <3>1. x \in c.seen
      BY <2>1, <1>1, <1>10, <1>12
    <3> QED BY <3>1, <1>2
  <2>2. CASE \E i \in Writers : i # k /\ x \in obj'[i].seen
    BY <2>2, <1>10 DEF Known
  <2>3. CASE x \in finish'
    <3>1. x \in finish \/ x \in c.seen
      BY <2>3, <1>1, <1>12
    <3> QED BY <3>1, <1>2 DEF Known
  <2> QED BY <1>12, <2>1, <2>2, <2>3, <1>2 DEF Known, Opened
<1>13. ASSUME NEW x \in Orders, Known(x)' PROVE Reached(x)'
  <2>1. CASE x # o \/ o \in c.seen
    <3>1. Reached(x)
      BY <2>1, <1>12, <1>13 DEF Inner, ReachedOK
    <3>2. n.credit[x] = c.credit[x]
      BY <2>1, <1>1
    <3> QED BY <3>1, <3>2, <1>11
  <2>2. CASE x = o /\ o \notin c.seen
    <3>1. n.credit[o] = 1 \/ <<o, k>> \in pending'
      BY <2>2, <1>1, <1>5
    <3> QED BY <2>2, <3>1, <1>4, <1>8, <1>10 DEF Reached, Held
  <2> QED BY <2>1, <2>2
<1> QED BY <1>7, <1>9, <1>13 DEF Inner, ReachedOK

LEMMA HandleStep ==
  ASSUME TypeOK, Inner, NEW o \in Orders, DealHere(o) \/ DealReturns(o)
  PROVE  Inner'
<1>1. CASE DealHere(o)
  <2>1. cur \in Objs /\ obj[cur] \in Content /\ autosave = autosave \cup {cur}
    BY <1>1 DEF DealHere, TypeOK
  <2>2. Opened(cur, obj[cur]) /\ Deal(o, cur, obj[cur])
    BY <1>1, <2>1 DEF DealHere, Opened, loadVars, delVars
  <2>3. Expose({o}, Moving \/ reading # {}) /\ reading' = reading
    BY <1>1 DEF DealHere, loadVars
  <2> QED BY <2>1, <2>2, <2>3, DealStep
<1>2. CASE DealReturns(o) /\ DealDropped(o)
  <2>1. cur \in Objs /\ obj[cur] \in Content /\ autosave = autosave \cup {cur}
    BY <1>2 DEF DealDropped, TypeOK
  <2>2. Opened(cur, obj[cur]) /\ Deal(o, cur, obj[cur])
    BY <1>2, <2>1 DEF DealReturns, DealDropped, Opened, delVars
  <2>3. Expose({o}, Moving) /\ reading' = {}
    BY <1>2 DEF DealReturns, DealDropped
  <2> QED BY <2>1, <2>2, <2>3, DealStep
<1>3. CASE DealReturns(o) /\ DealLoaded(o)
  <2>1. Fresh \in Objs /\ Fresh \notin Live /\ read \in Content
    BY <1>3, FreshOne DEF DealLoaded, Register, TypeOK
  <2>2. Opened(Fresh, read) /\ Deal(o, Fresh, read)
    BY <1>3, <2>1 DEF DealReturns, DealLoaded, Register, Opened, delVars
  <2>3. Expose({o}, Moving) /\ reading' = {}
    BY <1>3 DEF DealReturns, DealLoaded
  <2> QED BY <2>1, <2>2, <2>3, DealStep
<1> QED BY <1>1, <1>2, <1>3 DEF DealReturns

(* The credit after the rebate, on a registered or a removed object.       *)
LEMMA RebatedStep ==
  ASSUME TypeOK, Inner, NEW o \in Orders, NEW k \in Objs, Rebated(o, k)
  PROVE  Inner'
<1> USE BoundsAssumption
<1> DEFINE n == Credit(obj[k], o)
           f == [obj EXCEPT ![k] = n]
           b == Moving \/ reading # {} \/ k # cur
<1>1. /\ UNCHANGED <<state, cur, autosave, loadVars, delVars, db>>
      /\ <<o, k>> \in pending /\ pending' = pending \ {<<o, k>>}
      /\ finish' = finish \cup {o} /\ Expose({o}, b) /\ Become(f)
  BY DEF Rebated
<1>2. o \in obj[k].seen /\ obj[k].credit[o] = 0
  BY <1>1 DEF Inner, PendingOK
<1>3. /\ n \in Content /\ n.seen = obj[k].seen
      /\ \A x \in Orders : n.credit[x] = IF x = o THEN 1 ELSE obj[k].credit[x]
  <2>1. obj[k] \in Content
    BY DEF TypeOK
  <2>2. n \in Content /\ n.seen = obj[k].seen /\ n.credit = [obj[k].credit EXCEPT ![o] = @ + 1]
    BY <2>1, ContentSteps
  <2> QED BY <2>1, <2>2, <1>2 DEF Content
<1> HIDE DEF n
<1>4. f \in [Objs -> Content]
  BY <1>3 DEF TypeOK
<1>5. \A i \in Objs : obj'[i] = IF i \in Live' THEN IF i = k THEN n ELSE obj[i] ELSE Empty
  <2> HIDE DEF f
  <2>1. \A i \in Objs : obj'[i] = IF i \in Live' THEN f[i] ELSE Empty
    BY <1>1, <1>4, Becomes
  <2>2. \A i \in Objs : f[i] = IF i = k THEN n ELSE obj[i]
    BY DEF TypeOK, f
  <2> QED BY <2>1, <2>2
<1> HIDE DEF f
<1>6. exposed \subseteq exposed' /\ (b => o \in exposed')
  BY <1>1 DEF Expose
<1>7. /\ Quiet' <=> Quiet
      /\ Writers' = Writers /\ Writers \subseteq Live' /\ Writers \subseteq Objs
  BY <1>1, LiveOnes DEF Quiet, Moving, Astray, Writers, Live, loadVars, delVars, TypeOK
<1>8. ContentOK' /\ EntrantOK'
  <2>1. Fine(n) /\ \A i \in Objs : Fine(obj[i]) /\ obj'[i] \in {n, obj[i], Empty}
    BY <1>2, <1>3, <1>5 DEF Inner, ContentOK, Fine
  <2>2. \A i \in Objs : Fine(obj'[i])
    BY <2>1, EmptyIs
  <2>3. Fine(db') /\ Fine(read') /\ EntrantOK'
    BY <1>1 DEF Inner, ContentOK, EntrantOK, loadVars, delVars
  <2>4. ContentOK'
    BY <2>2, <2>3 DEF ContentOK, Fine
  <2> QED BY <2>3, <2>4
<1>9. PendingOK'
  <2> SUFFICES ASSUME NEW x \in Orders, NEW i \in Objs, <<x, i>> \in pending'
               PROVE  /\ x \in obj'[i].seen /\ obj'[i].credit[x] = 0
                      /\ x \in exposed' \/ (i = cur' /\ Quiet')
    BY DEF PendingOK
  <2>1. i \in Live' /\ <<x, i>> \in pending /\ (x # o \/ i # k)
    BY <1>1 DEF Live
  <2>2. /\ x \in obj[i].seen /\ obj[i].credit[x] = 0
        /\ x \in exposed \/ (i = cur /\ Quiet)
    BY <2>1 DEF Inner, PendingOK
  <2> QED BY <2>1, <2>2, <1>1, <1>3, <1>5, <1>6, <1>7
<1>10. \A i \in Writers : obj'[i] = IF i = k THEN n ELSE obj[i]
  BY <1>5, <1>7
<1>11. ASSUME NEW x \in Orders, Known(x)', x # o PROVE Reached(x)'
  <2>1. Known(x)
    BY <1>1, <1>3, <1>7, <1>10, <1>11 DEF Known, loadVars
  <2>2. CASE Saved(x)
    BY <2>2, <1>1, <1>3, <1>7, <1>10, <1>11 DEF Saved, Reached, loadVars
  <2>3. CASE Held(x)
    <3>1. cur \in Writers
      BY <2>3, LiveOnes DEF Held
    <3> QED BY <3>1, <2>3, <1>1, <1>3, <1>7, <1>10, <1>11 DEF Held, Reached
  <2> QED BY <2>1, <2>2, <2>3, <1>6 DEF Reached, Inner, ReachedOK
<1>12. Reached(o)'
  <2>1. CASE ~b
    <3>1. cur' = k /\ cur' # None /\ Quiet'
      BY <2>1, <1>1, <1>7 DEF Quiet
    <3>2. obj'[k].credit[o] = 1
      <4>1. k \in Writers
        BY <2>1, <3>1, <1>1, LiveOnes
      <4> QED BY <4>1, <1>10, <1>3
    <3> QED BY <3>1, <3>2 DEF Reached, Held
  <2> QED BY <2>1, <1>6 DEF Reached
<1> QED BY <1>8, <1>9, <1>11, <1>12 DEF Inner, ReachedOK

(* A handler waits for the lock, reads, or gives up.                       *)
LEMMA LoadStep ==
  ASSUME TypeOK, Inner,
         \E l \in Loaders : Wait(l) \/ Reads(l) \/ Refused(l)
  PROVE  Inner'
<1>1. /\ UNCHANGED <<state, finish, obj, cur, autosave, delVars, pending, exposed, db>>
      /\ ~Quiet \/ cur = None
      /\ \/ reading' = reading /\ read' = read
         \/ read' = db
         \/ reading' = {} /\ read' = Empty
  BY DEF Wait, Reads, Refused, Quiet, Moving
<1>2. /\ \A o \in Orders, k \in Objs : <<o, k>> \in pending => o \in exposed
      /\ \A o \in Orders : ~Held(o)
  BY <1>1, PendingExposed
<1>3. ContentOK' /\ EntrantOK'
  BY <1>1, EmptyIs DEF Inner, ContentOK, EntrantOK, Fine, delVars
<1>4. PendingOK'
  BY <1>1, <1>2 DEF Inner, PendingOK
<1>5. ASSUME NEW o \in Orders, Known(o)' PROVE Reached(o)'
  <2>1. Known(o)
    BY <1>1, <1>5 DEF Known, Writers, delVars
  <2>2. o \in exposed \/ Saved(o)
    BY <2>1, <1>2 DEF Inner, ReachedOK, Reached
  <2> QED BY <2>2, <1>1 DEF Reached, Saved, Writers, delVars
<1> QED BY <1>3, <1>4, <1>5 DEF Inner, ReachedOK

(* The login registers what it has read, or begins to replace the object   *)
(* that somebody else has registered.                                      *)
LEMMA LoginStep ==
  ASSUME TypeOK, Inner, LoginReturns
  PROVE  Inner'
<1> USE BoundsAssumption
<1>1. /\ UNCHANGED <<state, finish, pending>> /\ reading # {}
      /\ reading' = {} /\ read' = Empty
  BY DEF LoginReturns
<1>2. /\ Fresh \in Objs /\ Fresh \notin Live /\ Fresh # None /\ Fresh \notin Writers
  BY FreshOne DEF LoginReturns, LoginAdds, LoginReplaces, Register
<1> DEFINE f == [obj EXCEPT ![Fresh] = read]
<1>3. f \in [Objs -> Content] /\ \A i \in Objs : f[i] = IF i = Fresh THEN read ELSE obj[i]
  BY <1>2 DEF TypeOK
<1>4. Become(f)
  BY DEF LoginReturns, LoginAdds, LoginReplaces
<1> HIDE DEF f
<1>5. \A i \in Objs : obj'[i] = IF i \in Live' THEN IF i = Fresh THEN read ELSE obj[i] ELSE Empty
  BY <1>3, <1>4, Becomes
<1>6. /\ \A o \in Orders, k \in Objs : <<o, k>> \in pending => o \in exposed /\ k # Fresh
      /\ \A o \in Orders : ~Held(o)
  BY <1>1, <1>2, PendingExposed, LiveOnes DEF Quiet
<1>7. /\ exposed \subseteq exposed' /\ EntrantOK'
      /\ db' = db \/ (cur # None /\ db' = obj[cur])
      /\ Fresh \in Writers' /\ Writers' \subseteq Writers \cup {Fresh}
      /\ Writers' \subseteq Live' /\ Writers \subseteq Objs
  <2>1. CASE LoginAdds
    BY <2>1, <1>2, LiveOnes DEF LoginAdds, Register, delVars, Inner, EntrantOK, Writers, Live, TypeOK
  <2>2. CASE LoginReplaces
    <3>1. /\ leaving'["login"] # None /\ db' \in {db, obj[cur]} /\ exposed \subseteq exposed'
      BY <2>2, BeginDelType DEF LoginReplaces, Dels
    <3> QED BY <3>1, <2>2, <1>2, LiveOnes
            DEF LoginReplaces, EntrantOK, Writers, Live, TypeOK
  <2> QED BY <2>1, <2>2 DEF LoginReturns
<1>8. ContentOK'
  <2>1. Fine(read) /\ \A i \in Objs : Fine(obj[i]) /\ obj'[i] \in {read, obj[i], Empty}
    BY <1>5 DEF Inner, ContentOK
  <2>2. \A i \in Objs : Fine(obj'[i])
    BY <2>1, EmptyIs
  <2>3. Fine(db')
    BY <1>7, LiveOnes DEF Inner, ContentOK
  <2> QED BY <2>2, <2>3, <1>1, EmptyIs DEF ContentOK, Fine
<1>9. PendingOK'
  <2> SUFFICES ASSUME NEW x \in Orders, NEW i \in Objs, <<x, i>> \in pending'
               PROVE  x \in obj'[i].seen /\ obj'[i].credit[x] = 0 /\ x \in exposed'
    BY DEF PendingOK
  <2>1. i \in Live' /\ <<x, i>> \in pending
    BY <1>1 DEF Live
  <2>2. x \in obj[i].seen /\ obj[i].credit[x] = 0
    BY <2>1 DEF Inner, PendingOK
  <2> QED BY <2>1, <2>2, <1>5, <1>6, <1>7
<1>10. ASSUME NEW o \in Orders, Known(o)' PROVE Reached(o)'
  <2>1. \A i \in Writers' : i # Fresh => i \in Writers /\ obj'[i] = obj[i]
    BY <1>2, <1>5, <1>7
  <2>2. obj'[Fresh] = read
    BY <1>2, <1>5, <1>7
  <2>3. cur # None => cur \in Writers
    BY LiveOnes
  <2>4. Known(o)
    BY <2>1, <2>2, <2>3, <1>1, <1>7, <1>10 DEF Known
  <2>5. o \in exposed \/ Saved(o)
    BY <2>4, <1>6 DEF Inner, ReachedOK, Reached
  <2> QED BY <2>1, <2>2, <2>3, <2>5, <1>1, <1>7 DEF Reached, Saved
<1> QED BY <1>7, <1>8, <1>9, <1>10 DEF Inner, ReachedOK

(* delplayer begins to unload the registered object.                       *)
LEMMA UnloadStep ==
  ASSUME TypeOK, Inner, BeginUnload
  PROVE  Inner'
<1>1. /\ UNCHANGED <<state, finish, obj, cur, autosave, loadVars, entrant, pending>>
      /\ cur # None
  BY DEF BeginUnload
<1>2. /\ leaving'["unload"] # None
      /\ \A d \in Dels : leaving[d] # None => leaving'[d] # None
      /\ db' \in {db, obj[cur]} /\ exposed \subseteq exposed'
      /\ \A o \in Orders, k \in Objs : <<o, k>> \in pending => o \in exposed'
      /\ \A o \in Orders : o \in obj[cur].seen /\ db.credit[o] = 0 =>
            db' = obj[cur] \/ o \in exposed'
  BY BeginDelType DEF BeginUnload, Dels
<1>3. cur \in Objs /\ cur \in Writers /\ Writers' = Writers
  BY <1>1, LiveOnes DEF Writers
<1>4. ContentOK' /\ EntrantOK'
  BY <1>1, <1>2, <1>3 DEF Inner, ContentOK, EntrantOK, Fine, Dels, loadVars
<1>5. PendingOK'
  BY <1>1, <1>2 DEF Inner, PendingOK
<1>6. ASSUME NEW o \in Orders, Known(o)' PROVE Reached(o)'
  <2>1. Known(o)
    BY <1>1, <1>2, <1>3, <1>6 DEF Known, loadVars
  <2>2. CASE Saved(o)
    BY <2>2, <1>1, <1>2, <1>3 DEF Saved, Reached, loadVars
  <2>3. CASE Held(o) /\ <<o, cur>> \in pending
    BY <2>3, <1>2, <1>3 DEF Reached
  <2>4. CASE Held(o) /\ obj[cur].credit[o] = 1
    <3>1. reading = {} /\ Writers \subseteq {cur}
      BY <2>4, QuietOnes DEF Held
    <3>2. o \in obj[cur].seen
      BY <2>4, <1>3 DEF Inner, ContentOK, Fine
    <3>3. db.credit[o] = 0 \/ db.credit[o] = 1
      <4>1. db.credit[o] \in Nat /\ db.credit[o] <= 1
        BY DEF Inner, ContentOK, Fine, TypeOK, Content
      <4> QED BY <4>1
    <3>4. o \in exposed' \/ db'.credit[o] = 1
      BY <2>4, <3>2, <3>3, <1>2
    <3> QED BY <2>4, <3>1, <3>4, <1>1, <1>3 DEF Reached, Saved, loadVars
  <2> QED BY <2>1, <2>2, <2>3, <2>4, <1>2 DEF Inner, ReachedOK, Reached, Held
<1> QED BY <1>4, <1>5, <1>6 DEF Inner, ReachedOK

(* delplayer ends, in an unloading or in a login.                          *)
LEMMA EndStep ==
  ASSUME TypeOK, Inner, EndUnload \/ LoginEnds
  PROVE  Inner'
<1> USE BoundsAssumption
<1>1. /\ UNCHANGED <<state, finish, loadVars, pending, exposed, db>>
      /\ Become(obj)
  BY DEF EndUnload, LoginEnds, EndDel
<1>2. ~Quiet
  BY DEF EndUnload, LoginEnds, EndDel, Quiet, Moving, Dels
<1>3. /\ \A o \in Orders, k \in Objs : <<o, k>> \in pending => o \in exposed
      /\ \A o \in Orders : ~Held(o)
  BY <1>2, PendingExposed
<1>4. \A k \in Objs : obj'[k] = IF k \in Live' THEN obj[k] ELSE Empty
  BY <1>1, Becomes DEF TypeOK
<1>5. Writers' \subseteq Writers /\ Writers' \subseteq Live' /\ EntrantOK'
  <2>1. CASE EndUnload
    BY <2>1 DEF EndUnload, EndDel, Writers, Live, Inner, EntrantOK, TypeOK, Dels
  <2>2. CASE LoginEnds
    BY <2>2 DEF LoginEnds, EndDel, Writers, Live, EntrantOK, TypeOK
  <2> QED BY <2>1, <2>2
<1>6. \A k \in Writers' : k \in Writers /\ obj'[k] = obj[k]
  BY <1>4, <1>5, LiveOnes
<1>7. ContentOK'
  BY <1>1, <1>4, EmptyIs DEF Inner, ContentOK, Fine, loadVars
<1>8. PendingOK'
  <2> SUFFICES ASSUME NEW x \in Orders, NEW i \in Objs, <<x, i>> \in pending'
               PROVE  x \in obj'[i].seen /\ obj'[i].credit[x] = 0 /\ x \in exposed'
    BY DEF PendingOK
  <2>1. i \in Live' /\ <<x, i>> \in pending
    BY <1>1 DEF Live
  <2>2. x \in obj[i].seen /\ obj[i].credit[x] = 0
    BY <2>1 DEF Inner, PendingOK
  <2> QED BY <2>1, <2>2, <1>1, <1>3, <1>4
<1>9. ASSUME NEW o \in Orders, Known(o)' PROVE Reached(o)'
  <2>1. Known(o)
    BY <1>1, <1>6, <1>9 DEF Known, loadVars
  <2>2. o \in exposed \/ Saved(o)
    BY <2>1, <1>3 DEF Inner, ReachedOK, Reached
  <2> QED BY <2>2, <1>1, <1>6 DEF Reached, Saved, loadVars
<1> QED BY <1>5, <1>7, <1>8, <1>9 DEF Inner, ReachedOK

(* The autosave of an object, registered or astray.                        *)
LEMMA AutosaveStep ==
  ASSUME TypeOK, Inner, NEW k \in Objs, Autosave(k)
  PROVE  Inner'
<1>1. UNCHANGED <<state, finish, gameVars>> /\ db' = obj[k] /\ k \in Writers
  BY DEF Autosave, Writers
<1>2. Quiet' <=> Quiet
  BY <1>1 DEF Quiet, Moving, Astray, gameVars, loadVars, delVars
<1>3. ContentOK' /\ EntrantOK'
  BY <1>1 DEF Inner, ContentOK, EntrantOK, Fine, gameVars, loadVars, delVars
<1>4. PendingOK'
  BY <1>1, <1>2 DEF Inner, PendingOK, gameVars
<1>5. ASSUME NEW o \in Orders, Known(o)' PROVE Reached(o)'
  <2>1. Known(o)
    BY <1>1, <1>5 DEF Known, Writers, gameVars, loadVars, delVars
  <2>2. (Saved(o) => Saved(o)') /\ (Held(o) => Held(o)')
    BY <1>1, <1>2 DEF Saved, Held, Writers, gameVars, loadVars, delVars
  <2> QED BY <2>1, <2>2, <1>1 DEF Inner, ReachedOK, Reached, gameVars
<1> QED BY <1>3, <1>4, <1>5 DEF Inner, ReachedOK

(* A crash of the game server.                                             *)
LEMMA CrashStep ==
  ASSUME TypeOK, Inner, CrashGame
  PROVE  Inner'
<1>1. /\ UNCHANGED <<state, finish, db>> /\ pending' = {}
      /\ cur' = None /\ reading' = {} /\ read' = Empty
      /\ autosave' = {} /\ entrant' = None /\ Become(obj)
      /\ exposed' = exposed \cup {x[1] : x \in pending} \cup
            IF cur = None THEN {} ELSE {o \in obj[cur].seen : db.credit[o] = 0}
  BY DEF CrashGame
<1>2. Writers' = {} /\ \A k \in Objs : obj'[k] \in {obj[k], Empty}
  BY <1>1, Becomes DEF Writers, TypeOK
<1>3. ContentOK' /\ EntrantOK' /\ PendingOK'
  BY <1>1, <1>2, EmptyIs DEF Inner, ContentOK, EntrantOK, PendingOK, Fine
<1>4. ASSUME NEW o \in Orders, Known(o)' PROVE Reached(o)'
  <2>1. Known(o)
    BY <1>1, <1>2, <1>4 DEF Known
  <2>2. CASE Saved(o)
    BY <2>2, <1>1, <1>2 DEF Saved, Reached
  <2>3. CASE Held(o) /\ <<o, cur>> \in pending
    BY <2>3, <1>1 DEF Reached
  <2>4. CASE Held(o) /\ obj[cur].credit[o] = 1
    <3>1. o \in obj[cur].seen /\ cur # None
      BY <2>4, LiveOnes DEF Inner, ContentOK, Fine, Held
    <3>2. db.credit[o] = 0 \/ db.credit[o] = 1
      <4>1. db.credit[o] \in Nat /\ db.credit[o] <= 1
        BY DEF Inner, ContentOK, Fine, TypeOK, Content
      <4> QED BY <4>1
    <3> QED BY <3>1, <3>2, <1>1, <1>2 DEF Reached, Saved
  <2> QED BY <2>1, <2>2, <2>3, <2>4, <1>1 DEF Inner, ReachedOK, Reached, Held
<1> QED BY <1>3, <1>4 DEF Inner, ReachedOK

(* The steps of the chainbridge service, and the messages that are lost.   *)
LEMMA OutsideSteps ==
  ASSUME TypeOK, Inner,
         \/ \E o \in Orders :
               \/ \E k \in Kinds : Insert(o, k)
               \/ Finished(o) \/ LoseDeal(o) \/ LoseFinish(o) \/ DealNobody(o)
               \/ \E w \in {"other", "ok"} : BindWallet(o, w)
               \/ \E p \in Passes : Ask(p, o)
         \/ \E p \in Passes : CheckAny(p) \/ Answered(p) \/ Send(p)
         \/ CrashBridge
  PROVE  Inner'
<1>1. ASSUME NEW o \in Orders, NEW k \in Kinds, Insert(o, k) PROVE Inner'
  BY <1>1, OutsideStep DEF Insert, TypeOK
<1>2. ASSUME NEW o \in Orders, Finished(o) PROVE Inner'
  BY <1>2, OutsideStep DEF Finished, TypeOK
<1>3. ASSUME NEW o \in Orders, LoseDeal(o) \/ LoseFinish(o) \/ DealNobody(o) PROVE Inner'
  BY <1>3, OutsideStep DEF LoseDeal, LoseFinish, DealNobody
<1>4. ASSUME NEW o \in Orders, NEW w \in {"other", "ok"}, BindWallet(o, w) PROVE Inner'
  BY <1>4, OutsideStep DEF BindWallet
<1>5. ASSUME NEW o \in Orders, NEW p \in Passes, Ask(p, o) PROVE Inner'
  BY <1>5, OutsideStep DEF Ask
<1>6. ASSUME NEW p \in Passes, CheckAny(p) PROVE Inner'
  BY <1>6, OutsideStep DEF CheckAny, Check
<1>7. ASSUME NEW p \in Passes, Answered(p) PROVE Inner'
  BY <1>7, OutsideStep DEF Answered, TypeOK
<1>8. ASSUME NEW p \in Passes, Send(p) PROVE Inner'
  BY <1>8, OutsideStep DEF Send
<1>9. CASE CrashBridge
  BY <1>9, OutsideStep DEF CrashBridge
<1> QED BY <1>1, <1>2, <1>3, <1>4, <1>5, <1>6, <1>7, <1>8, <1>9

-----------------------------------------------------------------------------
(* The invariant holds initially and is kept by every step of the chain    *)
(* bridge, the game server and their failures.                             *)
THEOREM Inductive == Spec => []IInv
<1>1. Init => IInv
  <2> SUFFICES ASSUME Init PROVE IInv
    OBVIOUS
  <2>1. TypeOK
    <3>1. NoPass \in Pass
      BY DEF NoPass, Pass
    <3>2. /\ obj \in [Objs -> Content] /\ pass \in [Passes -> Pass]
          /\ db \in Content /\ read \in Content
      BY <3>1, EmptyIs DEF Init
    <3>3. deal \in [Orders -> 0..MaxCopies] /\ crashes \in 0..MaxCrashes
      BY BoundsAssumption DEF Init
    <3>4. kind \in [Orders -> Kinds] /\ leaving \in [Dels -> Objs \cup {None}]
      BY DEF Init, Kinds
    <3> QED BY <3>2, <3>3, <3>4 DEF Init, TypeOK
  <2>2. ContentOK
    BY EmptyIs DEF Init, ContentOK
  <2>3. EntrantOK /\ PendingOK
    BY DEF Init, EntrantOK, PendingOK
  <2>4. ReachedOK
    BY DEF Init, ReachedOK, Known, Writers, Empty
  <2> QED BY <2>1, <2>2, <2>3, <2>4 DEF IInv, Inner
<1>2. IInv /\ [Next]_vars => IInv'
  <2> SUFFICES ASSUME IInv, [Next]_vars PROVE IInv'
    OBVIOUS
  <2>1. TypeOK /\ Inner
    BY DEF IInv
  <2>2. TypeOK'
    BY <2>1, TypeStep
  <2>3. Inner'
    <3>1. CASE UNCHANGED vars
      BY <2>1, <3>1, OutsideStep DEF vars
    <3>2. ASSUME NEW o \in Orders, DealHere(o) \/ DealReturns(o) PROVE Inner'
      BY <2>1, <3>2, HandleStep
    <3>3. ASSUME NEW o \in Orders, NEW k \in Objs, Rebated(o, k) PROVE Inner'
      BY <2>1, <3>3, RebatedStep
    <3>4. ASSUME NEW o \in Orders, DealLoads(o) PROVE Inner'
      BY <2>1, <3>4, LoadStep DEF DealLoads, Loaders
    <3>5. CASE LoginLoads
      BY <2>1, <3>5, LoadStep DEF LoginLoads, Loaders
    <3>6. ASSUME NEW l \in Loaders, Reads(l) \/ Refused(l) PROVE Inner'
      BY <2>1, <3>6, LoadStep
    <3>7. CASE LoginReturns
      BY <2>1, <3>7, LoginStep
    <3>8. CASE BeginUnload
      BY <2>1, <3>8, UnloadStep
    <3>9. CASE EndUnload \/ LoginEnds
      BY <2>1, <3>9, EndStep
    <3>10. ASSUME NEW k \in Objs, Autosave(k) PROVE Inner'
      BY <2>1, <3>10, AutosaveStep
    <3>11. CASE CrashGame
      BY <2>1, <3>11, CrashStep
    <3>12. CASE \/ \E o \in Orders :
                     \/ \E k \in Kinds : Insert(o, k)
                     \/ Finished(o) \/ LoseDeal(o) \/ LoseFinish(o) \/ DealNobody(o)
                     \/ \E w \in {"other", "ok"} : BindWallet(o, w)
                     \/ \E p \in Passes : Ask(p, o)
                \/ \E p \in Passes : CheckAny(p) \/ Answered(p) \/ Send(p)
                \/ CrashBridge
      BY <2>1, <3>12, OutsideSteps
    <3> QED BY <3>1, <3>2, <3>3, <3>4, <3>5, <3>6, <3>7, <3>8, <3>9, <3>10, <3>11, <3>12
            DEF Next
  <2> QED BY <2>2, <2>3 DEF IInv
<1> QED BY <1>1, <1>2, PTL DEF Spec

(* The state of the orders and of the player keeps its types.              *)
THEOREM TypeCorrect == Spec => []TypeOK
<1>1. IInv => TypeOK
  BY DEF IInv
<1> QED BY <1>1, Inductive, PTL

(* ChainBridgeBag credits an order at most once, in the saved document and *)
(* in every object, whatever is sent again, lost or crashes, and whatever  *)
(* content a load, a login or an object astray brings back.                *)
THEOREM CreditsOnce == Spec => []CreditedOnce
<1>1. IInv => CreditedOnce
  BY DEF IInv, Inner, ContentOK, Fine, CreditedOnce
<1> QED BY <1>1, Inductive, PTL

(* rechargeTokenFinish and payOrderFinish settle only orders whose credit  *)
(* is saved, is in the registered object or is about to be made, except    *)
(* for those that SettledIsCredited names.                                 *)
THEOREM SettledOrdersAreCredited == Spec => []SettledIsCredited
<1>1. IInv => SettledIsCredited
  BY DEF IInv, Inner, ReachedOK, Known, Reached, Saved, Held, SettledIsCredited
<1> QED BY <1>1, Inductive, PTL
=============================================================================
