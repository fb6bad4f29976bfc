------------------------- MODULE ClusterQueueProofs -------------------------
(***************************************************************************)
(* Proofs about ClusterQueue: the type invariant, and mutual exclusion for *)
(* any number of clients and locks, with wakeups that overtake answers,    *)
(* calls that fail, messages that are lost and nodes that stop.            *)
(*                                                                         *)
(* The lock is a token.  It is with a coroutine that runs, in an answer    *)
(* that says yes, in a wakeup or in an unlock that is on its way, and the  *)
(* centerserver gives it away again only after it has got it back: there   *)
(* is never more than one, and none while the centerserver has the lock    *)
(* for free.                                                               *)
(***************************************************************************)
EXTENDS ClusterQueue, SequenceTheorems, TLAPS

Places == {"running", "answer", "wakeup", "unlock"}

Token(k, c, n) ==
    \/ k = "running" /\ n = 0 /\ pc[c] = "running"
    \/ k = "answer" /\ [point |-> n, ok |-> TRUE] \in answers[c]
    \/ k = "wakeup" /\ [client |-> c, point |-> n] \in wakeups
    \/ k = "unlock" /\ n \in 1..Len(requests[c]) /\ requests[c][n] = Unlock

OneToken ==
    \A j, k \in Places, c, d \in Clients, m, n \in Nat :
        Token(j, c, m) /\ Token(k, d, n) => j = k /\ c = d /\ m = n

TokenOfHeld ==
    \A k \in Places, c \in Clients, n \in Nat : Token(k, c, n) => exists

IInv == TypeOK /\ OneToken /\ TokenOfHeld
-----------------------------------------------------------------------------
(* Every variable keeps its type: what arrives at the centerserver or at a *)
(* node is a request, an answer or a wakeup of a coroutine there is.       *)
THEOREM TypeCorrect == Spec => []TypeOK
<1> USE ClusterQueueAssumption
<1>0. Unlock \in Points /\ 0 \in Points
  BY DEF Points, Unlock
<1>1. Init => TypeOK
  <2>1. <<>> \in Seq(Waiter) /\ <<>> \in Seq(Points)
    BY EmptySeq
  <2>2. QED
    BY <1>0, <2>1 DEF Init, TypeOK
<1>2. TypeOK /\ [Next]_vars => TypeOK'
  <2> SUFFICES ASSUME TypeOK, [Next]_vars PROVE TypeOK'
    OBVIOUS
  <2> USE <1>0 DEF TypeOK
  <2>1. ASSUME NEW c \in Clients, LockLocally(c) PROVE TypeOK'
    <3>1. point[c] + 1 \in Points
      BY <2>1 DEF LockLocally, Points
    <3>2. point' \in [Clients -> Points] /\ point'[c] \in Points
      BY <2>1, <3>1 DEF LockLocally
    <3>3. [client |-> c, point |-> point'[c]] \in Waiter
      BY <3>2 DEF Waiter
    <3>a. Append(waiting, [client |-> c, point |-> point'[c]]) \in Seq(Waiter)
      BY <3>3, AppendProperties
    <3>4. waiting' \in Seq(Waiter)
      BY <2>1, <3>a DEF LockLocally, Granted
    <3>b. [of |-> [client |-> c, point |-> point'[c]], atOnce |-> TRUE] \in Owner
      BY <3>3 DEF Owner
    <3>5. exists' \in BOOLEAN /\ owner' \in Owner \cup {None}
      BY <2>1, <3>b DEF LockLocally, Granted
    <3>6. QED
      BY <2>1, <3>2, <3>4, <3>5 DEF LockLocally
  <2>2. ASSUME NEW c \in Clients, LockCalls(c) PROVE TypeOK'
    <3>1. point[c] + 1 \in Points
      BY <2>2 DEF LockCalls, Points
    <3>2. point' \in [Clients -> Points] /\ point'[c] \in Points
      BY <2>2, <3>1 DEF LockCalls
    <3>3. requests' \in [Clients -> Seq(Points)]
      BY <2>2, <3>2 DEF LockCalls
    <3>4. QED
      BY <2>2, <3>2, <3>3 DEF LockCalls
  <2>3. ASSUME NEW c \in Clients, LockReturns(c) PROVE TypeOK'
    BY <2>3 DEF LockReturns
  <2>4. ASSUME NEW c \in Clients, CallFails(c) PROVE TypeOK'
    <3>a. <<>> \in Seq(Points)
      BY EmptySeq
    <3>1. requests' \in [Clients -> Seq(Points)]
      BY <2>4, <3>a DEF CallFails
    <3>2. QED
      BY <2>4, <3>1 DEF CallFails
  <2>5. ASSUME Released PROVE /\ exists' \in BOOLEAN /\ waiting' \in Seq(Waiter)
                              /\ wakeups' \in SUBSET Waiter /\ owner' \in Owner \cup {None}
    <3>1. CASE waiting = <<>> \/ ~exists
      BY <2>5, <3>1 DEF Released
    <3>2. CASE ~(waiting = <<>> \/ ~exists)
      <4>1. Head(waiting) \in Waiter /\ Tail(waiting) \in Seq(Waiter)
        BY <3>2
      <4>2. [of |-> Head(waiting), atOnce |-> FALSE] \in Owner
        BY <4>1 DEF Owner
      <4>3. QED
        BY <2>5, <3>2, <4>1, <4>2 DEF Released
    <3>3. QED
      BY <3>1, <3>2
  <2>6. ASSUME NEW c \in Clients, UnlockLocally(c) PROVE TypeOK'
    BY <2>6, <2>5 DEF UnlockLocally
  <2>7. ASSUME NEW c \in Clients, UnlockSends(c) PROVE TypeOK'
    <3>1. requests' \in [Clients -> Seq(Points)]
      BY <2>7 DEF UnlockSends
    <3>2. QED
      BY <2>7, <3>1 DEF UnlockSends
  <2>8. ASSUME NEW c \in Clients, ApiLock(c) PROVE TypeOK'
    <3>1. Head(requests[c]) \in Points /\ Tail(requests[c]) \in Seq(Points)
      BY <2>8 DEF ApiLock
    <3>2. [client |-> c, point |-> Head(requests[c])] \in Waiter
      BY <3>1 DEF Waiter
    <3>3. [point |-> Head(requests[c]), ok |-> ~exists] \in [point : Points, ok : BOOLEAN]
      BY <3>1
    <3>4. answers' \in [Clients -> SUBSET [point : Points, ok : BOOLEAN]]
      BY <2>8, <3>3 DEF ApiLock
    <3>5. requests' \in [Clients -> Seq(Points)]
      BY <2>8, <3>1 DEF ApiLock
    <3>a. Append(waiting, [client |-> c, point |-> Head(requests[c])]) \in Seq(Waiter)
      BY <3>2, AppendProperties
    <3>6. waiting' \in Seq(Waiter)
      BY <2>8, <3>a DEF ApiLock, Granted
    <3>b. [of |-> [client |-> c, point |-> Head(requests[c])], atOnce |-> TRUE] \in Owner
      BY <3>2 DEF Owner
    <3>7. exists' \in BOOLEAN /\ owner' \in Owner \cup {None}
      BY <2>8, <3>b DEF ApiLock, Granted
    <3>8. QED
      BY <2>8, <3>4, <3>5, <3>6, <3>7 DEF ApiLock
  <2>9. ASSUME NEW c \in Clients, ApiUnlock(c) PROVE TypeOK'
    <3>1. requests' \in [Clients -> Seq(Points)]
      BY <2>9 DEF ApiUnlock
    <3>2. QED
      BY <2>9, <2>5, <3>1 DEF ApiUnlock
  <2>10. ASSUME NEW w \in wakeups, Wakeup(w) PROVE TypeOK'
    BY <2>10 DEF Wakeup
  <2>11. ASSUME NEW c \in Clients, SendsLost(c) PROVE TypeOK'
    <3>a. <<>> \in Seq(Points)
      BY EmptySeq
    <3>1. requests' \in [Clients -> Seq(Points)]
      BY <2>11, <3>a DEF SendsLost
    <3>2. QED
      BY <2>11, <3>1 DEF SendsLost
  <2>12. ASSUME NEW w \in wakeups, WakeupLost(w) PROVE TypeOK'
    BY <2>12 DEF WakeupLost
  <2>13. ASSUME NEW c \in Clients, Stops(c) PROVE TypeOK'
    BY <2>13 DEF Stops
  <2>14. CASE UNCHANGED vars
    BY <2>14 DEF vars
  <2>15. QED
    BY <2>1, <2>2, <2>3, <2>4, <2>6, <2>7, <2>8, <2>9, <2>10, <2>11, <2>12, <2>13, <2>14
       DEF Next, Center
<1>3. QED
  BY <1>1, <1>2, PTL DEF Spec
-----------------------------------------------------------------------------
(* A step after which there is no token but one leaves the lock well.      *)
LEMMA AtMostOne ==
    ASSUME NEW j \in Places, NEW c \in Clients, NEW m \in Nat, exists',
           \A k \in Places, d \in Clients, n \in Nat :
               Token(k, d, n)' => k = j /\ d = c /\ n = m
    PROVE  OneToken' /\ TokenOfHeld'
  BY DEF OneToken, TokenOfHeld

(* So does one after which there is none at all,                           *)
LEMMA NoneLeft ==
    ASSUME \A k \in Places, d \in Clients, n \in Nat : ~Token(k, d, n)'
    PROVE  OneToken' /\ TokenOfHeld'
  BY DEF OneToken, TokenOfHeld

(* and one that makes no token and leaves a held lock held.                *)
LEMMA NoneMade ==
    ASSUME OneToken, TokenOfHeld, exists => exists',
           \A k \in Places, d \in Clients, n \in Nat : Token(k, d, n)' => Token(k, d, n)
    PROVE  OneToken' /\ TokenOfHeld'
  BY DEF OneToken, TokenOfHeld

(* With the token back at the centerserver it is at most in one wakeup.    *)
LEMMA ReleasedOnce ==
    ASSUME TypeOK, Released, exists,
           \A k \in Places, d \in Clients, n \in Nat :
               Token(k, d, n)' => /\ k = "wakeup"
                                  /\ [client |-> d, point |-> n] \in wakeups' \ wakeups
    PROVE  OneToken' /\ TokenOfHeld'
<1>1. CASE waiting = <<>>
  <2>1. wakeups' = wakeups
    BY <1>1 DEF Released
  <2>2. QED
    BY <2>1, NoneLeft
<1>2. CASE waiting # <<>>
  <2>1. Head(waiting) \in Waiter
    BY <1>2 DEF TypeOK
  <2>2. PICK c \in Clients, p \in Points : Head(waiting) = [client |-> c, point |-> p]
    BY <2>1 DEF Waiter
  <2>3. p \in Nat
    BY ClusterQueueAssumption DEF Points
  <2>4. wakeups' = wakeups \cup {[client |-> c, point |-> p]} /\ exists'
    BY <1>2, <2>2 DEF Released
  <2>5. "wakeup" \in Places
    BY DEF Places
  <2>6. ASSUME NEW k \in Places, NEW d \in Clients, NEW n \in Nat, Token(k, d, n)'
        PROVE  k = "wakeup" /\ d = c /\ n = p
    <3>1. k = "wakeup" /\ [client |-> d, point |-> n] \in wakeups' \ wakeups
      BY <2>6
    <3>2. [client |-> d, point |-> n] = [client |-> c, point |-> p]
      BY <2>4, <3>1
    <3>3. QED
      BY <3>1, <3>2
  <2>7. QED
    BY <2>3, <2>4, <2>5, <2>6, AtMostOne
<1>3. QED
  BY <1>1, <1>2
-----------------------------------------------------------------------------
(* No step makes a second token, or one while the lock is free.            *)
LEMMA TokenStep == IInv /\ TypeOK' /\ [Next]_vars => OneToken' /\ TokenOfHeld'
<1> SUFFICES ASSUME IInv, TypeOK', [Next]_vars PROVE OneToken' /\ TokenOfHeld'
  OBVIOUS
<1> USE ClusterQueueAssumption DEF IInv
<1>a. Points \subseteq Nat /\ 0 \in Nat
  BY DEF Points
<1>c. ASSUME NEW c \in Clients, pc[c] = "running",
             NEW k \in Places, NEW d \in Clients, NEW n \in Nat, Token(k, d, n)
      PROVE  k = "running" /\ d = c /\ n = 0 /\ exists
  BY <1>c DEF OneToken, TokenOfHeld, Token, Places
<1>1. ASSUME NEW c \in Clients, LockLocally(c) PROVE OneToken' /\ TokenOfHeld'
  <2>0. UNCHANGED <<requests, answers, wakeups>>
    BY <1>1 DEF LockLocally
  <2>1. CASE exists
    <3>1. exists' /\ pc' = [pc EXCEPT ![c] = "asleep"]
      BY <1>1, <2>1 DEF LockLocally, Granted
    <3>2. \A d \in Clients : pc'[d] = "running" => pc[d] = "running"
      BY <3>1 DEF TypeOK
    <3>3. \A k \in Places, d \in Clients, n \in Nat : Token(k, d, n)' => Token(k, d, n)
      BY <2>0, <3>2 DEF Token
    <3>4. QED
      BY <3>1, <3>3, NoneMade
  <2>2. CASE ~exists
    <3>1. exists' /\ pc' = [pc EXCEPT ![c] = "running"]
      BY <1>1, <2>2 DEF LockLocally, Granted
    <3>2. \A k \in Places, d \in Clients, n \in Nat : ~Token(k, d, n)
      BY <2>2 DEF TokenOfHeld
    <3>3. \A k \in Places, d \in Clients, n \in Nat :
              Token(k, d, n)' => k = "running" /\ d = c /\ n = 0
      BY <2>0, <3>1, <3>2 DEF Token, TypeOK
    <3>4. "running" \in Places
      BY DEF Places
    <3>5. QED
      BY <1>a, <3>1, <3>3, <3>4, AtMostOne
  <2>3. QED
    BY <2>1, <2>2
<1>2. ASSUME NEW c \in Clients, LockCalls(c) PROVE OneToken' /\ TokenOfHeld'
  <2>1. UNCHANGED <<exists, answers, wakeups>>
    BY <1>2 DEF LockCalls
  <2>2. \A d \in Clients : pc'[d] = "running" => pc[d] = "running"
    BY <1>2 DEF LockCalls, TypeOK
  <2>3. point'[c] \in Points /\ point'[c] # Unlock
    BY <1>2 DEF LockCalls, TypeOK, Points, Unlock
  <2>4. ASSUME NEW d \in Clients, NEW n \in Nat, n \in 1..Len(requests'[d]),
               requests'[d][n] = Unlock
        PROVE  n \in 1..Len(requests[d]) /\ requests[d][n] = Unlock
    <3>1. CASE d # c
      BY <1>2, <2>4, <3>1 DEF LockCalls, TypeOK
    <3>2. CASE d = c
      <4>1. requests[c] \in Seq(Points) /\ requests'[c] = Append(requests[c], point'[c])
        BY <1>2 DEF LockCalls, TypeOK
      <4>2. QED
        BY <2>3, <2>4, <3>2, <4>1
    <3>3. QED
      BY <3>1, <3>2
  <2>5. \A k \in Places, d \in Clients, n \in Nat : Token(k, d, n)' => Token(k, d, n)
    BY <2>1, <2>2, <2>4 DEF Token
  <2>6. QED
    BY <2>1, <2>5, NoneMade
<1>3. ASSUME NEW c \in Clients, LockReturns(c) PROVE OneToken' /\ TokenOfHeld'
  <2>0. UNCHANGED <<exists, requests, wakeups>>
    BY <1>3 DEF LockReturns
  <2>1. PICK a \in answers[c] :
            /\ answers' = [answers EXCEPT ![c] = @ \ {a}]
            /\ pc' = IF pc[c] = "calling" /\ a.point = point[c]
                     THEN [pc EXCEPT ![c] = IF a.ok THEN "running" ELSE "asleep"] ELSE pc
    BY <1>3 DEF LockReturns
  <2>2. PICK p \in Points, b \in BOOLEAN : a = [point |-> p, ok |-> b]
    BY DEF TypeOK
  <2>3. \A d \in Clients : answers'[d] \subseteq answers[d]
    BY <2>1 DEF TypeOK
  <2>4. CASE b /\ pc[c] = "calling" /\ p = point[c]
    <3>1. a = [point |-> p, ok |-> TRUE] /\ a \notin answers'[c]
      BY <2>1, <2>2, <2>4 DEF TypeOK
    <3>2. "answer" \in Places /\ "running" \in Places /\ p \in Nat
      BY <1>a DEF Places
    <3>3. Token("answer", c, p)
      BY <3>1 DEF Token
    <3>4. exists /\ \A k \in Places, d \in Clients, n \in Nat :
              Token(k, d, n) => k = "answer" /\ d = c /\ n = p
      BY <3>2, <3>3 DEF OneToken, TokenOfHeld
    <3>5. \A d \in Clients : pc'[d] = "running" => d = c \/ pc[d] = "running"
      BY <2>1 DEF TypeOK
    <3>6. ASSUME NEW k \in Places, NEW d \in Clients, NEW n \in Nat, Token(k, d, n)'
          PROVE  k = "running" /\ d = c /\ n = 0
      <4>1. CASE k = "running"
        <5>1. n = 0 /\ pc'[d] = "running"
          BY <3>6, <4>1 DEF Token
        <5>2. pc[d] # "running"
          BY <1>a, <3>2, <3>4 DEF Token
        <5>3. QED
          BY <3>5, <4>1, <5>1, <5>2
      <4>2. CASE k # "running"
        <5>1. Token(k, d, n)
          BY <2>0, <2>3, <3>6, <4>2 DEF Token
        <5>2. k = "answer" /\ d = c /\ n = p
          BY <3>4, <5>1
        <5>3. [point |-> p, ok |-> TRUE] \in answers'[c]
          BY <3>6, <5>2 DEF Token
        <5>4. QED
          BY <3>1, <5>3
      <4>3. QED
        BY <4>1, <4>2
    <3>7. QED
      BY <1>a, <2>0, <3>2, <3>4, <3>6, AtMostOne
  <2>5. CASE ~(b /\ pc[c] = "calling" /\ p = point[c])
    <3>1. \A d \in Clients : pc'[d] = "running" => pc[d] = "running"
      BY <2>1, <2>2, <2>5 DEF TypeOK
    <3>2. \A k \in Places, d \in Clients, n \in Nat : Token(k, d, n)' => Token(k, d, n)
      BY <2>0, <2>3, <3>1 DEF Token
    <3>3. QED
      BY <2>0, <3>2, NoneMade
  <2>6. QED
    BY <2>4, <2>5
<1>4. ASSUME NEW c \in Clients, CallFails(c) PROVE OneToken' /\ TokenOfHeld'
  <2>1. UNCHANGED <<exists, answers, wakeups>>
    BY <1>4 DEF CallFails
  <2>2. \A d \in Clients : pc'[d] = "running" => pc[d] = "running"
    BY <1>4 DEF CallFails, TypeOK
  <2>3. \A d \in Clients : requests'[d] = requests[d] \/ requests'[d] = <<>>
    BY <1>4 DEF CallFails, TypeOK
  <2>4. \A d \in Clients, n \in Nat : n \in 1..Len(requests'[d]) => requests'[d] = requests[d]
    BY <2>3
  <2>5. \A k \in Places, d \in Clients, n \in Nat : Token(k, d, n)' => Token(k, d, n)
    BY <2>1, <2>2, <2>4 DEF Token
  <2>6. QED
    BY <2>1, <2>5, NoneMade
<1>5. ASSUME NEW c \in Clients, UnlockLocally(c) PROVE OneToken' /\ TokenOfHeld'
  <2>0. pc[c] = "running" /\ Released /\ UNCHANGED <<requests, answers>>
    BY <1>5 DEF UnlockLocally
  <2>1. \A k \in Places, d \in Clients, n \in Nat :
            Token(k, d, n) => k = "running" /\ d = c /\ n = 0
    BY <1>c, <2>0
  <2>2. exists /\ pc'[c] = "idle" /\ \A d \in Clients : d # c => pc'[d] = pc[d]
    <3>1. "running" \in Places /\ Token("running", c, 0)
      BY <2>0 DEF Token, Places
    <3>2. QED
      BY <1>5, <1>a, <3>1 DEF UnlockLocally, TypeOK, TokenOfHeld
  <2>3. ASSUME NEW k \in Places, NEW d \in Clients, NEW n \in Nat, Token(k, d, n)'
        PROVE  k = "wakeup" /\ [client |-> d, point |-> n] \in wakeups' \ wakeups
    <3>1. k # "running"
      <4>1. SUFFICES ASSUME k = "running" PROVE FALSE
        OBVIOUS
      <4>2. pc'[d] = "running" /\ n = 0
        BY <2>3, <4>1 DEF Token
      <4>3. d # c /\ Token("running", d, n)
        BY <2>2, <4>2 DEF Token
      <4>4. QED
        BY <2>1, <4>1, <4>3
    <3>2. ~Token(k, d, n)
      BY <2>1, <3>1
    <3>3. QED
      BY <2>0, <2>3, <3>1, <3>2 DEF Token
  <2>4. QED
    BY <2>0, <2>2, <2>3, ReleasedOnce
<1>6. ASSUME NEW c \in Clients, UnlockSends(c) PROVE OneToken' /\ TokenOfHeld'
  <2>0. pc[c] = "running" /\ UNCHANGED <<exists, answers, wakeups>>
    BY <1>6 DEF UnlockSends
  <2>1. \A k \in Places, d \in Clients, n \in Nat :
            Token(k, d, n) => k = "running" /\ d = c /\ n = 0
    BY <1>c, <2>0
  <2>2. exists
    <3>1. "running" \in Places /\ Token("running", c, 0)
      BY <2>0 DEF Token, Places
    <3>2. QED
      BY <1>a, <3>1 DEF TokenOfHeld
  <2>3. pc'[c] = "idle" /\ \A d \in Clients : d # c => pc'[d] = pc[d]
    BY <1>6 DEF UnlockSends, TypeOK
  <2>4. requests[c] \in Seq(Points) /\ Len(requests[c]) + 1 \in Nat
    BY DEF TypeOK
  <2>5. /\ requests'[c] = Append(requests[c], Unlock)
        /\ \A d \in Clients : d # c => requests'[d] = requests[d]
    BY <1>6 DEF UnlockSends, TypeOK
  <2>6. ASSUME NEW k \in Places, NEW d \in Clients, NEW n \in Nat, Token(k, d, n)'
        PROVE  k = "unlock" /\ d = c /\ n = Len(requests[c]) + 1
    <3>1. k # "running"
      <4>1. SUFFICES ASSUME k = "running" PROVE FALSE
        OBVIOUS
      <4>2. pc'[d] = "running" /\ n = 0
        BY <2>6, <4>1 DEF Token
      <4>3. d # c /\ Token("running", d, n)
        BY <2>3, <4>2 DEF Token
      <4>4. QED
        BY <2>1, <4>1, <4>3
    <3>2. ~Token(k, d, n)
      BY <2>1, <3>1
    <3>3. k = "unlock" /\ n \in 1..Len(requests'[d]) /\ requests'[d][n] = Unlock
      BY <2>0, <2>6, <3>1, <3>2 DEF Token
    <3>4. ~(n \in 1..Len(requests[d]) /\ requests[d][n] = Unlock)
      BY <3>2, <3>3 DEF Token
    <3>5. d = c
      BY <2>5, <3>3, <3>4
    <3>6. QED
      BY <2>4, <2>5, <3>3, <3>4, <3>5
  <2>7. "unlock" \in Places
    BY DEF Places
  <2>8. exists'
    BY <2>0, <2>2
  <2> DEFINE last == Len(requests[c]) + 1
  <2>9. last \in Nat /\ \A k \in Places, d \in Clients, n \in Nat :
            Token(k, d, n)' => k = "unlock" /\ d = c /\ n = last
    BY <2>4, <2>6
  <2> HIDE DEF last
  <2>10. QED
    BY <2>7, <2>8, <2>9, AtMostOne
<1>7. ASSUME NEW c \in Clients, ApiLock(c) PROVE OneToken' /\ TokenOfHeld'
  <2> DEFINE p == Head(requests[c])
             Was(k, d, n) == IF k = "unlock" /\ d = c THEN n + 1 ELSE n
  <2>0. p \in Points /\ UNCHANGED <<wakeups, pc>>
    BY <1>7 DEF ApiLock, TypeOK
  <2>1. requests[c] \in Seq(Points) /\ requests[c] # <<>>
    BY <1>7 DEF ApiLock, TypeOK
  <2>2. requests'[c] = Tail(requests[c]) /\ \A d \in Clients : d # c => requests'[d] = requests[d]
    BY <1>7 DEF ApiLock, TypeOK
  <2>3. ASSUME NEW n \in Nat, n \in 1..Len(requests'[c]), requests'[c][n] = Unlock
        PROVE  n + 1 \in 1..Len(requests[c]) /\ requests[c][n + 1] = Unlock
    BY <2>1, <2>2, <2>3
  <2>4. answers' = [answers EXCEPT ![c] = @ \cup {[point |-> p, ok |-> ~exists]}]
    BY <1>7 DEF ApiLock
  <2>5. ASSUME NEW k \in Places, NEW d \in Clients, NEW n \in Nat, Token(k, d, n)'
        PROVE  \/ Token(k, d, Was(k, d, n))
               \/ k = "answer" /\ d = c /\ n = p /\ ~exists
    <3>1. CASE k = "answer"
      <4>1. [point |-> n, ok |-> TRUE] \in answers'[d]
        BY <2>5, <3>1 DEF Token
      <4>2. \/ [point |-> n, ok |-> TRUE] \in answers[d]
            \/ d = c /\ [point |-> n, ok |-> TRUE] = [point |-> p, ok |-> ~exists]
        BY <2>4, <4>1 DEF TypeOK
      <4>3. CASE [point |-> n, ok |-> TRUE] \in answers[d]
        BY <3>1, <4>3 DEF Token
      <4>4. CASE d = c /\ [point |-> n, ok |-> TRUE] = [point |-> p, ok |-> ~exists]
        <5>1. [point |-> n, ok |-> TRUE].point = n /\ [point |-> n, ok |-> TRUE].ok = TRUE
          OBVIOUS
        <5>2. n = p /\ (~exists) = TRUE
          BY <4>4, <5>1
        <5>3. QED
          BY <3>1, <4>4, <5>2
      <4>5. QED
        BY <4>2, <4>3, <4>4
    <3>2. CASE k = "unlock"
      <4>1. n \in 1..Len(requests'[d]) /\ requests'[d][n] = Unlock
        BY <2>5, <3>2 DEF Token
      <4>2. QED
        BY <2>2, <2>3, <3>2, <4>1 DEF Token
    <3>3. CASE k \in {"running", "wakeup"}
      BY <2>0, <2>5, <3>3 DEF Token
    <3>4. QED
      BY <3>1, <3>2, <3>3 DEF Places
  <2>6. CASE exists
    <3>1. exists'
      BY <1>7, <2>6 DEF ApiLock, Granted
    <3>2. \A k \in Places, d \in Clients, n \in Nat :
              Token(k, d, n)' => Token(k, d, Was(k, d, n)) /\ Was(k, d, n) \in Nat
      BY <2>5, <2>6
    <3>3. ASSUME NEW j \in Places, NEW k \in Places, NEW b \in Clients, NEW d \in Clients,
                 NEW m \in Nat, NEW n \in Nat, Token(j, b, m)', Token(k, d, n)'
          PROVE  j = k /\ b = d /\ m = n
      <4>1. j = k /\ b = d /\ Was(j, b, m) = Was(k, d, n)
        BY <3>2, <3>3 DEF OneToken
      <4>2. QED
        BY <4>1
    <3>4. QED
      BY <3>1, <3>3 DEF OneToken, TokenOfHeld
  <2>7. CASE ~exists
    <3>1. exists'
      BY <1>7, <2>7 DEF ApiLock, Granted
    <3>2. \A k \in Places, d \in Clients, n \in Nat : ~Token(k, d, n)
      BY <2>7 DEF TokenOfHeld
    <3>3. \A k \in Places, d \in Clients, n \in Nat : Was(k, d, n) \in Nat
      OBVIOUS
    <3>4. \A k \in Places, d \in Clients, n \in Nat :
              Token(k, d, n)' => k = "answer" /\ d = c /\ n = p
      BY <2>5, <3>2, <3>3
    <3>5. "answer" \in Places /\ p \in Nat
      BY <1>a, <2>0 DEF Places
    <3>6. QED
      BY <3>1, <3>4, <3>5, AtMostOne
  <2>8. QED
    BY <2>6, <2>7
<1>8. ASSUME NEW c \in Clients, ApiUnlock(c) PROVE OneToken' /\ TokenOfHeld'
  <2>0. Released /\ UNCHANGED <<answers, pc>>
    BY <1>8 DEF ApiUnlock
  <2>1. requests[c] \in Seq(Points) /\ requests[c] # <<>> /\ Head(requests[c]) = Unlock
    BY <1>8 DEF ApiUnlock, TypeOK
  <2>2. 1 \in 1..Len(requests[c]) /\ requests[c][1] = Unlock
    BY <2>1
  <2>3. exists /\ \A k \in Places, d \in Clients, n \in Nat :
            Token(k, d, n) => k = "unlock" /\ d = c /\ n = 1
    <3>1. "unlock" \in Places /\ Token("unlock", c, 1)
      BY <2>2 DEF Token, Places
    <3>2. QED
      BY <3>1 DEF OneToken, TokenOfHeld
  <2>4. requests'[c] = Tail(requests[c]) /\ \A d \in Clients : d # c => requests'[d] = requests[d]
    BY <1>8 DEF ApiUnlock, TypeOK
  <2>5. ASSUME NEW k \in Places, NEW d \in Clients, NEW n \in Nat, Token(k, d, n)'
        PROVE  k = "wakeup" /\ [client |-> d, point |-> n] \in wakeups' \ wakeups
    <3>1. k # "unlock"
      <4>1. SUFFICES ASSUME k = "unlock" PROVE FALSE
        OBVIOUS
      <4>2. n \in 1..Len(requests'[d]) /\ requests'[d][n] = Unlock
        BY <2>5, <4>1 DEF Token
      <4>3. CASE d = c
        <5>0. n \in 1..Len(Tail(requests[c])) /\ Tail(requests[c])[n] = Unlock
          BY <2>4, <4>2, <4>3
        <5>1. n + 1 \in 1..Len(requests[c]) /\ requests[c][n + 1] = Unlock
          BY <2>1, <5>0
        <5>2. Token("unlock", c, n + 1) /\ n + 1 \in Nat
          BY <5>1 DEF Token
        <5>3. n + 1 = 1
          BY <2>3, <4>1, <5>2
        <5>4. QED
          BY <4>2, <5>3
      <4>4. CASE d # c
        <5>1. Token("unlock", d, n)
          BY <2>4, <4>2, <4>4 DEF Token
        <5>2. QED
          BY <2>3, <4>1, <4>4, <5>1
      <4>5. QED
        BY <4>3, <4>4
    <3>2. ~Token(k, d, n)
      BY <2>3, <3>1
    <3>3. QED
      BY <2>0, <2>5, <3>1, <3>2 DEF Token
  <2>6. QED
    BY <2>0, <2>3, <2>5, ReleasedOnce
<1>9. ASSUME NEW w \in wakeups, Wakeup(w) PROVE OneToken' /\ TokenOfHeld'
  <2>0. wakeups' = wakeups \ {w} /\ UNCHANGED <<exists, requests, answers>>
    BY <1>9 DEF Wakeup
  <2>1. PICK c \in Clients, p \in Points : w = [client |-> c, point |-> p]
    BY DEF TypeOK, Waiter
  <2>2. exists /\ \A k \in Places, d \in Clients, n \in Nat :
            Token(k, d, n) => k = "wakeup" /\ d = c /\ n = p
    <3>1. "wakeup" \in Places /\ p \in Nat /\ Token("wakeup", c, p)
      BY <1>a, <2>1 DEF Token, Places
    <3>2. QED
      BY <3>1 DEF OneToken, TokenOfHeld
  <2>3. \A d \in Clients : pc'[d] = "running" => d = c \/ pc[d] = "running"
    BY <1>9, <2>1 DEF Wakeup, TypeOK
  <2>4. ASSUME NEW k \in Places, NEW d \in Clients, NEW n \in Nat, Token(k, d, n)'
        PROVE  k = "running" /\ d = c /\ n = 0
    <3>1. k = "running"
      <4>1. SUFFICES ASSUME k # "running" PROVE FALSE
        OBVIOUS
      <4>2. Token(k, d, n)
        BY <2>0, <2>4, <4>1 DEF Token
      <4>3. k = "wakeup" /\ d = c /\ n = p
        BY <2>2, <4>2
      <4>4. w \in wakeups'
        BY <2>1, <2>4, <4>3 DEF Token
      <4>5. QED
        BY <2>0, <4>4
    <3>2. n = 0 /\ pc'[d] = "running"
      BY <2>4, <3>1 DEF Token
    <3>3. pc[d] # "running"
      BY <2>2, <3>1, <3>2 DEF Token
    <3>4. QED
      BY <2>3, <3>1, <3>2, <3>3
  <2>5. "running" \in Places
    BY DEF Places
  <2>6. QED
    BY <1>a, <2>0, <2>2, <2>4, <2>5, AtMostOne
<1>10. ASSUME NEW c \in Clients, SendsLost(c) PROVE OneToken' /\ TokenOfHeld'
  <2>1. UNCHANGED <<exists, answers, wakeups, pc>> /\ requests' = [requests EXCEPT ![c] = <<>>]
    BY <1>10 DEF SendsLost
  <2>2. ASSUME NEW d \in Clients, NEW n \in Nat, n \in 1..Len(requests'[d]),
               requests'[d][n] = Unlock
        PROVE  n \in 1..Len(requests[d]) /\ requests[d][n] = Unlock
    <3>1. CASE d = c
      BY <2>1, <2>2, <3>1, EmptySeq DEF TypeOK
    <3>2. CASE d # c
      BY <2>1, <2>2, <3>2 DEF TypeOK
    <3>3. QED
      BY <3>1, <3>2
  <2>3. \A k \in Places, d \in Clients, n \in Nat : Token(k, d, n)' => Token(k, d, n)
    BY <2>1, <2>2 DEF Token
  <2>4. QED
    BY <2>1, <2>3, NoneMade
<1>11. ASSUME NEW w \in wakeups, WakeupLost(w) PROVE OneToken' /\ TokenOfHeld'
  <2>1. wakeups' \subseteq wakeups /\ UNCHANGED <<exists, requests, answers, pc>>
    BY <1>11 DEF WakeupLost
  <2>2. \A k \in Places, d \in Clients, n \in Nat : Token(k, d, n)' => Token(k, d, n)
    BY <2>1 DEF Token
  <2>3. QED
    BY <2>1, <2>2, NoneMade
<1>12. ASSUME NEW c \in Clients, Stops(c) PROVE OneToken' /\ TokenOfHeld'
  <2>1. UNCHANGED <<exists, requests, answers, wakeups>>
    BY <1>12 DEF Stops
  <2>2. \A d \in Clients : pc'[d] = "running" => pc[d] = "running"
    BY <1>12 DEF Stops, TypeOK
  <2>3. \A k \in Places, d \in Clients, n \in Nat : Token(k, d, n)' => Token(k, d, n)
    BY <2>1, <2>2 DEF Token
  <2>4. QED
    BY <2>1, <2>3, NoneMade
<1>13. CASE UNCHANGED vars
  BY <1>13 DEF vars, OneToken, TokenOfHeld, Token
<1>14. QED
  BY <1>1, <1>2, <1>3, <1>4, <1>5, <1>6, <1>7, <1>8, <1>9, <1>10, <1>11, <1>12, <1>13
     DEF Next, Center

(* At first there is no token.                                             *)
LEMMA NoTokenYet == Init => OneToken /\ TokenOfHeld
<1>1. SUFFICES ASSUME Init PROVE \A k \in Places, c \in Clients, n \in Nat : ~Token(k, c, n)
  BY DEF OneToken, TokenOfHeld
<1>2. \A c \in Clients, n \in Nat : n \notin 1..Len(requests[c])
  <2>1. Len(<<>>) = 0
    BY EmptySeq
  <2>2. \A c \in Clients : requests[c] = <<>>
    BY <1>1 DEF Init
  <2>3. QED
    BY <2>1, <2>2
<1>3. \A c \in Clients : pc[c] # "running" /\ answers[c] = {} /\ wakeups = {}
  BY <1>1 DEF Init
<1>4. QED
  BY <1>2, <1>3 DEF Token

(* At most one coroutine of the cluster runs under the lock, for every     *)
(* number of nodes, clients and locks, whatever wakeup overtakes whatever  *)
(* answer, whatever call fails, whatever message is lost and whatever node *)
(* stops: the token goes round or is lost.                                 *)
THEOREM MutuallyExclusive == Spec => []MutualExclusion
<1>1. Init => OneToken /\ TokenOfHeld
  BY NoTokenYet
<1>2. OneToken /\ TokenOfHeld /\ TypeOK /\ TypeOK' /\ [Next]_vars => OneToken' /\ TokenOfHeld'
  BY TokenStep DEF IInv
<1>3. OneToken /\ TypeOK => MutualExclusion
  <2> SUFFICES ASSUME OneToken, TypeOK, NEW c \in Clients, NEW d \in Clients,
                      pc[c] = "running", pc[d] = "running"
               PROVE  c = d
    BY DEF MutualExclusion
  <2>1. "running" \in Places /\ Token("running", c, 0) /\ Token("running", d, 0)
    BY DEF Places, Token
  <2>2. QED
    BY <2>1 DEF OneToken
<1>4. QED
  BY <1>1, <1>2, <1>3, TypeCorrect, PTL DEF Spec
-----------------------------------------------------------------------------
(***************************************************************************)
(* ClusterQueue implements FifoLock: the centerserver grants the lock in   *)
(* the order in which the requests arrive, one holder at a time, whatever  *)
(* calls fail, messages are lost, nodes stop and wakeups overtake answers. *)
(*                                                                         *)
(* The token above says that there is one; here it is tied to the lock it  *)
(* is for (TokensOK), and what is on its way to what has happened to it    *)
(* (RequestsOK, WaitingOK).                                                *)
(***************************************************************************)

(* Who has the lock, in the eyes of the centerserver.                      *)
Holds(c) == exists /\ owner.of.client = c
HoldsThis(c) == Holds(c) /\ owner.of.point = point[c]

(* A request for the lock is the last a client has sent, is for its        *)
(* present recover point and is not yet queued, granted or answered.       *)
RequestsOK ==
    \A c \in Clients : \A n \in 1..Len(requests[c]) : requests[c][n] # Unlock =>
        /\ n = Len(requests[c]) /\ requests[c][n] = point[c]
        /\ pc[c] \in {"calling", "failed"}
        /\ ~HoldsThis(c)
        /\ \A m \in 1..Len(waiting) : waiting[m].client # c
        /\ \A a \in answers[c] : a.point # point[c]

(* Who is queued waits for the lock of its present recover point, once,    *)
(* and has sent nothing since; it has not been granted that lock.          *)
WaitingOK ==
    /\ \A m \in 1..Len(waiting) : LET c == waiting[m].client IN
          /\ waiting[m].point = point[c]
          /\ pc[c] \in {"calling", "asleep", "failed"}
          /\ requests[c] = <<>>
          /\ ~HoldsThis(c)
    /\ \A m, n \in 1..Len(waiting) : waiting[m].client = waiting[n].client => m = n

(* The holder's lock is one it has asked for; nobody waits for a free one. *)
OwnerOK ==
    /\ exists => /\ owner \in Owner
                 /\ owner.of.point <= point[owner.of.client]
    /\ ~exists => waiting = <<>>

(* The token is the holder's, and of the lock it was given: it runs for    *)
(* the present one, and an unlock is of one that is over.                  *)
TokensOK ==
    /\ \A c \in Clients : pc[c] = "running" => Holds(c) /\ owner.of.point = point[c]
    /\ \A c \in Clients : \A a \in answers[c] :
          a.ok => Holds(c) /\ owner.of.point = a.point /\ owner.atOnce
    /\ \A w \in wakeups : exists /\ owner.of = w /\ ~owner.atOnce
    /\ \A c \in Clients : \A n \in 1..Len(requests[c]) : requests[c][n] = Unlock =>
          Holds(c) /\ (pc[c] = "idle" \/ owner.of.point # point[c])

RInv ==
    /\ RequestsOK /\ WaitingOK /\ OwnerOK /\ TokensOK
    /\ \A c \in Local : requests[c] = <<>>
    /\ \A c \in Clients : \A a \in answers[c] : a.point <= point[c]

-----------------------------------------------------------------------------
(* The lock as FifoLock sees it.                                           *)
Queue == IF exists THEN <<owner.of>> \o waiting ELSE <<>>
Level == IF ~exists \/ HandedOver THEN 0 ELSE 1

LEMMA RequestStep ==
    ASSUME NEW w \in Waiter, \A n \in 1..Len(Queue) : Queue[n] # w,
           Queue' = Append(Queue, w),
           Level' = IF Queue = <<>> THEN 1 ELSE Level
    PROVE  Fifo!Next
<1>1. Fifo!Request(w, Lock)
  BY DEF Queue, Level, Fifo!Request
<1> QED
  BY <1>1 DEF Fifo!Next

LEMMA EnterStep ==
    ASSUME Queue # <<>>, Queue' = Queue, Level' = Level + 1
    PROVE  Fifo!Next
<1>1. Fifo!Enter(Lock)
  BY DEF Queue, Level, Fifo!Enter
<1> QED
  BY <1>1 DEF Fifo!Next

LEMMA LeaveStep ==
    ASSUME Level = 1, Level' = 0, Queue' = Tail(Queue)
    PROVE  Fifo!Next
<1>1. Level > 0 /\ Level' = Level - 1 /\ Queue' = IF Level = 1 THEN Tail(Queue) ELSE Queue
  OBVIOUS
<1>2. Fifo!Leave(Lock)
  BY <1>1 DEF Queue, Level, Fifo!Leave
<1> QED
  BY <1>2 DEF Fifo!Next

LEMMA NoStep ==
    ASSUME Queue' = Queue, Level' = Level
    PROVE  UNCHANGED Fifo!lockVars
BY DEF Queue, Level, Fifo!lockVars

(* A queue with its first taken off or with one more at its end.           *)
LEMMA OwnerFirst ==
    ASSUME NEW S, NEW o \in S, NEW s \in Seq(S)
    PROVE  /\ <<o>> \o s # <<>> /\ Tail(<<o>> \o s) = s
           /\ \A e \in S : <<o>> \o Append(s, e) = Append(<<o>> \o s, e)
           /\ \A e : e # o /\ (\A m \in 1..Len(s) : s[m] # e) =>
                 \A n \in 1..Len(<<o>> \o s) : (<<o>> \o s)[n] # e
<1>1. Len(<<o>> \o s) = Len(s) + 1 /\ Len(s) \in Nat /\ <<o>> \o s \in Seq(S)
  OBVIOUS
<1>2. ASSUME NEW n \in 1..Len(<<o>> \o s)
      PROVE  (<<o>> \o s)[n] = IF n = 1 THEN o ELSE s[n - 1]
  OBVIOUS
<1>3. \A e \in S : <<o>> \o Append(s, e) = Append(<<o>> \o s, e)
  OBVIOUS
<1>4. Tail(<<o>> \o s) = s
  OBVIOUS
<1>5. ASSUME NEW e, e # o, \A m \in 1..Len(s) : s[m] # e, NEW n \in 1..Len(<<o>> \o s)
      PROVE  (<<o>> \o s)[n] # e
  <2>1. CASE n = 1
    BY <1>2, <1>5, <2>1
  <2>2. CASE n # 1
    <3>1. n - 1 \in 1..Len(s)
      BY <1>1, <2>2
    <3> QED
      BY <1>2, <1>5, <2>2, <3>1
  <2> QED
    BY <2>1, <2>2
<1> QED
  BY <1>1, <1>3, <1>4, <1>5

(* A step that the centerserver takes no part in changes the lock at most  *)
(* by what the owner does.                                                 *)
LEMMA Quiet ==
    ASSUME UNCHANGED <<exists, waiting, owner>>
    PROVE  /\ Queue' = Queue
           /\ (exists => (HandedOver' <=> HandedOver)) => Level' = Level
BY DEF Queue, Level
-----------------------------------------------------------------------------
(* A call for the lock.  If the caller is still the owner, it is of an     *)
(* older lock, whose unlock is ahead of the request or lost.               *)
LEMMA LockCallsStep ==
    ASSUME IInv, RInv, NEW c \in Clients, LockCalls(c)
    PROVE  RInv' /\ UNCHANGED Fifo!lockVars
<1> DEFINE p == point[c] + 1
<1>0. TypeOK /\ RequestsOK /\ WaitingOK /\ OwnerOK /\ TokensOK
  BY DEF IInv, RInv
<1>1. /\ c \notin Local /\ pc[c] = "idle" /\ p \in Points /\ p # Unlock
      /\ point[c] \in Nat /\ p \in Nat
      /\ point' = [point EXCEPT ![c] = p]
      /\ requests' = [requests EXCEPT ![c] = Append(requests[c], p)]
      /\ pc' = [pc EXCEPT ![c] = "calling"]
      /\ UNCHANGED <<exists, waiting, answers, wakeups, owner, lost>>
  BY <1>0, ClusterQueueAssumption DEF LockCalls, TypeOK, Points, Unlock
<1>2. /\ point'[c] = p /\ pc'[c] = "calling" /\ requests'[c] = Append(requests[c], p)
      /\ \A d \in Clients : d # c => /\ point'[d] = point[d] /\ pc'[d] = pc[d]
                                     /\ requests'[d] = requests[d]
  BY <1>0, <1>1 DEF TypeOK
<1> HIDE DEF p
<1>3. /\ requests[c] \in Seq(Points) /\ Len(requests[c]) \in Nat
      /\ Len(requests'[c]) = Len(requests[c]) + 1
      /\ \A n \in 1..Len(requests'[c]) :
            \/ n = Len(requests[c]) + 1 /\ requests'[c][n] = p
            \/ n \in 1..Len(requests[c]) /\ requests'[c][n] = requests[c][n]
  BY <1>0, <1>1, <1>2 DEF TypeOK
<1>4. \A n \in 1..Len(requests[c]) : requests[c][n] = Unlock
  BY <1>0, <1>1 DEF RequestsOK
<1>5. \A m \in 1..Len(waiting) : waiting[m].client # c /\ waiting[m].client \in Clients
  <2>1. \A m \in 1..Len(waiting) : waiting[m] \in Waiter
    BY <1>0 DEF TypeOK
  <2>2. \A m \in 1..Len(waiting) : waiting[m].client \in Clients
    BY <2>1 DEF Waiter
  <2> QED
    BY <1>0, <1>1, <2>2 DEF WaitingOK
<1>6. \A a \in answers[c] : a.point <= point[c] /\ a.point \in Nat
  BY <1>0, ClusterQueueAssumption DEF RInv, TypeOK, Points
<1>7. Holds(c) => /\ owner.of.point \in Nat /\ owner.of.point <= point[c]
                  /\ owner.of.point # p
  BY <1>0, <1>1, ClusterQueueAssumption DEF Holds, OwnerOK, Owner, Waiter, Points, p
<1>8. RequestsOK'
  <2> SUFFICES ASSUME NEW d \in Clients, NEW n \in 1..Len(requests'[d]),
                      requests'[d][n] # Unlock
               PROVE  /\ n = Len(requests'[d]) /\ requests'[d][n] = point'[d]
                      /\ pc'[d] \in {"calling", "failed"}
                      /\ ~HoldsThis(d)'
                      /\ \A m \in 1..Len(waiting') : waiting'[m].client # d
                      /\ \A a \in answers'[d] : a.point # point'[d]
    BY DEF RequestsOK
  <2>1. CASE d # c
    BY <1>0, <1>1, <1>2, <2>1 DEF RequestsOK, Holds, HoldsThis
  <2>2. CASE d = c
    <3>1. n = Len(requests[c]) + 1 /\ requests'[c][n] = p
      BY <1>3, <1>4, <2>2
    <3>2. ~HoldsThis(c)'
      BY <1>1, <1>2, <1>7 DEF Holds, HoldsThis
    <3>3. \A a \in answers[c] : a.point # p
      BY <1>1, <1>6 DEF p
    <3> QED
      BY <1>1, <1>2, <1>3, <1>5, <2>2, <3>1, <3>2, <3>3 DEF Holds
  <2> QED
    BY <2>1, <2>2
<1>9. WaitingOK'
  BY <1>0, <1>1, <1>2, <1>5 DEF WaitingOK, Holds, HoldsThis
<1>10. OwnerOK'
  BY <1>0, <1>1, <1>2, <1>7 DEF OwnerOK, Owner, Waiter, Holds, Points, p
<1>11. TokensOK'
  <2>1. \A d \in Clients : pc'[d] = "running" => Holds(d)' /\ owner'.of.point = point'[d]
    BY <1>0, <1>1, <1>2 DEF TokensOK, Holds
  <2>2. \A d \in Clients : \A n \in 1..Len(requests'[d]) : requests'[d][n] = Unlock =>
          Holds(d)' /\ (pc'[d] = "idle" \/ owner'.of.point # point'[d])
    <3> SUFFICES ASSUME NEW d \in Clients, NEW n \in 1..Len(requests'[d]),
                        requests'[d][n] = Unlock
                 PROVE  Holds(d) /\ (pc'[d] = "idle" \/ owner.of.point # point'[d])
      BY <1>1 DEF Holds
    <3>1. CASE d # c
      BY <1>0, <1>2, <3>1 DEF TokensOK
    <3>2. CASE d = c
      <4>1. Holds(c)
        BY <1>0, <1>1, <1>3, <3>2 DEF TokensOK
      <4> QED
        BY <1>2, <1>7, <3>2, <4>1
    <3> QED
      BY <3>1, <3>2
  <2> QED
    BY <1>0, <1>1, <2>1, <2>2 DEF TokensOK, Holds
<1>12. RInv'
  <2>1. \A d \in Clients : \A a \in answers'[d] : a.point <= point'[d]
    BY <1>1, <1>2, <1>6 DEF RInv, p
  <2>2. \A d \in Local : requests'[d] = <<>>
    BY <1>1, <1>2, ClusterQueueAssumption DEF RInv
  <2> QED
    BY <1>8, <1>9, <1>10, <1>11, <2>1, <2>2 DEF RInv
<1>13. exists => (HandedOver' <=> HandedOver)
  <2> SUFFICES ASSUME exists PROVE HandedOver' <=> HandedOver
    OBVIOUS
  <2>1. owner.of.client \in Clients
    BY <1>0 DEF OwnerOK, Owner, Waiter
  <2> QED
    BY <1>1, <1>2, <1>7, <2>1 DEF HandedOver, Holds
<1> QED
  BY <1>1, <1>12, <1>13, Quiet, NoStep

(* An answer.  Who it lets run is the owner, and has nothing else on its   *)
(* way.                                                                    *)
LEMMA LockReturnsStep ==
    ASSUME IInv, RInv, NEW c \in Clients, LockReturns(c)
    PROVE  RInv' /\ UNCHANGED Fifo!lockVars
<1>0. TypeOK /\ RequestsOK /\ WaitingOK /\ OwnerOK /\ TokensOK
  BY DEF IInv, RInv
<1>1. PICK a \in answers[c] :
        /\ answers' = [answers EXCEPT ![c] = @ \ {a}]
        /\ pc' = IF pc[c] = "calling" /\ a.point = point[c]
                 THEN [pc EXCEPT ![c] = IF a.ok THEN "running" ELSE "asleep"] ELSE pc
        /\ UNCHANGED <<exists, waiting, requests, wakeups, point, owner, lost>>
  BY DEF LockReturns
<1>2. \A d \in Clients : answers'[d] \subseteq answers[d] /\ (d # c => pc'[d] = pc[d])
  BY <1>0, <1>1 DEF TypeOK
<1>3. \/ pc' = pc
      \/ /\ pc[c] = "calling" /\ a.point = point[c]
         /\ pc'[c] = IF a.ok THEN "running" ELSE "asleep"
  BY <1>0, <1>1 DEF TypeOK
<1>4. a.ok => Holds(c) /\ owner.of.point = a.point /\ owner.atOnce
  BY <1>0 DEF TokensOK
<1>5. RequestsOK'
  <2> SUFFICES ASSUME NEW d \in Clients, NEW n \in 1..Len(requests[d]),
                      requests[d][n] # Unlock
               PROVE  /\ n = Len(requests[d]) /\ requests[d][n] = point[d]
                      /\ pc'[d] \in {"calling", "failed"}
                      /\ ~HoldsThis(d)
                      /\ \A m \in 1..Len(waiting) : waiting[m].client # d
                      /\ \A b \in answers'[d] : b.point # point[d]
    BY <1>1 DEF RequestsOK, Holds, HoldsThis
  <2>1. /\ n = Len(requests[d]) /\ requests[d][n] = point[d]
        /\ pc[d] \in {"calling", "failed"}
        /\ ~HoldsThis(d)
        /\ \A m \in 1..Len(waiting) : waiting[m].client # d
        /\ \A b \in answers[d] : b.point # point[d]
    BY <1>0 DEF RequestsOK
  <2> QED
    BY <1>2, <1>3, <2>1
<1>6. WaitingOK'
  <2> SUFFICES ASSUME NEW m \in 1..Len(waiting)
               PROVE  pc'[waiting[m].client] \in {"calling", "asleep", "failed"}
    BY <1>0, <1>1 DEF WaitingOK, Holds, HoldsThis
  <2>1. /\ pc[waiting[m].client] \in {"calling", "asleep", "failed"}
        /\ ~HoldsThis(waiting[m].client)
    BY <1>0 DEF WaitingOK
  <2>2. waiting[m] \in Waiter
    BY <1>0 DEF TypeOK
  <2>3. waiting[m].client \in Clients
    BY <2>2 DEF Waiter
  <2> QED
    BY <1>2, <1>3, <1>4, <2>1, <2>3 DEF HoldsThis
<1>7. OwnerOK'
  BY <1>0, <1>1, <1>2, <1>3 DEF OwnerOK, Owner, Waiter
<1>8. TokensOK'
  <2>1. \A d \in Clients : pc'[d] = "running" => Holds(d)' /\ owner'.of.point = point'[d]
    BY <1>0, <1>1, <1>2, <1>3, <1>4 DEF TokensOK, Holds
  <2>2. \A d \in Clients : \A b \in answers'[d] :
          b.ok => Holds(d)' /\ owner'.of.point = b.point /\ owner'.atOnce
    BY <1>0, <1>1, <1>2 DEF TokensOK, Holds
  <2>3. \A d \in Clients : \A n \in 1..Len(requests'[d]) : requests'[d][n] = Unlock =>
          Holds(d)' /\ (pc'[d] = "idle" \/ owner'.of.point # point'[d])
    BY <1>0, <1>1, <1>2, <1>3 DEF TokensOK, Holds
  <2> QED
    BY <1>0, <1>1, <2>1, <2>2, <2>3 DEF TokensOK
<1>9. RInv'
  BY <1>1, <1>2, <1>5, <1>6, <1>7, <1>8 DEF RInv
<1>10. exists => (HandedOver' <=> HandedOver)
  <2> SUFFICES ASSUME exists PROVE HandedOver' <=> HandedOver
    OBVIOUS
  <2>1. owner.of.client \in Clients /\ owner.atOnce \in BOOLEAN
    BY <1>0 DEF OwnerOK, Owner, Waiter
  <2>2. CASE owner.of.client = c /\ pc' # pc
    BY <1>1, <1>3, <1>4, <2>1, <2>2 DEF HandedOver
  <2>3. CASE owner.of.client # c \/ pc' = pc
    BY <1>1, <1>2, <2>1, <2>3 DEF HandedOver
  <2> QED
    BY <2>2, <2>3
<1> QED
  BY <1>1, <1>9, <1>10, Quiet, NoStep

(* A wakeup that finds its client asleep lets the new owner enter.         *)
LEMMA WakeupStep ==
    ASSUME IInv, RInv, NEW w \in wakeups, Wakeup(w)
    PROVE  RInv' /\ (Fifo!Next \/ UNCHANGED Fifo!lockVars)
<1> DEFINE c == w.client
<1>0. TypeOK /\ RequestsOK /\ WaitingOK /\ OwnerOK /\ TokensOK
  BY DEF IInv, RInv
<1>1. /\ w \in Waiter /\ c \in Clients
      /\ exists /\ owner.of = w /\ ~owner.atOnce /\ Holds(c)
  BY <1>0 DEF TypeOK, Waiter, TokensOK, Holds
<1>2. /\ wakeups' = wakeups \ {w}
      /\ UNCHANGED <<exists, waiting, requests, answers, point, owner>>
  BY DEF Wakeup
<1>3. CASE pc' = pc
  <2>1. RequestsOK' /\ WaitingOK'
    BY <1>0, <1>2, <1>3 DEF RequestsOK, WaitingOK, Holds, HoldsThis
  <2>2. OwnerOK' /\ TokensOK'
    BY <1>0, <1>2, <1>3 DEF OwnerOK, TokensOK, Holds
  <2>3. RInv'
    BY <1>2, <2>1, <2>2 DEF RInv
  <2>4. HandedOver' <=> HandedOver
    BY <1>2, <1>3 DEF HandedOver
  <2> QED
    BY <1>2, <2>3, <2>4, Quiet, NoStep
<1>4. CASE pc[c] = "asleep" /\ point[c] = w.point /\ pc' = [pc EXCEPT ![c] = "running"]
  <2>1. pc'[c] = "running" /\ \A d \in Clients : d # c => pc'[d] = pc[d]
    BY <1>0, <1>1, <1>4 DEF TypeOK
  <2>2. RequestsOK'
    BY <1>0, <1>2, <1>4, <2>1 DEF RequestsOK, Holds, HoldsThis
  <2>3. WaitingOK'
    <3> SUFFICES ASSUME NEW m \in 1..Len(waiting)
                 PROVE  pc'[waiting[m].client] \in {"calling", "asleep", "failed"}
      BY <1>0, <1>2 DEF WaitingOK, Holds, HoldsThis
    <3>1. /\ pc[waiting[m].client] \in {"calling", "asleep", "failed"}
          /\ ~HoldsThis(waiting[m].client)
      BY <1>0 DEF WaitingOK
    <3>2. waiting[m] \in Waiter
      BY <1>0 DEF TypeOK
    <3>3. waiting[m].client \in Clients
      BY <3>2 DEF Waiter
    <3> QED
      BY <1>1, <1>4, <2>1, <3>1, <3>3 DEF HoldsThis
  <2>4. OwnerOK'
    BY <1>0, <1>1, <1>2, <2>1 DEF OwnerOK
  <2>5. TokensOK'
    BY <1>0, <1>1, <1>2, <1>4, <2>1 DEF TokensOK, Holds
  <2>6. RInv'
    BY <1>2, <2>2, <2>3, <2>4, <2>5 DEF RInv
  <2>7. Level = 0 /\ Level' = 1
    BY <1>1, <1>2, <1>4, <2>1 DEF Level, HandedOver
  <2>8. Queue' = Queue /\ Queue # <<>>
    <3>1. waiting \in Seq(Waiter) /\ owner.of \in Waiter
      BY <1>0, <1>1 DEF TypeOK
    <3>2. <<owner.of>> \o waiting # <<>>
      BY <3>1, OwnerFirst
    <3> QED
      BY <1>1, <1>2, <3>2, Quiet DEF Queue
  <2> QED
    BY <2>6, <2>7, <2>8, EnterStep
<1> QED
  BY <1>3, <1>4 DEF Wakeup

(* An unlock that is sent: the owner keeps the lock until it arrives.      *)
LEMMA UnlockSendsStep ==
    ASSUME IInv, RInv, NEW c \in Clients, UnlockSends(c)
    PROVE  RInv' /\ UNCHANGED Fifo!lockVars
<1>0. TypeOK /\ RequestsOK /\ WaitingOK /\ OwnerOK /\ TokensOK
  BY DEF IInv, RInv
<1>1. /\ c \notin Local /\ pc[c] = "running"
      /\ pc' = [pc EXCEPT ![c] = "idle"]
      /\ requests' = [requests EXCEPT ![c] = Append(requests[c], Unlock)]
      /\ UNCHANGED <<exists, waiting, answers, wakeups, point, owner, lost>>
  BY DEF UnlockSends
<1>2. /\ pc'[c] = "idle" /\ requests'[c] = Append(requests[c], Unlock)
      /\ \A d \in Clients : d # c => pc'[d] = pc[d] /\ requests'[d] = requests[d]
  BY <1>0, <1>1 DEF TypeOK
<1>3. /\ requests[c] \in Seq(Points) /\ requests'[c] # <<>>
      /\ \A n \in 1..Len(requests'[c]) :
            \/ requests'[c][n] = Unlock
            \/ n \in 1..Len(requests[c]) /\ requests'[c][n] = requests[c][n]
  <2>1. requests[c] \in Seq(Points) /\ Unlock \in Points
    BY <1>0, ClusterQueueAssumption DEF TypeOK, Points, Unlock
  <2>2. /\ Len(Append(requests[c], Unlock)) = Len(requests[c]) + 1
        /\ Len(requests[c]) \in Nat
        /\ \A n \in 1..(Len(requests[c]) + 1) :
              Append(requests[c], Unlock)[n]
                 = IF n = Len(requests[c]) + 1 THEN Unlock ELSE requests[c][n]
    BY <2>1
  <2>3. Append(requests[c], Unlock) # <<>>
    BY <2>1
  <2> QED
    BY <1>2, <2>1, <2>2, <2>3
<1>4. \A n \in 1..Len(requests[c]) : requests[c][n] = Unlock
  BY <1>0, <1>1 DEF RequestsOK
<1>5. HoldsThis(c) /\ Holds(c)
  BY <1>0, <1>1 DEF TokensOK, HoldsThis
<1>6. RequestsOK'
  <2> SUFFICES ASSUME NEW d \in Clients, NEW n \in 1..Len(requests'[d]),
                      requests'[d][n] # Unlock
               PROVE  d # c
    BY <1>0, <1>1, <1>2 DEF RequestsOK, Holds, HoldsThis
  <2> QED
    BY <1>3, <1>4
<1>7. WaitingOK'
  <2>1. \A m \in 1..Len(waiting) : waiting[m] \in Waiter
    BY <1>0 DEF TypeOK
  <2>2. \A m \in 1..Len(waiting) : waiting[m].client # c /\ waiting[m].client \in Clients
    BY <1>0, <1>1, <2>1 DEF WaitingOK, Waiter
  <2> QED
    BY <1>0, <1>1, <1>2, <2>2 DEF WaitingOK, Holds, HoldsThis
<1>8. OwnerOK'
  BY <1>0, <1>1, <1>2, <1>3, <1>5 DEF OwnerOK, Holds
<1>9. TokensOK'
  <2>1. \A d \in Clients : pc'[d] = "running" => Holds(d)' /\ owner'.of.point = point'[d]
    BY <1>0, <1>1, <1>2 DEF TokensOK, Holds
  <2>2. \A d \in Clients : \A n \in 1..Len(requests'[d]) : requests'[d][n] = Unlock =>
          Holds(d)' /\ (pc'[d] = "idle" \/ owner'.of.point # point'[d])
    BY <1>0, <1>1, <1>2, <1>5 DEF TokensOK, Holds
  <2> QED
    BY <1>0, <1>1, <2>1, <2>2 DEF TokensOK, Holds
<1>10. RInv'
  BY <1>1, <1>2, <1>6, <1>7, <1>8, <1>9, ClusterQueueAssumption DEF RInv
<1>11. HandedOver' <=> HandedOver
  BY <1>1, <1>2, <1>5 DEF HandedOver, Holds
<1> QED
  BY <1>1, <1>10, <1>11, Quiet, NoStep

(* A call that fails, with or without what its client has sent.            *)
LEMMA CallFailsStep ==
    ASSUME IInv, RInv, NEW c \in Clients, CallFails(c)
    PROVE  RInv' /\ UNCHANGED Fifo!lockVars
<1>0. TypeOK /\ RequestsOK /\ WaitingOK /\ OwnerOK /\ TokensOK
  BY DEF IInv, RInv
<1>1. /\ pc[c] = "calling" /\ pc' = [pc EXCEPT ![c] = "failed"]
      /\ requests' = requests \/ requests' = [requests EXCEPT ![c] = <<>>]
      /\ UNCHANGED <<exists, waiting, answers, wakeups, point, owner, lost>>
  BY DEF CallFails
<1>2. /\ pc'[c] = "failed"
      /\ \A d \in Clients : /\ d # c => pc'[d] = pc[d]
                            /\ requests'[d] = requests[d] \/ requests'[d] = <<>>
                            /\ d # c => requests'[d] = requests[d]
  BY <1>0, <1>1 DEF TypeOK
<1>3. Len(<<>>) = 0
  OBVIOUS
<1>4. \A d \in Clients : \A n \in 1..Len(requests'[d]) :
        n \in 1..Len(requests[d]) /\ requests'[d] = requests[d]
  BY <1>2, <1>3
<1>5. RequestsOK'
  <2> SUFFICES ASSUME NEW d \in Clients, NEW n \in 1..Len(requests'[d]),
                      requests'[d][n] # Unlock
               PROVE  /\ n = Len(requests[d]) /\ requests[d][n] = point[d]
                      /\ pc'[d] \in {"calling", "failed"}
                      /\ ~HoldsThis(d)
                      /\ \A m \in 1..Len(waiting) : waiting[m].client # d
                      /\ \A b \in answers[d] : b.point # point[d]
    BY <1>1, <1>4 DEF RequestsOK, Holds, HoldsThis
  <2> QED
    BY <1>0, <1>2, <1>4 DEF RequestsOK
<1>6. WaitingOK'
  <2>1. \A m \in 1..Len(waiting) : waiting[m] \in Waiter
    BY <1>0 DEF TypeOK
  <2>2. \A m \in 1..Len(waiting) : waiting[m].client \in Clients
    BY <2>1 DEF Waiter
  <2> QED
    BY <1>0, <1>1, <1>2, <2>2 DEF WaitingOK, Holds, HoldsThis
<1>7. OwnerOK'
  <2>1. exists => owner.of.client \in Clients
    BY <1>0 DEF OwnerOK, Owner, Waiter
  <2> QED
    BY <1>0, <1>1, <1>2, <2>1 DEF OwnerOK
<1>8. TokensOK'
  <2>1. \A d \in Clients : pc'[d] = "running" => Holds(d)' /\ owner'.of.point = point'[d]
    BY <1>0, <1>1, <1>2 DEF TokensOK, Holds
  <2>2. \A d \in Clients : \A n \in 1..Len(requests'[d]) : requests'[d][n] = Unlock =>
          Holds(d)' /\ (pc'[d] = "idle" \/ owner'.of.point # point'[d])
    BY <1>0, <1>1, <1>2, <1>4 DEF TokensOK, Holds
  <2> QED
    BY <1>0, <1>1, <2>1, <2>2 DEF TokensOK, Holds
<1>9. RInv'
  BY <1>1, <1>2, <1>5, <1>6, <1>7, <1>8, ClusterQueueAssumption DEF RInv
<1>10. exists => (HandedOver' <=> HandedOver)
  <2>1. exists => owner.of.client \in Clients
    BY <1>0 DEF OwnerOK, Owner, Waiter
  <2> QED
    BY <1>1, <1>2, <2>1 DEF HandedOver
<1> QED
  BY <1>1, <1>9, <1>10, Quiet, NoStep

(* What was sent is lost: the centerserver sees nothing of it.             *)
LEMMA SendsLostStep ==
    ASSUME IInv, RInv, NEW c \in Clients, SendsLost(c)
    PROVE  RInv' /\ UNCHANGED Fifo!lockVars
<1>0. TypeOK /\ RequestsOK /\ WaitingOK /\ OwnerOK /\ TokensOK
  BY DEF IInv, RInv
<1>1. /\ requests' = [requests EXCEPT ![c] = <<>>]
      /\ UNCHANGED <<exists, waiting, answers, wakeups, pc, point, owner>>
  BY DEF SendsLost
<1>2. \A d \in Clients : requests'[d] = requests[d] \/ requests'[d] = <<>>
  BY <1>0, <1>1 DEF TypeOK
<1>3. Len(<<>>) = 0
  OBVIOUS
<1>4. \A d \in Clients : \A n \in 1..Len(requests'[d]) :
        n \in 1..Len(requests[d]) /\ requests'[d] = requests[d]
  BY <1>2, <1>3
<1>5. RequestsOK'
  <2> SUFFICES ASSUME NEW d \in Clients, NEW n \in 1..Len(requests'[d]),
                      requests'[d][n] # Unlock
               PROVE  /\ n = Len(requests[d]) /\ requests[d][n] = point[d]
                      /\ pc[d] \in {"calling", "failed"}
                      /\ ~HoldsThis(d)
                      /\ \A m \in 1..Len(waiting) : waiting[m].client # d
                      /\ \A b \in answers[d] : b.point # point[d]
    BY <1>1, <1>4 DEF RequestsOK, Holds, HoldsThis
  <2> QED
    BY <1>0, <1>4 DEF RequestsOK
<1>6. WaitingOK'
  <2>1. \A m \in 1..Len(waiting) : waiting[m] \in Waiter
    BY <1>0 DEF TypeOK
  <2>2. \A m \in 1..Len(waiting) : waiting[m].client \in Clients
    BY <2>1 DEF Waiter
  <2> QED
    BY <1>0, <1>1, <1>2, <2>2 DEF WaitingOK, Holds, HoldsThis
<1>7. OwnerOK'
  BY <1>0, <1>1 DEF OwnerOK
<1>8. TokensOK'
  <2>1. \A d \in Clients : \A n \in 1..Len(requests'[d]) : requests'[d][n] = Unlock =>
          Holds(d)' /\ (pc'[d] = "idle" \/ owner'.of.point # point'[d])
    BY <1>0, <1>1, <1>4 DEF TokensOK, Holds
  <2> QED
    BY <1>0, <1>1, <2>1 DEF TokensOK, Holds
<1>9. RInv'
  BY <1>1, <1>2, <1>5, <1>6, <1>7, <1>8, ClusterQueueAssumption DEF RInv
<1>10. HandedOver' <=> HandedOver
  BY <1>1 DEF HandedOver
<1> QED
  BY <1>1, <1>9, <1>10, Quiet, NoStep

(* A wakeup that is lost leaves the lock handed over.                      *)
LEMMA WakeupLostStep ==
    ASSUME IInv, RInv, NEW w \in wakeups, WakeupLost(w)
    PROVE  RInv' /\ UNCHANGED Fifo!lockVars
<1>0. TypeOK /\ RequestsOK /\ WaitingOK /\ OwnerOK /\ TokensOK
  BY DEF IInv, RInv
<1>1. /\ wakeups' \subseteq wakeups
      /\ UNCHANGED <<exists, waiting, requests, answers, pc, point, owner>>
  BY DEF WakeupLost
<1>2. RequestsOK' /\ WaitingOK'
  BY <1>0, <1>1 DEF RequestsOK, WaitingOK, Holds, HoldsThis
<1>3. OwnerOK' /\ TokensOK'
  BY <1>0, <1>1 DEF OwnerOK, TokensOK, Holds
<1>4. RInv'
  BY <1>1, <1>2, <1>3 DEF RInv
<1>5. HandedOver' <=> HandedOver
  BY <1>1 DEF HandedOver
<1> QED
  BY <1>1, <1>4, <1>5, Quiet, NoStep

(* A node that stops keeps the lock it has, or that it waits for.          *)
LEMMA StopsStep ==
    ASSUME IInv, RInv, NEW c \in Clients, Stops(c)
    PROVE  RInv' /\ UNCHANGED Fifo!lockVars
<1>0. TypeOK /\ RequestsOK /\ WaitingOK /\ OwnerOK /\ TokensOK
  BY DEF IInv, RInv
<1>1. /\ pc[c] \in {"asleep", "running"}
      /\ pc' = [pc EXCEPT ![c] = IF pc[c] = "running" THEN "stopped" ELSE "failed"]
      /\ UNCHANGED <<exists, waiting, requests, answers, wakeups, point, owner>>
  BY DEF Stops
<1>2. /\ pc'[c] = IF pc[c] = "running" THEN "stopped" ELSE "failed"
      /\ \A d \in Clients : d # c => pc'[d] = pc[d]
  BY <1>0, <1>1 DEF TypeOK
<1>3. RequestsOK'
  BY <1>0, <1>1, <1>2 DEF RequestsOK, Holds, HoldsThis
<1>4. WaitingOK'
  <2>1. \A m \in 1..Len(waiting) : waiting[m] \in Waiter
    BY <1>0 DEF TypeOK
  <2>2. \A m \in 1..Len(waiting) : waiting[m].client \in Clients
    BY <2>1 DEF Waiter
  <2> QED
    BY <1>0, <1>1, <1>2, <2>2 DEF WaitingOK, Holds, HoldsThis
<1>5. OwnerOK'
  BY <1>0, <1>1 DEF OwnerOK
<1>6. TokensOK'
  <2>1. \A d \in Clients : pc'[d] = "running" => Holds(d)' /\ owner'.of.point = point'[d]
    BY <1>0, <1>1, <1>2 DEF TokensOK, Holds
  <2>2. \A d \in Clients : \A n \in 1..Len(requests'[d]) : requests'[d][n] = Unlock =>
          Holds(d)' /\ (pc'[d] = "idle" \/ owner'.of.point # point'[d])
    BY <1>0, <1>1, <1>2 DEF TokensOK, Holds
  <2> QED
    BY <1>0, <1>1, <2>1, <2>2 DEF TokensOK, Holds
<1>7. RInv'
  BY <1>1, <1>3, <1>4, <1>5, <1>6 DEF RInv
<1>8. exists => (HandedOver' <=> HandedOver)
  <2> SUFFICES ASSUME exists PROVE HandedOver' <=> HandedOver
    OBVIOUS
  <2>1. owner.of.client \in Clients
    BY <1>0 DEF OwnerOK, Owner, Waiter
  <2> QED
    BY <1>1, <1>2, <2>1 DEF HandedOver
<1> QED
  BY <1>1, <1>7, <1>8, Quiet, NoStep
-----------------------------------------------------------------------------
(* A waiter more.                                                          *)
LEMMA OneMore ==
    ASSUME TypeOK, NEW w \in Waiter, waiting' = Append(waiting, w)
    PROVE  /\ Len(waiting) \in Nat /\ w.client \in Clients
           /\ \A m \in 1..Len(waiting) : waiting[m] \in Waiter /\ waiting[m].client \in Clients
           /\ \A m \in 1..Len(waiting') :
                 \/ m = Len(waiting) + 1 /\ waiting'[m] = w
                 \/ m \in 1..Len(waiting) /\ waiting'[m] = waiting[m]
<1>1. waiting \in Seq(Waiter)
  BY DEF TypeOK
<1>2. \A m \in 1..Len(waiting) : waiting[m] \in Waiter
  BY <1>1
<1>3. /\ Len(waiting') = Len(waiting) + 1 /\ Len(waiting) \in Nat
      /\ \A m \in 1..(Len(waiting) + 1) :
            waiting'[m] = IF m = Len(waiting) + 1 THEN w ELSE waiting[m]
  BY <1>1
<1>4. w.client \in Clients /\ \A m \in 1..Len(waiting) : waiting[m].client \in Clients
  BY <1>2 DEF Waiter
<1> QED
  BY <1>2, <1>3, <1>4

(* It is last in the queue ...                                             *)
LEMMA Joins ==
    ASSUME TypeOK, OwnerOK, exists, NEW w \in Waiter, owner.of # w,
           \A m \in 1..Len(waiting) : waiting[m].client # w.client,
           waiting' = Append(waiting, w), UNCHANGED <<exists, owner>>,
           HandedOver' <=> HandedOver
    PROVE  Fifo!Next
<1> DEFINE o == owner.of
<1>1. o \in Waiter /\ waiting \in Seq(Waiter) /\ \A m \in 1..Len(waiting) : waiting[m] # w
  BY DEF TypeOK, OwnerOK, Owner
<1>2. Queue = <<o>> \o waiting /\ Queue' = <<o>> \o Append(waiting, w) /\ Level' = Level
  BY DEF Queue, Level
<1> HIDE DEF o
<1>3. /\ Queue # <<>> /\ Queue' = Append(Queue, w)
      /\ \A n \in 1..Len(Queue) : Queue[n] # w
  <2>1. o # w
    BY DEF o
  <2>2. /\ <<o>> \o waiting # <<>>
        /\ <<o>> \o Append(waiting, w) = Append(<<o>> \o waiting, w)
        /\ \A n \in 1..Len(<<o>> \o waiting) : (<<o>> \o waiting)[n] # w
    BY <1>1, <2>1, OwnerFirst
  <2> QED
    BY <1>2, <2>2
<1> QED
  BY <1>2, <1>3, RequestStep

(* ... or gets a free lock at once.                                        *)
LEMMA GetsAtOnce ==
    ASSUME TypeOK, OwnerOK, ~exists, exists', NEW w \in Waiter,
           owner' = [of |-> w, atOnce |-> TRUE], waiting' = waiting
    PROVE  Fifo!Next
<1>1. waiting' = <<>> /\ owner'.of = w /\ owner'.atOnce
  BY DEF OwnerOK
<1>2. Queue = <<>> /\ Level' = 1
  BY <1>1 DEF Queue, Level, HandedOver
<1>3. Queue' = <<w>>
  BY <1>1 DEF Queue
<1>4. Queue' = Append(Queue, w) /\ \A n \in 1..Len(Queue) : Queue[n] # w
  BY <1>2, <1>3
<1> QED
  BY <1>2, <1>4, RequestStep

(* A lock in the service of the locks itself.                              *)
LEMMA LockLocallyStep ==
    ASSUME IInv, RInv, NEW c \in Clients, LockLocally(c)
    PROVE  RInv' /\ Fifo!Next
<1> DEFINE p == point[c] + 1
           w == [client |-> c, point |-> p]
<1>0. TypeOK /\ RequestsOK /\ WaitingOK /\ OwnerOK /\ TokensOK
  BY DEF IInv, RInv
<1>1. /\ c \in Local /\ pc[c] = "idle" /\ p \in Points /\ point[c] \in Nat /\ p \in Nat
      /\ point' = [point EXCEPT ![c] = p]
      /\ pc' = [pc EXCEPT ![c] = IF exists THEN "asleep" ELSE "running"]
      /\ UNCHANGED <<requests, answers, wakeups, lost>>
  BY <1>0, ClusterQueueAssumption DEF LockLocally, TypeOK, Points
<1>2. /\ point'[c] = p /\ pc'[c] = IF exists THEN "asleep" ELSE "running"
      /\ \A d \in Clients : d # c => point'[d] = point[d] /\ pc'[d] = pc[d]
  BY <1>0, <1>1 DEF TypeOK
<1>3. w \in Waiter /\ w.client = c /\ w.point = p
  BY <1>1 DEF Waiter
<1>4. Granted(c, p)
  BY <1>2 DEF LockLocally
<1>5. /\ exists => waiting' = Append(waiting, w) /\ UNCHANGED <<exists, owner>>
      /\ ~exists => /\ exists' /\ UNCHANGED waiting
                    /\ owner' = [of |-> w, atOnce |-> TRUE]
  BY <1>4 DEF Granted
<1>6. /\ requests[c] = <<>>
      /\ Holds(c) => /\ owner.of.point \in Nat /\ owner.of.point <= point[c]
                     /\ owner.of.point # p
      /\ \A m \in 1..Len(waiting) : waiting[m].client # c
      /\ \A a \in answers[c] : a.point <= point[c] /\ a.point \in Nat
  <2>1. requests[c] = <<>>
    BY <1>1 DEF RInv
  <2>2. Holds(c) => /\ owner.of.point \in Nat /\ owner.of.point <= point[c]
                    /\ owner.of.point # p
    BY <1>0, <1>1, ClusterQueueAssumption DEF Holds, OwnerOK, Owner, Waiter, Points
  <2>3. \A a \in answers[c] : a.point <= point[c] /\ a.point \in Nat
    BY <1>0, ClusterQueueAssumption DEF RInv, TypeOK, Points
  <2> QED
    BY <1>0, <1>1, <2>1, <2>2, <2>3 DEF WaitingOK
<1>7. Len(<<>>) = 0
  OBVIOUS
<1> HIDE DEF p, w
<1>8. \A d \in Clients : \A n \in 1..Len(requests'[d]) :
        n \in 1..Len(requests[d]) /\ requests'[d] = requests[d] /\ d # c
  BY <1>1, <1>6, <1>7
<1>9. \A d \in Local : requests'[d] = <<>>
  BY <1>1 DEF RInv
<1>10. \A d \in Clients : \A a \in answers'[d] : a.point <= point'[d]
  <2>1. \A a \in answers'[c] : a.point <= point'[c]
    BY <1>1, <1>2, <1>6 DEF p
  <2> QED
    BY <1>1, <1>2, <2>1 DEF RInv
<1>11. CASE exists
  <2>0. waiting' = Append(waiting, w) /\ UNCHANGED <<exists, owner>>
    BY <1>5, <1>11
  <2>1. /\ Len(waiting) \in Nat
        /\ \A m \in 1..Len(waiting) : waiting[m] \in Waiter /\ waiting[m].client \in Clients
        /\ \A m \in 1..Len(waiting') :
              \/ m = Len(waiting) + 1 /\ waiting'[m] = w
              \/ m \in 1..Len(waiting) /\ waiting'[m] = waiting[m]
    BY <1>0, <1>3, <2>0, OneMore
  <2>2. RequestsOK'
    <3> SUFFICES ASSUME NEW d \in Clients, NEW n \in 1..Len(requests[d]), d # c,
                        requests[d][n] # Unlock
                 PROVE  /\ n = Len(requests[d]) /\ requests[d][n] = point[d]
                        /\ pc[d] \in {"calling", "failed"}
                        /\ ~HoldsThis(d)
                        /\ \A m \in 1..Len(waiting') : waiting'[m].client # d
                        /\ \A a \in answers[d] : a.point # point[d]
      BY <1>1, <1>2, <1>8, <2>0 DEF RequestsOK, Holds, HoldsThis
    <3> QED
      BY <1>0, <1>3, <2>1, SMTT(60) DEF RequestsOK
  <2>3. WaitingOK'
    <3>1. \A m \in 1..Len(waiting') :
             /\ waiting'[m].point = point'[waiting'[m].client]
             /\ pc'[waiting'[m].client] \in {"calling", "asleep", "failed"}
             /\ requests'[waiting'[m].client] = <<>>
             /\ ~(exists /\ owner.of.client = waiting'[m].client /\ owner.of.point = waiting'[m].point)
      <4> SUFFICES ASSUME NEW m \in 1..Len(waiting')
                   PROVE  /\ waiting'[m].point = point'[waiting'[m].client]
                          /\ pc'[waiting'[m].client] \in {"calling", "asleep", "failed"}
                          /\ requests'[waiting'[m].client] = <<>>
                          /\ ~(exists /\ owner.of.client = waiting'[m].client /\ owner.of.point = waiting'[m].point)
        OBVIOUS
      <4>1. CASE m = Len(waiting) + 1 /\ waiting'[m] = w
        BY <1>1, <1>2, <1>3, <1>6, <1>11, <4>1 DEF Holds
      <4>2. CASE m \in 1..Len(waiting) /\ waiting'[m] = waiting[m]
        BY <1>0, <1>1, <1>2, <1>6, <2>1, <4>2 DEF WaitingOK, Holds, HoldsThis
      <4> QED
        BY <2>1, <4>1, <4>2
    <3>2. \A m, n \in 1..Len(waiting') : waiting'[m].client = waiting'[n].client => m = n
      BY <1>0, <1>3, <1>6, <2>1, SMTT(60) DEF WaitingOK
    <3>3. ASSUME NEW m \in 1..Len(waiting') PROVE ~HoldsThis(waiting[m].client)'
      BY <2>0, <3>1 DEF Holds, HoldsThis
    <3> QED
      BY <3>1, <3>2, <3>3 DEF WaitingOK
  <2>4. OwnerOK'
    <3>1. owner \in Owner /\ owner.of.client \in Clients /\ owner.of.point \in Nat
      BY <1>0, <1>11, ClusterQueueAssumption DEF OwnerOK, Owner, Waiter, Points
    <3>2. owner.of.point <= point'[owner.of.client]
      <4>1. CASE owner.of.client = c
        BY <1>1, <1>2, <1>6, <1>11, <4>1 DEF Holds, p
      <4>2. CASE owner.of.client # c
        BY <1>0, <1>2, <1>11, <3>1, <4>2 DEF OwnerOK
      <4> QED
        BY <4>1, <4>2
    <3> QED
      BY <1>11, <2>0, <3>1, <3>2 DEF OwnerOK
  <2>5. TokensOK'
    <3>1. \A d \in Clients : pc'[d] = "running" => Holds(d)' /\ owner'.of.point = point'[d]
      BY <1>0, <1>2, <1>11, <2>0 DEF TokensOK, Holds
    <3>2. \A d \in Clients : \A n \in 1..Len(requests'[d]) : requests'[d][n] = Unlock =>
            Holds(d)' /\ (pc'[d] = "idle" \/ owner'.of.point # point'[d])
      BY <1>0, <1>2, <1>8, <2>0 DEF TokensOK, Holds
    <3> QED
      BY <1>0, <1>1, <2>0, <3>1, <3>2 DEF TokensOK, Holds
  <2>6. HandedOver' <=> HandedOver
    <3>1. owner.of.client \in Clients
      BY <1>0, <1>11 DEF OwnerOK, Owner, Waiter
    <3> QED
      BY <1>1, <1>2, <1>6, <1>11, <2>0, <3>1 DEF HandedOver, Holds
  <2>7. owner.of # w
    BY <1>3, <1>6, <1>11 DEF Holds
  <2> QED
    BY <1>0, <1>3, <1>6, <1>9, <1>10, <1>11, <2>0, <2>2, <2>3, <2>4, <2>5, <2>6, <2>7, Joins
       DEF RInv
<1>12. CASE ~exists
  <2>0. exists' /\ waiting' = waiting /\ owner' = [of |-> w, atOnce |-> TRUE]
    BY <1>5, <1>12
  <2>1. owner'.of = w /\ owner'.atOnce /\ owner' \in Owner
    BY <1>3, <2>0 DEF Owner
  <2>2. waiting' = <<>>
    BY <1>0, <1>12, <2>0 DEF OwnerOK
  <2>3. /\ \A d \in Clients : pc[d] # "running" /\ \A a \in answers[d] : ~a.ok
        /\ wakeups = {}
        /\ \A d \in Clients : \A n \in 1..Len(requests[d]) : requests[d][n] # Unlock
    BY <1>0, <1>12 DEF TokensOK, Holds
  <2>4. RequestsOK'
    <3> SUFFICES ASSUME NEW d \in Clients, NEW n \in 1..Len(requests[d]), d # c,
                        requests[d][n] # Unlock
                 PROVE  /\ n = Len(requests[d]) /\ requests[d][n] = point[d]
                        /\ pc[d] \in {"calling", "failed"}
                        /\ d # owner'.of.client
                        /\ \A a \in answers[d] : a.point # point[d]
      BY <1>1, <1>2, <1>7, <1>8, <2>2 DEF RequestsOK, Holds, HoldsThis
    <3> QED
      BY <1>0, <1>3, <2>1 DEF RequestsOK
  <2>5. WaitingOK'
    BY <1>7, <2>2 DEF WaitingOK
  <2>6. OwnerOK'
    <3>1. owner'.of.point <= point'[owner'.of.client]
      BY <1>1, <1>2, <1>3, <1>12, <2>1
    <3> QED
      BY <2>0, <2>1, <3>1 DEF OwnerOK
  <2>7. TokensOK'
    <3>1. \A d \in Clients : pc'[d] = "running" => d = c
      BY <1>2, <2>3
    <3>2. \A d \in Clients : pc'[d] = "running" => Holds(d)' /\ owner'.of.point = point'[d]
      BY <1>2, <1>3, <2>0, <2>1, <3>1 DEF Holds
    <3>3. \A d \in Clients : \A n \in 1..Len(requests'[d]) : requests'[d][n] # Unlock
      BY <1>8, <2>3
    <3> QED
      BY <1>1, <2>3, <3>2, <3>3 DEF TokensOK
  <2> QED
    BY <1>0, <1>3, <1>9, <1>10, <1>12, <2>0, <2>4, <2>5, <2>6, <2>7, GetsAtOnce DEF RInv
<1> QED
  BY <1>11, <1>12

(* A request arrives: it is the last its client has sent.                  *)
LEMMA ApiLockStep ==
    ASSUME IInv, RInv, NEW c \in Clients, ApiLock(c)
    PROVE  RInv' /\ Fifo!Next
<1> DEFINE p == Head(requests[c])
           w == [client |-> c, point |-> p]
           b == [point |-> p, ok |-> ~exists]
<1>0. TypeOK /\ RequestsOK /\ WaitingOK /\ OwnerOK /\ TokensOK
  BY DEF IInv, RInv
<1>1. /\ requests[c] # <<>> /\ p # Unlock /\ Granted(c, p)
      /\ requests' = [requests EXCEPT ![c] = Tail(requests[c])]
      /\ answers' = [answers EXCEPT ![c] = answers[c] \cup {b}]
      /\ UNCHANGED <<wakeups, pc, point, lost>>
  BY DEF ApiLock
<1>2. /\ requests[c] \in Seq(Points) /\ Len(requests[c]) \in Nat /\ Len(requests[c]) >= 1
      /\ requests[c][1] = p
  BY <1>0, <1>1 DEF TypeOK
<1>3. /\ Len(requests[c]) = 1 /\ p = point[c] /\ pc[c] \in {"calling", "failed"}
      /\ ~HoldsThis(c)
      /\ \A m \in 1..Len(waiting) : waiting[m].client # c
      /\ \A a \in answers[c] : a.point # point[c]
  <2>1. 1 \in 1..Len(requests[c])
    BY <1>2
  <2> QED
    BY <1>0, <1>1, <1>2, <2>1 DEF RequestsOK
<1>4. requests'[c] = <<>> /\ \A d \in Clients : d # c => requests'[d] = requests[d]
  <2>1. Tail(requests[c]) \in Seq(Points) /\ Len(Tail(requests[c])) = 0
    BY <1>1, <1>2, <1>3
  <2>2. Tail(requests[c]) = <<>>
    BY <2>1, EmptySeq
  <2> QED
    BY <1>0, <1>1, <2>2 DEF TypeOK
<1>5. /\ answers'[c] = answers[c] \cup {b}
      /\ \A d \in Clients : d # c => answers'[d] = answers[d]
  BY <1>0, <1>1 DEF TypeOK
<1>6. w \in Waiter /\ w.client = c /\ w.point = p /\ b.point = p /\ (b.ok <=> ~exists)
  <2>1. p \in Points
    BY <1>2
  <2> QED
    BY <2>1 DEF Waiter
<1>7. /\ exists => waiting' = Append(waiting, w) /\ UNCHANGED <<exists, owner>>
      /\ ~exists => /\ exists' /\ UNCHANGED waiting
                    /\ owner' = [of |-> w, atOnce |-> TRUE]
  BY <1>1 DEF Granted
<1>8. Len(<<>>) = 0 /\ point[c] \in Nat
  BY <1>0, ClusterQueueAssumption DEF TypeOK, Points
<1>a. UNCHANGED <<wakeups, pc, point>>
  BY <1>1
<1> HIDE DEF p, w, b
<1>9. \A d \in Clients : \A n \in 1..Len(requests'[d]) :
        n \in 1..Len(requests[d]) /\ requests'[d] = requests[d] /\ d # c
  BY <1>4, <1>8
<1>10. \A d \in Local : requests'[d] = <<>>
  BY <1>4, ClusterQueueAssumption DEF RInv
<1>11. \A d \in Clients : \A a \in answers'[d] : a.point <= point'[d]
  BY <1>1, <1>3, <1>5, <1>6, <1>8 DEF RInv
<1>12. CASE exists
  <2>0. waiting' = Append(waiting, w) /\ UNCHANGED <<exists, owner>>
    BY <1>7, <1>12
  <2>1. /\ Len(waiting) \in Nat
        /\ \A m \in 1..Len(waiting) : waiting[m] \in Waiter /\ waiting[m].client \in Clients
        /\ \A m \in 1..Len(waiting') :
              \/ m = Len(waiting) + 1 /\ waiting'[m] = w
              \/ m \in 1..Len(waiting) /\ waiting'[m] = waiting[m]
    BY <1>0, <1>6, <2>0, OneMore
  <2>2. RequestsOK'
    <3> SUFFICES ASSUME NEW d \in Clients, NEW n \in 1..Len(requests[d]), d # c,
                        requests[d][n] # Unlock
                 PROVE  /\ n = Len(requests[d]) /\ requests[d][n] = point[d]
                        /\ pc[d] \in {"calling", "failed"}
                        /\ ~HoldsThis(d)
                        /\ \A m \in 1..Len(waiting') : waiting'[m].client # d
                        /\ \A a \in answers[d] : a.point # point[d]
      BY <1>a, <1>5, <1>9, <2>0 DEF RequestsOK, Holds, HoldsThis
    <3> QED
      BY <1>0, <1>6, <2>1 DEF RequestsOK
  <2>3. WaitingOK'
    <3>1. \A m \in 1..Len(waiting') :
             /\ waiting'[m].point = point[waiting'[m].client]
             /\ pc[waiting'[m].client] \in {"calling", "asleep", "failed"}
             /\ requests'[waiting'[m].client] = <<>>
             /\ ~(exists /\ owner.of.client = waiting'[m].client /\ owner.of.point = waiting'[m].point)
      <4> SUFFICES ASSUME NEW m \in 1..Len(waiting')
                   PROVE  /\ waiting'[m].point = point[waiting'[m].client]
                          /\ pc[waiting'[m].client] \in {"calling", "asleep", "failed"}
                          /\ requests'[waiting'[m].client] = <<>>
                          /\ ~(exists /\ owner.of.client = waiting'[m].client /\ owner.of.point = waiting'[m].point)
        OBVIOUS
      <4>1. CASE m = Len(waiting) + 1 /\ waiting'[m] = w
        BY <1>3, <1>4, <1>6, <4>1 DEF Holds, HoldsThis
      <4>2. CASE m \in 1..Len(waiting) /\ waiting'[m] = waiting[m]
        BY <1>0, <1>3, <1>4, <2>1, <4>2 DEF WaitingOK, Holds, HoldsThis
      <4> QED
        BY <2>1, <4>1, <4>2
    <3>2. \A m, n \in 1..Len(waiting') : waiting'[m].client = waiting'[n].client => m = n
      BY <1>0, <1>3, <1>6, <2>1, SMTT(60) DEF WaitingOK
    <3> QED
      BY <1>1, <2>0, <3>1, <3>2 DEF WaitingOK, Holds, HoldsThis
  <2>4. OwnerOK'
    BY <1>0, <1>1, <1>12, <2>0 DEF OwnerOK
  <2>5. TokensOK'
    <3>1. \A d \in Clients : \A a \in answers'[d] :
            a.ok => Holds(d)' /\ owner'.of.point = a.point /\ owner'.atOnce
      BY <1>0, <1>5, <1>6, <1>12, <2>0 DEF TokensOK, Holds
    <3>2. \A d \in Clients : \A n \in 1..Len(requests'[d]) : requests'[d][n] = Unlock =>
            Holds(d)' /\ (pc'[d] = "idle" \/ owner'.of.point # point'[d])
      BY <1>0, <1>a, <1>9, <2>0 DEF TokensOK, Holds
    <3> QED
      BY <1>0, <1>1, <2>0, <3>1, <3>2 DEF TokensOK, Holds
  <2>6. HandedOver' <=> HandedOver
    BY <1>1, <2>0 DEF HandedOver
  <2>7. owner.of # w
    BY <1>3, <1>6, <1>12 DEF Holds, HoldsThis
  <2> QED
    BY <1>0, <1>3, <1>6, <1>10, <1>11, <1>12, <2>0, <2>2, <2>3, <2>4, <2>5, <2>6, <2>7, Joins
       DEF RInv
<1>13. CASE ~exists
  <2>0. exists' /\ waiting' = waiting /\ owner' = [of |-> w, atOnce |-> TRUE]
    BY <1>7, <1>13
  <2>1. owner'.of = w /\ owner'.atOnce /\ owner' \in Owner
    BY <1>6, <2>0 DEF Owner
  <2>2. waiting' = <<>>
    BY <1>0, <1>13, <2>0 DEF OwnerOK
  <2>3. /\ \A d \in Clients : pc[d] # "running" /\ \A a \in answers[d] : ~a.ok
        /\ wakeups = {}
        /\ \A d \in Clients : \A n \in 1..Len(requests[d]) : requests[d][n] # Unlock
    BY <1>0, <1>13 DEF TokensOK, Holds
  <2>4. RequestsOK'
    <3> SUFFICES ASSUME NEW d \in Clients, NEW n \in 1..Len(requests[d]), d # c,
                        requests[d][n] # Unlock
                 PROVE  /\ n = Len(requests[d]) /\ requests[d][n] = point[d]
                        /\ pc[d] \in {"calling", "failed"}
                        /\ d # owner'.of.client
                        /\ \A a \in answers[d] : a.point # point[d]
      BY <1>a, <1>5, <1>8, <1>9, <2>2 DEF RequestsOK, Holds, HoldsThis
    <3> QED
      BY <1>0, <1>6, <2>1 DEF RequestsOK
  <2>5. WaitingOK'
    BY <1>8, <2>2 DEF WaitingOK
  <2>6. OwnerOK'
    <3>1. owner'.of.point <= point'[owner'.of.client]
      BY <1>1, <1>3, <1>6, <1>8, <2>1
    <3> QED
      BY <2>0, <2>1, <3>1 DEF OwnerOK
  <2>7. TokensOK'
    <3>1. \A d \in Clients : \A a \in answers'[d] :
            a.ok => Holds(d)' /\ owner'.of.point = a.point /\ owner'.atOnce
      <4> SUFFICES ASSUME NEW d \in Clients, NEW a \in answers'[d], a.ok
                   PROVE  Holds(d)' /\ owner'.of.point = a.point /\ owner'.atOnce
        OBVIOUS
      <4>1. d = c /\ a = b
        BY <1>5, <2>3
      <4> QED
        BY <1>6, <2>0, <2>1, <4>1 DEF Holds
    <3>2. \A d \in Clients : \A n \in 1..Len(requests'[d]) : requests'[d][n] # Unlock
      BY <1>9, <2>3
    <3> QED
      BY <1>1, <2>3, <3>1, <3>2 DEF TokensOK
  <2> QED
    BY <1>0, <1>6, <1>10, <1>11, <1>13, <2>0, <2>4, <2>5, <2>6, <2>7, GetsAtOnce DEF RInv
<1> QED
  BY <1>12, <1>13
-----------------------------------------------------------------------------
(* A waiter less: the first becomes the owner.                             *)
LEMMA FirstIsNext ==
    ASSUME TypeOK, WaitingOK, waiting # <<>>, waiting' = Tail(waiting)
    PROVE  /\ Head(waiting) \in Waiter /\ Head(waiting).client \in Clients
           /\ Head(waiting) = waiting[1] /\ 1 \in 1..Len(waiting)
           /\ \A m \in 1..Len(waiting') :
                 m + 1 \in 1..Len(waiting) /\ waiting'[m] = waiting[m + 1] /\ m + 1 # 1
           /\ \A m \in 1..Len(waiting) : waiting[m] \in Waiter /\ waiting[m].client \in Clients
<1>1. waiting \in Seq(Waiter)
  BY DEF TypeOK
<1>2. /\ Len(waiting) \in Nat /\ Len(waiting) >= 1 /\ Head(waiting) = waiting[1]
      /\ Len(waiting') = Len(waiting) - 1
      /\ \A m \in 1..(Len(waiting) - 1) : waiting'[m] = waiting[m + 1]
  BY <1>1
<1>3. \A m \in 1..Len(waiting) : waiting[m] \in Waiter
  BY <1>1
<1>4. \A m \in 1..Len(waiting) : waiting[m].client \in Clients
  BY <1>3 DEF Waiter
<1> QED
  BY <1>2, <1>3, <1>4

(* The lock goes to the next when an unlock of its owner c is carried out, *)
(* which was the only token.                                               *)
LEMMA PassedOn ==
    ASSUME TypeOK, RInv, NEW c \in Clients, Holds(c), ~HandedOver, Released,
           UNCHANGED <<answers, point>>,
           \A d \in Clients : d # c => pc'[d] = pc[d] /\ requests'[d] = requests[d],
           \A n \in 1..Len(requests'[c]) :
              /\ n = Len(requests'[c]) /\ requests'[c][n] = point[c]
              /\ pc'[c] \in {"calling", "failed"}
              /\ \A a \in answers[c] : a.point # point[c],
           c \in Local => requests'[c] = <<>>,
           \A m \in 1..Len(waiting) : waiting[m].client # c,
           wakeups = {},
           \A d \in Clients :
              /\ pc'[d] # "running" /\ \A a \in answers[d] : ~a.ok
              /\ \A n \in 1..Len(requests'[d]) : requests'[d][n] # Unlock
    PROVE  RInv' /\ Fifo!Next
<1>0. RequestsOK /\ WaitingOK /\ OwnerOK /\ exists /\ owner.of.client = c
  BY DEF RInv, Holds
<1>1. /\ \A d \in Local : requests'[d] = <<>>
      /\ \A d \in Clients : \A a \in answers'[d] : a.point <= point'[d]
  BY ClusterQueueAssumption DEF RInv
<1>2. Len(<<>>) = 0
  OBVIOUS
<1>3. Level = 1 /\ Queue = <<owner.of>> \o waiting
  BY <1>0 DEF Level, Queue
<1>4. waiting \in Seq(Waiter) /\ owner.of \in Waiter
  BY <1>0 DEF TypeOK, OwnerOK, Owner
<1>5. Tail(Queue) = waiting
  BY <1>3, <1>4, OwnerFirst
<1>6. CASE waiting = <<>>
  <2>1. ~exists' /\ waiting' = <<>> /\ wakeups' = {}
    BY <1>6 DEF Released
  <2>2. RequestsOK'
    <3> SUFFICES ASSUME NEW d \in Clients, NEW n \in 1..Len(requests'[d]),
                        requests'[d][n] # Unlock
                 PROVE  /\ n = Len(requests'[d]) /\ requests'[d][n] = point[d]
                        /\ pc'[d] \in {"calling", "failed"}
                        /\ \A a \in answers[d] : a.point # point[d]
      BY <1>2, <2>1 DEF RequestsOK, Holds, HoldsThis
    <3>1. CASE d # c
      BY <1>0, <3>1 DEF RequestsOK
    <3> QED
      BY <3>1
  <2>3. WaitingOK' /\ OwnerOK'
    BY <1>2, <2>1 DEF WaitingOK, OwnerOK
  <2>4. TokensOK'
    BY <2>1 DEF TokensOK
  <2>5. Level' = 0 /\ Queue' = <<>>
    BY <2>1 DEF Level, Queue
  <2> QED
    BY <1>1, <1>3, <1>5, <1>6, <2>2, <2>3, <2>4, <2>5, LeaveStep DEF RInv
<1>7. CASE waiting # <<>>
  <2> DEFINE h == Head(waiting)
  <2>1. /\ exists' /\ owner' = [of |-> h, atOnce |-> FALSE]
        /\ waiting' = Tail(waiting) /\ wakeups' = {h}
    BY <1>0, <1>7 DEF Released
  <2>2. /\ h \in Waiter /\ h.client \in Clients
        /\ h = waiting[1] /\ 1 \in 1..Len(waiting)
        /\ \A m \in 1..Len(waiting') :
              m + 1 \in 1..Len(waiting) /\ waiting'[m] = waiting[m + 1] /\ m + 1 # 1
        /\ \A m \in 1..Len(waiting) : waiting[m] \in Waiter /\ waiting[m].client \in Clients
    BY <1>0, <1>7, <2>1, FirstIsNext
  <2> HIDE DEF h
  <2>3. owner'.of = h /\ ~owner'.atOnce /\ owner' \in Owner
    BY <2>1, <2>2 DEF Owner
  <2>4. \A m \in 1..Len(waiting) :
           /\ waiting[m].client # c
           /\ waiting[m].point = point'[waiting[m].client]
           /\ pc'[waiting[m].client] \in {"calling", "asleep", "failed"}
           /\ requests'[waiting[m].client] = <<>>
    BY <1>0, <2>2 DEF WaitingOK, Holds, HoldsThis
  <2>5. RequestsOK'
    <3> SUFFICES ASSUME NEW d \in Clients, NEW n \in 1..Len(requests'[d]),
                        requests'[d][n] # Unlock
                 PROVE  /\ n = Len(requests'[d]) /\ requests'[d][n] = point[d]
                        /\ pc'[d] \in {"calling", "failed"}
                        /\ d # h.client
                        /\ \A m \in 1..Len(waiting') : waiting'[m].client # d
                        /\ \A a \in answers[d] : a.point # point[d]
      BY <2>3 DEF RequestsOK, Holds, HoldsThis
    <3>0. requests'[d] # <<>>
      BY <1>2
    <3>1. \A m \in 1..Len(waiting) : waiting[m].client # d
      BY <2>4, <3>0
    <3>a. d # h.client
      BY <2>2, <3>1
    <3>b. ASSUME NEW m \in 1..Len(waiting') PROVE waiting'[m].client # d
      <4>1. m + 1 \in 1..Len(waiting) /\ waiting'[m] = waiting[m + 1]
        BY <2>2
      <4> QED
        BY <3>1, <4>1
    <3>2. d # h.client /\ \A m \in 1..Len(waiting') : waiting'[m].client # d
      BY <3>a, <3>b
    <3>3. CASE d # c
      BY <1>0, <3>2, <3>3 DEF RequestsOK
    <3> QED
      BY <3>2, <3>3
  <2>6. WaitingOK'
    <3>1. \A m \in 1..Len(waiting') : waiting'[m].client # h.client
      BY <1>0, <2>2, SMTT(60) DEF WaitingOK
    <3>2. \A m, n \in 1..Len(waiting') : waiting'[m].client = waiting'[n].client => m = n
      <4> SUFFICES ASSUME NEW m \in 1..Len(waiting'), NEW n \in 1..Len(waiting'),
                          waiting'[m].client = waiting'[n].client
                   PROVE  m = n
        OBVIOUS
      <4>1. m + 1 = n + 1
        BY <1>0, <2>2 DEF WaitingOK
      <4> QED
        BY <4>1
    <3> QED
      BY <2>2, <2>3, <2>4, <3>1, <3>2 DEF WaitingOK, Holds, HoldsThis
  <2>7. h.point = point'[h.client] /\ pc'[h.client] \in {"calling", "asleep", "failed"}
    BY <2>2, <2>4
  <2>8. OwnerOK'
    <3>1. point'[h.client] \in Nat
      BY <2>2, ClusterQueueAssumption DEF TypeOK, Points
    <3> QED
      BY <2>1, <2>3, <2>7, <3>1 DEF OwnerOK
  <2>9. TokensOK'
    BY <2>1, <2>3 DEF TokensOK
  <2>10. HandedOver'
    BY <2>3, <2>7 DEF HandedOver
  <2>11. Level' = 0
    BY <2>10 DEF Level
  <2>12. waiting = <<h>> \o waiting'
    BY <1>4, <1>7, <2>1 DEF h
  <2>13. Queue' = Tail(Queue)
    BY <1>5, <2>1, <2>3, <2>12 DEF Queue
  <2> QED
    BY <1>1, <1>3, <2>5, <2>6, <2>8, <2>9, <2>11, <2>13, LeaveStep DEF RInv
<1> QED
  BY <1>6, <1>7

(* Where the token is, and where it is not.                                *)
LEMMA OnlyToken ==
    ASSUME IInv, NEW j \in Places, NEW c \in Clients, NEW m \in Nat, Token(j, c, m)
    PROVE  /\ \A d \in Clients : pc[d] = "running" => j = "running" /\ d = c
           /\ \A d \in Clients : \A a \in answers[d] : a.ok => j = "answer"
           /\ wakeups # {} => j = "wakeup"
           /\ \A d \in Clients : \A n \in 1..Len(requests[d]) : requests[d][n] = Unlock =>
                 j = "unlock" /\ d = c /\ n = m
<1> USE ClusterQueueAssumption
<1>1. TypeOK /\ OneToken /\ Points \subseteq Nat /\ 0 \in Nat
  BY DEF IInv, Points
<1>2. ASSUME NEW k \in Places, NEW d \in Clients, NEW n \in Nat, Token(k, d, n)
      PROVE  j = k /\ c = d /\ m = n
  BY <1>1, <1>2 DEF OneToken
<1>3. ASSUME NEW d \in Clients, pc[d] = "running"
      PROVE  j = "running" /\ d = c
  <2>1. Token("running", d, 0) /\ "running" \in Places
    BY <1>3 DEF Token, Places
  <2> QED
    BY <1>1, <1>2, <2>1
<1>4. ASSUME NEW d \in Clients, NEW a \in answers[d], a.ok
      PROVE  j = "answer"
  <2>1. a \in [point : Points, ok : BOOLEAN]
    BY <1>1 DEF TypeOK
  <2>2. a = [point |-> a.point, ok |-> TRUE] /\ a.point \in Nat
    BY <1>1, <1>4, <2>1
  <2>3. Token("answer", d, a.point) /\ "answer" \in Places
    BY <2>2 DEF Token, Places
  <2> QED
    BY <1>2, <2>2, <2>3
<1>5. ASSUME NEW w \in wakeups
      PROVE  j = "wakeup"
  <2>1. w \in [client : Clients, point : Points]
    BY <1>1 DEF TypeOK, Waiter
  <2>2. w = [client |-> w.client, point |-> w.point] /\ w.client \in Clients /\ w.point \in Nat
    BY <1>1, <2>1
  <2>3. Token("wakeup", w.client, w.point) /\ "wakeup" \in Places
    BY <2>2 DEF Token, Places
  <2> QED
    BY <1>2, <2>2, <2>3
<1>6. ASSUME NEW d \in Clients, NEW n \in 1..Len(requests[d]), requests[d][n] = Unlock
      PROVE  j = "unlock" /\ d = c /\ n = m
  <2>1. n \in Nat
    BY <1>1 DEF TypeOK
  <2>2. Token("unlock", d, n) /\ "unlock" \in Places
    BY <1>6 DEF Token, Places
  <2> QED
    BY <1>2, <2>1, <2>2
<1> QED
  BY <1>3, <1>4, <1>5, <1>6

(* The unlocks: of a coroutine that runs, and of one whose unlock arrives. *)
LEMMA UnlockLocallyStep ==
    ASSUME IInv, RInv, NEW c \in Clients, UnlockLocally(c)
    PROVE  RInv' /\ Fifo!Next
<1>0. TypeOK /\ RequestsOK /\ WaitingOK /\ OwnerOK /\ TokensOK
  BY DEF IInv, RInv
<1>1. /\ c \in Local /\ pc[c] = "running" /\ pc' = [pc EXCEPT ![c] = "idle"] /\ Released
      /\ UNCHANGED <<requests, answers, point, lost>>
  BY DEF UnlockLocally
<1>2. pc'[c] = "idle" /\ \A d \in Clients : d # c => pc'[d] = pc[d]
  BY <1>0, <1>1 DEF TypeOK
<1>3. requests'[c] = <<>> /\ Len(<<>>) = 0
  BY <1>1 DEF RInv
<1>4. Token("running", c, 0) /\ "running" \in Places
  BY <1>1 DEF Token, Places
<1>5. /\ \A d \in Clients : pc[d] = "running" => d = c
      /\ \A d \in Clients : \A a \in answers[d] : ~a.ok
      /\ wakeups = {}
      /\ \A d \in Clients : \A n \in 1..Len(requests[d]) : requests[d][n] # Unlock
  BY <1>4, OnlyToken
<1>6. Holds(c) /\ ~HandedOver
  BY <1>0, <1>1 DEF TokensOK, Holds, HandedOver
<1>7. \A d \in Clients : pc'[d] # "running"
  BY <1>2, <1>5
<1>8. /\ \A d \in Clients : requests'[d] = requests[d]
      /\ UNCHANGED <<answers, point>>
  BY <1>1
<1>9. \A n \in 1..Len(requests'[c]) : FALSE
  BY <1>3
<1>10. \A m \in 1..Len(waiting) : waiting[m].client # c
  BY <1>0, <1>1 DEF WaitingOK
<1> QED
  BY <1>0, <1>1, <1>2, <1>3, <1>5, <1>6, <1>7, <1>8, <1>9, <1>10, PassedOn

LEMMA ApiUnlockStep ==
    ASSUME IInv, RInv, NEW c \in Clients, ApiUnlock(c)
    PROVE  RInv' /\ Fifo!Next
<1>0. TypeOK /\ RequestsOK /\ WaitingOK /\ OwnerOK /\ TokensOK
  BY DEF IInv, RInv
<1>1. /\ requests[c] # <<>> /\ Head(requests[c]) = Unlock /\ Released
      /\ requests' = [requests EXCEPT ![c] = Tail(requests[c])]
      /\ UNCHANGED <<answers, pc, point, lost>>
  BY DEF ApiUnlock
<1>2. /\ requests'[c] = Tail(requests[c])
      /\ \A d \in Clients : d # c => requests'[d] = requests[d]
  BY <1>0, <1>1 DEF TypeOK
<1>3. /\ Len(requests[c]) \in Nat /\ 1 \in 1..Len(requests[c]) /\ requests[c][1] = Unlock
      /\ Len(requests'[c]) = Len(requests[c]) - 1
      /\ \A n \in 1..Len(requests'[c]) :
            /\ n + 1 \in 1..Len(requests[c]) /\ n + 1 # 1
            /\ requests'[c][n] = requests[c][n + 1]
  <2>1. requests[c] \in Seq(Points)
    BY <1>0 DEF TypeOK
  <2>2. /\ Len(requests[c]) \in Nat /\ Len(requests[c]) >= 1
        /\ Head(requests[c]) = requests[c][1]
        /\ Len(Tail(requests[c])) = Len(requests[c]) - 1
        /\ \A n \in 1..(Len(requests[c]) - 1) : Tail(requests[c])[n] = requests[c][n + 1]
    BY <1>1, <2>1
  <2>3. /\ Len(requests[c]) \in Nat /\ Len(requests[c]) >= 1 /\ requests[c][1] = Unlock
    BY <1>1, <2>2
  <2>4. /\ Len(requests'[c]) = Len(requests[c]) - 1
        /\ \A n \in 1..(Len(requests[c]) - 1) : requests'[c][n] = requests[c][n + 1]
    BY <1>2, <2>2
  <2> QED
    BY <2>3, <2>4
<1>4. Token("unlock", c, 1) /\ "unlock" \in Places
  BY <1>3 DEF Token, Places
<1>5. /\ \A d \in Clients : pc[d] # "running" /\ \A a \in answers[d] : ~a.ok
      /\ wakeups = {}
      /\ \A d \in Clients : \A n \in 1..Len(requests[d]) :
            requests[d][n] = Unlock => d = c /\ n = 1
  BY <1>4, OnlyToken
<1>6. Holds(c) /\ ~HandedOver
  BY <1>0, <1>3 DEF TokensOK, Holds, HandedOver
<1>7. \A d \in Clients : \A n \in 1..Len(requests'[d]) : requests'[d][n] # Unlock
  <2>1. \A n \in 1..Len(requests'[c]) : requests'[c][n] # Unlock
    BY <1>3, <1>5
  <2>2. ASSUME NEW d \in Clients, d # c
        PROVE  \A n \in 1..Len(requests'[d]) : requests'[d][n] # Unlock
    <3>1. requests'[d] = requests[d]
      BY <1>2, <2>2
    <3> QED
      BY <1>5, <2>2, <3>1
  <2> QED
    BY <2>1, <2>2
<1>8. \A n \in 1..Len(requests'[c]) :
        /\ n = Len(requests'[c]) /\ requests'[c][n] = point[c]
        /\ pc'[c] \in {"calling", "failed"}
        /\ \A a \in answers[c] : a.point # point[c]
  <2> SUFFICES ASSUME NEW n \in 1..Len(requests'[c])
               PROVE  /\ n = Len(requests'[c]) /\ requests'[c][n] = point[c]
                      /\ pc[c] \in {"calling", "failed"}
                      /\ \A a \in answers[c] : a.point # point[c]
    BY <1>1
  <2>1. n + 1 \in 1..Len(requests[c]) /\ requests[c][n + 1] # Unlock
    BY <1>3, <1>7
  <2>2. /\ n + 1 = Len(requests[c]) /\ requests[c][n + 1] = point[c]
        /\ pc[c] \in {"calling", "failed"}
        /\ \A a \in answers[c] : a.point # point[c]
    BY <1>0, <2>1 DEF RequestsOK
  <2> QED
    BY <1>3, <2>2
<1>9. c \in Local => requests'[c] = <<>>
  BY <1>1 DEF RInv
<1>10. UNCHANGED <<answers, pc, point>>
  BY <1>1
<1>11. \A m \in 1..Len(waiting) : waiting[m].client # c
  BY <1>0, <1>1 DEF WaitingOK
<1> QED
  BY <1>0, <1>1, <1>2, <1>5, <1>6, <1>7, <1>8, <1>9, <1>10, <1>11, PassedOn
-----------------------------------------------------------------------------
(* The lock that the nodes share is granted like the lock of one service,  *)
(* first come, first served, for every number of clients and locks: each   *)
(* step is one of FifoLock or changes nothing that it sees.                *)
THEOREM Implements == Spec => ImplementsFifoLock
<1>1. Init => RInv /\ Fifo!Init
  <2> SUFFICES ASSUME Init PROVE RInv /\ Fifo!Init
    OBVIOUS
  <2>1. /\ ~exists /\ waiting = <<>> /\ wakeups = {} /\ Len(<<>>) = 0
        /\ \A c \in Clients : /\ requests[c] = <<>> /\ answers[c] = {}
                              /\ pc[c] = "idle" /\ point[c] = 0
    BY DEF Init
  <2>2. \A c \in Clients : \A n \in 1..Len(requests[c]) : FALSE
    BY <2>1
  <2>3. RInv
    BY <2>1, <2>2, ClusterQueueAssumption
       DEF RInv, RequestsOK, WaitingOK, OwnerOK, TokensOK
  <2>4. Fifo!Init
    BY <2>1 DEF Fifo!Init
  <2> QED
    BY <2>3, <2>4
<1>2. IInv /\ RInv /\ [Next]_vars => RInv' /\ [Fifo!Next]_(Fifo!lockVars)
  <2> SUFFICES ASSUME IInv, RInv, [Next]_vars
               PROVE  RInv' /\ [Fifo!Next]_(Fifo!lockVars)
    OBVIOUS
  <2>1. CASE \E c \in Clients : \/ LockLocally(c) \/ LockCalls(c) \/ LockReturns(c)
                                \/ CallFails(c) \/ UnlockLocally(c) \/ UnlockSends(c)
                                \/ SendsLost(c) \/ Stops(c)
    BY <2>1, LockLocallyStep, LockCallsStep, LockReturnsStep, CallFailsStep,
       UnlockLocallyStep, UnlockSendsStep, SendsLostStep, StopsStep
  <2>2. CASE Center
    BY <2>2, ApiLockStep, ApiUnlockStep DEF Center
  <2>3. CASE \E w \in wakeups : Wakeup(w) \/ WakeupLost(w)
    BY <2>3, WakeupStep, WakeupLostStep
  <2>4. CASE UNCHANGED vars
    <3>1. RInv'
      BY <2>4 DEF vars, RInv, RequestsOK, WaitingOK, OwnerOK, TokensOK, Holds, HoldsThis
    <3>2. UNCHANGED Fifo!lockVars
      BY <2>4 DEF vars, Fifo!lockVars, HandedOver
    <3> QED
      BY <3>1, <3>2
  <2> QED
    BY <2>1, <2>2, <2>3, <2>4 DEF Next
<1>3. OneToken /\ TokenOfHeld /\ TypeOK /\ TypeOK' /\ [Next]_vars => OneToken' /\ TokenOfHeld'
  BY TokenStep DEF IInv
<1>4. IInv <=> TypeOK /\ OneToken /\ TokenOfHeld
  BY DEF IInv
<1> QED
  BY <1>1, <1>2, <1>3, <1>4, NoTokenYet, TypeCorrect, PTL
     DEF Spec, ImplementsFifoLock, Fifo!Spec
=============================================================================
