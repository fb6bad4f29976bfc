----------------------------- MODULE SyncProofs -----------------------------
(***************************************************************************)
(* Proofs about Sync, for any sets of coroutines, ids and lockers, any     *)
(* nesting of once_do and any depth.                                       *)
(***************************************************************************)
EXTENDS Sync, FiniteSetTheorems, SequenceTheorems, TLAPS

(* The positions of a sequence of frames that run under locker k.          *)
On(s, k) == {n \in 1..Len(s) : s[n].locker = k}
FramesOn(c, k) == On(stack[c], k)

(* The funcs a locker's count stands for, besides the sleeping ones: the   *)
(* running ones, or the one whose coroutine is woken and not yet resumed.  *)
Running(k) ==
    IF current[k] = None THEN 0 ELSE IF depth[k] = 0 THEN 1 ELSE depth[k]

Idle(k) ==
    /\ current[k] = None
    /\ threadQueue[k] = <<>>
    /\ depth[k] = 0
    /\ ref[k] = 0

(* A locker in use serves one id, and was built before.                    *)
ServesOne ==
    /\ \A i, j \in Ids : lockers[i] # None /\ lockers[i] = lockers[j] => i = j
    /\ \A i \in Ids : lockers[i] # None => lockers[i] \in created

(* A pooled locker serves no id and is pooled once.                        *)
PoolOK ==
    /\ \A n \in 1..Len(lockerPool) :
          /\ lockerPool[n] \in created
          /\ \A i \in Ids : lockers[i] # lockerPool[n]
    /\ \A m, n \in 1..Len(lockerPool) : lockerPool[m] = lockerPool[n] => m = n

(* A locker that serves no id is idle.                                     *)
UnservedIdle == \A k \in Lockers : (\A i \in Ids : lockers[i] # k) => Idle(k)

TableOK == ServesOne /\ PoolOK /\ UnservedIdle

(* locker.ref counts the callers that run or wait.                         *)
CountOK ==
    \A k \in Lockers :
        /\ ref[k] = Len(threadQueue[k]) + Running(k)
        /\ current[k] = None => threadQueue[k] = <<>>

(* A running frame uses the locker of its id and its coroutine is the      *)
(* current thread, as deep as it has frames there.                         *)
FramesOK ==
    /\ \A c \in Coroutines : \A n \in 1..Len(stack[c]) :
          /\ lockers[stack[c][n].id] = stack[c][n].locker
          /\ current[stack[c][n].locker] = c
    /\ \A k \in Lockers : current[k] = None => depth[k] = 0
    /\ \A k \in Lockers : \A c \in Coroutines :
          current[k] = c => depth[k] = Cardinality(FramesOn(c, k))

(* A sleeping coroutine is woken and owns the lock, or is in the queue of  *)
(* the locker of the id it asked for; and only sleepers are there.         *)
WaiterOK(c) ==
    LET k == waitOn[c].locker IN
    /\ lockers[waitOn[c].id] = k
    /\ \/ c \in woken /\ current[k] = c /\ depth[k] = 0
       \/ /\ c \notin woken
          /\ current[k] \notin {None, c}
          /\ \E n \in 1..Len(threadQueue[k]) : threadQueue[k][n] = c

WaitersOK ==
    /\ \A c \in Coroutines : waitOn[c] # None => WaiterOK(c)
    /\ \A c \in woken : waitOn[c] # None
    /\ \A k \in Lockers : \A n \in 1..Len(threadQueue[k]) :
          LET c == threadQueue[k][n] IN
          waitOn[c] # None /\ waitOn[c].locker = k /\ c \notin woken
    /\ \A k \in Lockers : \A m, n \in 1..Len(threadQueue[k]) :
          threadQueue[k][m] = threadQueue[k][n] => m = n
    /\ \A k \in Lockers : current[k] # None /\ depth[k] = 0 =>
          current[k] \in woken /\ waitOn[current[k]].locker = k

IInv == TypeOK /\ TableOK /\ CountOK /\ FramesOK /\ WaitersOK
-----------------------------------------------------------------------------
(* The elements of a sequence with one appended.                           *)
LEMMA AppendElement ==
    ASSUME NEW S, NEW s \in Seq(S), NEW e \in S, NEW n \in 1..Len(Append(s, e))
    PROVE  \/ n = Len(s) + 1 /\ Append(s, e)[n] = e
           \/ n \in 1..Len(s) /\ Append(s, e)[n] = s[n]
<1>1. Len(s) \in Nat /\ Len(Append(s, e)) = Len(s) + 1 /\ Append(s, e)[Len(s) + 1] = e
  OBVIOUS
<1>2. \A m \in 1..Len(s) : Append(s, e)[m] = s[m]
  OBVIOUS
<1>3. n = Len(s) + 1 \/ n \in 1..Len(s)
  BY <1>1
<1> QED
  BY <1>1, <1>2, <1>3, Zenon

(* The elements of the tail of a sequence.                                 *)
LEMMA TailElement ==
    ASSUME NEW S, NEW s \in Seq(S), s # <<>>
    PROVE  /\ Tail(s) \in Seq(S) /\ Head(s) \in S /\ Head(s) = s[1]
           /\ Len(Tail(s)) = Len(s) - 1 /\ Len(s) \in Nat \ {0}
           /\ \A n \in 1..Len(Tail(s)) : n + 1 \in 1..Len(s) /\ Tail(s)[n] = s[n + 1]
  OBVIOUS

(* Counting the frames of a stack.                                         *)

(* Only finitely many frames run under a locker, none exactly at count 0.  *)
LEMMA OnCount ==
    ASSUME NEW s \in Seq(Frame), NEW k
    PROVE  /\ IsFiniteSet(On(s, k))
           /\ Cardinality(On(s, k)) \in Nat
           /\ Cardinality(On(s, k)) = 0 <=> On(s, k) = {}
<1>1. IsFiniteSet(1..Len(s))
  BY FS_Interval
<1>2. IsFiniteSet(On(s, k))
  BY <1>1, FS_Subset DEF On
<1> QED
  BY <1>2, FS_CardinalityType, FS_EmptySet

(* Starting a func adds one frame to its locker and none to the others.    *)
LEMMA OnPush ==
    ASSUME NEW s \in Seq(Frame), NEW f \in Frame
    PROVE  /\ Cardinality(On(Append(s, f), f.locker))
                = Cardinality(On(s, f.locker)) + 1
           /\ \A k : k # f.locker => On(Append(s, f), k) = On(s, k)
<1> DEFINE t == Append(s, f)
<1>1. Len(t) = Len(s) + 1 /\ t[Len(s) + 1] = f /\ \A n \in 1..Len(s) : t[n] = s[n]
  OBVIOUS
<1>2. On(t, f.locker) = On(s, f.locker) \cup {Len(s) + 1}
  BY <1>1 DEF On
<1>3. Len(s) + 1 \notin On(s, f.locker)
  BY DEF On
<1>4. \A k : k # f.locker => On(t, k) = On(s, k)
  BY <1>1 DEF On
<1>5. Cardinality(On(t, f.locker)) = Cardinality(On(s, f.locker)) + 1
  BY <1>2, <1>3, OnCount, FS_AddElement
<1> QED
  BY <1>4, <1>5

(* Ending a func takes its frame away and leaves the others.               *)
LEMMA OnPop ==
    ASSUME NEW s \in Seq(Frame), s # <<>>
    PROVE  /\ SubSeq(s, 1, Len(s) - 1) \in Seq(Frame)
           /\ Len(SubSeq(s, 1, Len(s) - 1)) = Len(s) - 1
           /\ \A n \in 1..Len(SubSeq(s, 1, Len(s) - 1)) :
                 SubSeq(s, 1, Len(s) - 1)[n] = s[n]
           /\ Cardinality(On(SubSeq(s, 1, Len(s) - 1), s[Len(s)].locker))
                 = Cardinality(On(s, s[Len(s)].locker)) - 1
           /\ \A k : k # s[Len(s)].locker =>
                 On(SubSeq(s, 1, Len(s) - 1), k) = On(s, k)
<1>0. PICK t, f : t = SubSeq(s, 1, Len(s) - 1) /\ f = s[Len(s)]
  OBVIOUS
<1>1. Len(s) \in Nat /\ Len(s) > 0
  OBVIOUS
<1>2. Len(t) = Len(s) - 1 /\ t \in Seq(Frame) /\ \A n \in 1..Len(t) : t[n] = s[n]
  <2>1. 1 \in Int /\ Len(s) - 1 \in Int /\ \A n \in 1..(Len(s) - 1) : s[n] \in Frame
    BY <1>1
  <2> DEFINE m == Len(s) - 1
  <2>2. m \in Int
    BY <2>1
  <2>3. \A n \in 1..m : s[n] \in Frame
    BY <2>1
  <2> HIDE DEF m
  <2>4. /\ SubSeq(s, 1, m) \in Seq(Frame)
        /\ Len(SubSeq(s, 1, m)) = IF 1 <= m THEN m - 1 + 1 ELSE 0
        /\ \A n \in 1..(m - 1 + 1) : SubSeq(s, 1, m)[n] = s[1 + n - 1]
    BY <2>1, <2>2, <2>3, SubSeqProperties
  <2>5. t = SubSeq(s, 1, m)
    BY <1>0, Zenon DEF m
  <2>6. m \in Nat /\ m = Len(s) - 1
    BY <1>1 DEF m
  <2>7. t \in Seq(Frame)
    BY <2>4, <2>5
  <2>8. Len(t) = IF 1 <= m THEN m - 1 + 1 ELSE 0
    BY <2>4, <2>5, Zenon
  <2>9. \A n \in 1..(m - 1 + 1) : t[n] = s[1 + n - 1]
    BY <2>4, <2>5, Zenon
  <2>10. Len(t) = m
    BY <2>6, <2>8
  <2>11. \A n \in 1..Len(t) : t[n] = s[n]
    <3> TAKE n \in 1..Len(t)
    <3>1. n \in 1..(m - 1 + 1) /\ 1 + n - 1 = n
      BY <2>6, <2>10
    <3> QED
      BY <3>1, <2>9
  <2> QED
    BY <2>6, <2>7, <2>10, <2>11
<1>3. f \in Frame
  BY <1>0, <1>1
<1>4. On(t, f.locker) = On(s, f.locker) \ {Len(s)}
  BY <1>0, <1>1, <1>2 DEF On
<1>5. Len(s) \in On(s, f.locker)
  BY <1>0, <1>1 DEF On
<1>6. \A k : k # f.locker => On(t, k) = On(s, k)
  BY <1>0, <1>1, <1>2 DEF On
<1>7. Cardinality(On(t, f.locker)) = Cardinality(On(s, f.locker)) - 1
  BY <1>4, <1>5, OnCount, FS_RemoveElement, ZenonT(60)
<1> QED
  BY <1>0, <1>2, <1>6, <1>7, Zenon

-----------------------------------------------------------------------------
(* The inductive invariant holds initially.                                *)
LEMMA InitIInv == Init => IInv
<1> SUFFICES ASSUME Init PROVE IInv
  OBVIOUS
<1>1. \A c \in Coroutines : stack[c] = <<>> /\ stack[c] \in Seq(Frame)
  BY DEF Init
<1>2. TypeOK
  BY NoneAssumption DEF Init, TypeOK
<1>3. TableOK
  BY NoneAssumption DEF Init, TableOK, ServesOne, PoolOK, UnservedIdle, Idle
<1>4. CountOK
  BY DEF Init, CountOK, Running
<1>5. FramesOK
  BY <1>1, NoneAssumption DEF Init, FramesOK
<1>6. WaitersOK
  BY DEF Init, WaitersOK
<1> QED
  BY <1>2, <1>3, <1>4, <1>5, <1>6 DEF IInv
-----------------------------------------------------------------------------
(* Starting func on a lock that admits the caller keeps the frames of all  *)
(* coroutines in step with the queues.                                     *)
LEMMA StartFuncFrames ==
    ASSUME TypeOK, FramesOK, NEW c \in Coroutines, NEW f \in Frame,
           StartFunc(c, f), current[f.locker] \in {None, c},
           lockers'[f.id] = f.locker,
           \A i \in Ids : lockers[i] # None => lockers'[i] = lockers[i]
    PROVE  FramesOK'
<1> DEFINE k == f.locker
<1>1. k \in Lockers /\ f.id \in Ids /\ c # None /\ k # None
  BY NoneAssumption DEF Frame
<1>2. /\ current' = [current EXCEPT ![k] = c]
      /\ depth' = [depth EXCEPT ![k] = depth[k] + 1]
      /\ stack[c] \in Seq(Frame)
      /\ stack'[c] = Append(stack[c], f)
      /\ \A d \in Coroutines : d # c => stack'[d] = stack[d]
  BY <1>1 DEF StartFunc, TypeOK
<1>3. \A d \in Coroutines : \A n \in 1..Len(stack[d]) :
        stack[d][n] \in Frame /\ lockers'[stack[d][n].id] = stack[d][n].locker
                              /\ current'[stack[d][n].locker] = d
  <2> SUFFICES ASSUME NEW d \in Coroutines, NEW n \in 1..Len(stack[d])
               PROVE  stack[d][n] \in Frame /\ lockers'[stack[d][n].id] = stack[d][n].locker
                              /\ current'[stack[d][n].locker] = d
    OBVIOUS
  <2> DEFINE g == stack[d][n]
  <2>1. g \in Frame
    BY DEF TypeOK
  <2>2. g.id \in Ids /\ g.locker \in Lockers /\ g.locker # None /\ d # None
    BY <2>1, NoneAssumption DEF Frame
  <2>3. lockers[g.id] = g.locker /\ current[g.locker] = d
    BY DEF FramesOK
  <2> HIDE DEF g
  <2>4. lockers'[g.id] = g.locker
    BY <2>2, <2>3
  <2>5. current'[g.locker] = d
    BY <1>1, <1>2, <2>2, <2>3 DEF TypeOK
  <2> QED
    BY <2>1, <2>4, <2>5 DEF g
<1>4. \A n \in 1..Len(stack'[c]) : 
        \/ stack'[c][n] = f
        \/ n \in 1..Len(stack[c]) /\ stack'[c][n] = stack[c][n]
  <2>1. stack'[c] = Append(stack[c], f) /\ stack[c] \in Seq(Frame)
    BY <1>2
  <2>2. \A n \in 1..Len(Append(stack[c], f)) :
          \/ n = Len(stack[c]) + 1 /\ Append(stack[c], f)[n] = f
          \/ n \in 1..Len(stack[c]) /\ Append(stack[c], f)[n] = stack[c][n]
    <3> TAKE n \in 1..Len(Append(stack[c], f))
    <3> QED
      BY <2>1, AppendElement
  <2> QED
    BY <2>1, <2>2
<1>5. current'[k] = c
  BY <1>1, <1>2 DEF TypeOK
<1>6. \A d \in Coroutines : \A n \in 1..Len(stack'[d]) :
        /\ lockers'[stack'[d][n].id] = stack'[d][n].locker
        /\ current'[stack'[d][n].locker] = d
  <2> SUFFICES ASSUME NEW d \in Coroutines, NEW n \in 1..Len(stack'[d])
               PROVE  /\ lockers'[stack'[d][n].id] = stack'[d][n].locker
                      /\ current'[stack'[d][n].locker] = d
    OBVIOUS
  <2>1. CASE d # c
    BY <1>2, <1>3, <2>1
  <2>2. CASE d = c
    BY <1>3, <1>4, <1>5, <2>2
  <2> QED
    BY <2>1, <2>2
<1>7. \A j \in Lockers : current'[j] = None => depth'[j] = 0
  BY <1>1, <1>2 DEF FramesOK, TypeOK
<1>8. ASSUME NEW j \in Lockers, NEW d \in Coroutines, current'[j] = d
      PROVE  depth'[j] = Cardinality(On(stack'[d], j))
  <2>1. CASE j = k
    <3>1. d = c
      BY <1>5, <1>8, <2>1
    <3>2. Cardinality(On(stack'[c], k)) = Cardinality(On(stack[c], k)) + 1
      BY <1>2, OnPush
    <3>3. Cardinality(On(stack[c], k)) = depth[k]
      <4>1. CASE current[k] = c
        BY <1>1, <4>1 DEF FramesOK, FramesOn
      <4>2. CASE current[k] = None
        <5>1. \A n \in 1..Len(stack[c]) : stack[c][n].locker # k
          BY <1>1, <4>2 DEF FramesOK
        <5>2. On(stack[c], k) = {}
          BY <5>1 DEF On
        <5>3. depth[k] = 0
          BY <1>1, <4>2 DEF FramesOK
        <5> QED
          BY <1>2, <5>2, <5>3, OnCount
      <4> QED
        BY <4>1, <4>2
    <3>4. depth'[k] = depth[k] + 1
      BY <1>1, <1>2 DEF TypeOK
    <3> QED
      BY <2>1, <3>1, <3>2, <3>3, <3>4
  <2>2. CASE j # k
    <3>1. On(stack'[d], j) = On(stack[d], j)
      <4>1. CASE d = c
        <5>1. On(Append(stack[c], f), j) = On(stack[c], j)
          BY <1>2, <2>2, OnPush, Zenon
        <5> QED
          BY <1>2, <4>1, <5>1, Zenon
      <4>2. CASE d # c
        BY <1>2, <4>2
      <4> QED
        BY <4>1, <4>2
    <3>2. depth'[j] = depth[j] /\ current[j] = d
      BY <1>2, <1>8, <2>2 DEF TypeOK
    <3> QED
      BY <3>1, <3>2 DEF FramesOK, FramesOn
  <2> QED
    BY <2>1, <2>2
<1> QED
  BY <1>6, <1>7, <1>8 DEF FramesOK, FramesOn

-----------------------------------------------------------------------------
(* Resuming a woken waiter preserves the invariant.                        *)
LEMMA ResumeIInv ==
    ASSUME IInv, NEW c \in Coroutines, Resume(c)
    PROVE  IInv'
<1> DEFINE f == waitOn[c]
           k == waitOn[c].locker
<1> USE DEF IInv
<1>1. /\ f \in Frame /\ k \in Lockers /\ lockers[f.id] = k
      /\ current[k] = c /\ depth[k] = 0 /\ c # None
  BY NoneAssumption DEF Resume, TypeOK, WaitersOK, WaiterOK, Frame
<1>2. /\ current' = current
      /\ depth' = [depth EXCEPT ![k] = 1]
      /\ stack' = [stack EXCEPT ![c] = Append(stack[c], f)]
      /\ waitOn' = [waitOn EXCEPT ![c] = None]
      /\ woken' = woken \ {c}
      /\ UNCHANGED <<lockers, lockerPool, created, ref, threadQueue>>
  BY <1>1 DEF Resume, StartFunc, TypeOK
<1>3. /\ stack[c] \in Seq(Frame)
      /\ stack'[c] = Append(stack[c], f)
      /\ \A d \in Coroutines : d # c => stack'[d] = stack[d]
  BY <1>2 DEF TypeOK
<1> HIDE DEF f
<1>4. TypeOK'
  BY <1>1, <1>2 DEF TypeOK, f
<1>5. TableOK'
  <2>1. \A j \in Lockers : (\A i \in Ids : lockers[i] # j) => j # k
    BY <1>1 DEF TypeOK, Frame
  <2> QED
    BY <1>2, <2>1 DEF TableOK, ServesOne, PoolOK, UnservedIdle, Idle, TypeOK
<1>6. CountOK'
  BY <1>1, <1>2 DEF CountOK, Running, TypeOK
<1>7. FramesOK'
  BY <1>1, <1>2, StartFuncFrames DEF Resume, f
<1>8. WaitersOK'
  <2>1. \A d \in Coroutines : d # c => waitOn'[d] = waitOn[d] /\ (d \in woken' <=> d \in woken)
    BY <1>2 DEF TypeOK
  <2>2. waitOn'[c] = None /\ c \notin woken'
    BY <1>2 DEF TypeOK
  <2>3. \A d \in Coroutines : waitOn'[d] # None => WaiterOK(d)'
    <3> SUFFICES ASSUME NEW d \in Coroutines, waitOn'[d] # None
                 PROVE  WaiterOK(d)'
      OBVIOUS
    <3>1. d # c /\ waitOn'[d] = waitOn[d] /\ (d \in woken' <=> d \in woken)
      BY <2>1, <2>2
    <3>2. d \in woken => waitOn[d].locker # k
      BY <1>1, <3>1 DEF WaitersOK, WaiterOK
    <3> QED
      BY <1>2, <3>1, <3>2 DEF WaitersOK, WaiterOK, TypeOK
  <2>4. \A d \in woken' : waitOn'[d] # None
    BY <1>2, <2>1, <2>2 DEF WaitersOK, TypeOK
  <2>5. \A j \in Lockers : \A n \in 1..Len(threadQueue'[j]) :
          LET d == threadQueue'[j][n] IN
          waitOn'[d] # None /\ waitOn'[d].locker = j /\ d \notin woken'
    <3> SUFFICES ASSUME NEW j \in Lockers, NEW n \in 1..Len(threadQueue[j])
                 PROVE  LET d == threadQueue[j][n] IN
                        waitOn'[d] # None /\ waitOn'[d].locker = j /\ d \notin woken'
      BY <1>2
    <3> DEFINE d == threadQueue[j][n]
    <3>1. d \in Coroutines
      BY DEF TypeOK
    <3>2. waitOn[d] # None /\ waitOn[d].locker = j /\ d \notin woken
      BY DEF WaitersOK
    <3>3. d # c
      BY <3>2 DEF Resume
    <3> QED
      BY <2>1, <3>1, <3>2, <3>3
  <2>6. \A j \in Lockers : current'[j] # None /\ depth'[j] = 0 =>
          current'[j] \in woken' /\ waitOn'[current'[j]].locker = j
    BY <1>1, <1>2, <2>1, <2>2 DEF WaitersOK, TypeOK
  <2> QED
    BY <1>2, <2>3, <2>4, <2>5, <2>6 DEF WaitersOK
<1> QED
  BY <1>4, <1>5, <1>6, <1>7, <1>8
-----------------------------------------------------------------------------
(* getLocker returns the locker that serves the id from then on: the one   *)
(* in use, or an idle one, and the table stays one-to-one.                 *)
LEMMA GetLockerTable ==
    ASSUME TypeOK, TableOK, NEW i \in Ids, NEW k \in Lockers, GetLocker(i, k)
    PROVE  /\ lockers' = [lockers EXCEPT ![i] = k]
           /\ \A j \in Ids : lockers[j] # None => lockers'[j] = lockers[j]
           /\ ref' = [ref EXCEPT ![k] = ref[k] + 1]
           /\ lockers[i] = k \/ (lockers[i] = None /\ Idle(k))
           /\ lockerPool' \in Seq(Lockers) /\ created' \in SUBSET Lockers
           /\ ServesOne' /\ PoolOK'
<1>1. k # None /\ ref' = [ref EXCEPT ![k] = ref[k] + 1]
  BY NoneAssumption DEF GetLocker
<1>2. CASE lockers[i] = k /\ UNCHANGED <<lockers, lockerPool, created>>
  <2>1. lockers' = [lockers EXCEPT ![i] = k]
    BY <1>2 DEF TypeOK
  <2>2. ServesOne' /\ PoolOK'
    BY <1>2 DEF TableOK, ServesOne, PoolOK
  <2> QED
    BY <1>1, <1>2, <2>1, <2>2 DEF TypeOK
<1>3. CASE /\ lockers[i] = None /\ lockerPool # <<>> /\ k = Head(lockerPool)
           /\ lockerPool' = Tail(lockerPool)
           /\ lockers' = [lockers EXCEPT ![i] = k]
           /\ UNCHANGED created
  <2>1. /\ lockerPool' \in Seq(Lockers)
        /\ k = lockerPool[1] /\ 1 \in 1..Len(lockerPool)
        /\ \A n \in 1..Len(lockerPool') :
              n \in Nat /\ n + 1 \in 1..Len(lockerPool) /\ lockerPool'[n] = lockerPool[n + 1]
    BY <1>3, TailElement DEF TypeOK
  <2>2. k \in created /\ \A j \in Ids : lockers[j] # k
    BY <2>1 DEF TableOK, PoolOK
  <2>3. Idle(k)
    BY <2>2 DEF TableOK, UnservedIdle
  <2>4. ServesOne'
    BY <1>3, <2>2 DEF TableOK, ServesOne, TypeOK
  <2>5. \A n \in 1..Len(lockerPool') : lockerPool'[n] # k
    BY <2>1 DEF TableOK, PoolOK
  <2>6. \A n \in 1..Len(lockerPool') :
          lockerPool'[n] \in created' /\ \A j \in Ids : lockers'[j] # lockerPool'[n]
    BY <1>3, <2>1, <2>5 DEF TableOK, PoolOK, TypeOK
  <2>7. \A m, n \in 1..Len(lockerPool') : lockerPool'[m] = lockerPool'[n] => m = n
    BY <2>1 DEF TableOK, PoolOK
  <2> QED
    BY <1>1, <1>3, <2>1, <2>3, <2>4, <2>6, <2>7 DEF PoolOK, TypeOK
<1>4. CASE /\ lockers[i] = None /\ lockerPool = <<>> /\ k \notin created
           /\ created' = created \cup {k}
           /\ lockers' = [lockers EXCEPT ![i] = k]
           /\ UNCHANGED lockerPool
  <2>1. \A j \in Ids : lockers[j] # k
    BY <1>1, <1>4 DEF TableOK, ServesOne
  <2>2. Idle(k)
    BY <2>1 DEF TableOK, UnservedIdle
  <2>3. ServesOne'
    BY <1>4, <2>1 DEF TableOK, ServesOne, TypeOK
  <2>4. PoolOK'
    BY <1>4 DEF PoolOK
  <2> QED
    BY <1>1, <1>4, <2>2, <2>3, <2>4 DEF TypeOK
<1> QED
  BY <1>2, <1>3, <1>4, Zenon DEF GetLocker

(* A once_do that is admitted preserves the invariant.                     *)
LEMMA OnceDoRunIInv ==
    ASSUME IInv, NEW c \in Coroutines, NEW i \in Ids, NEW k \in Lockers,
           OnceDoRun(c, i, k)
    PROVE  IInv'
<1> DEFINE f == [id |-> i, locker |-> k]
<1> USE DEF IInv
<1>1. /\ f \in Frame /\ f.id = i /\ f.locker = k
      /\ c # None /\ k # None /\ waitOn[c] = None /\ c \notin woken
      /\ current[k] \in {None, c}
  BY NoneAssumption DEF OnceDoRun, Calls, Admits, Frame, WaitersOK
<1>2. /\ lockers' = [lockers EXCEPT ![i] = k]
      /\ \A j \in Ids : lockers[j] # None => lockers'[j] = lockers[j]
      /\ ref' = [ref EXCEPT ![k] = ref[k] + 1]
      /\ lockers[i] = k \/ (lockers[i] = None /\ Idle(k))
      /\ lockerPool' \in Seq(Lockers) /\ created' \in SUBSET Lockers
      /\ ServesOne' /\ PoolOK'
  BY GetLockerTable DEF OnceDoRun
<1>3. StartFunc(c, f) /\ UNCHANGED <<threadQueue, waitOn, woken>>
  BY DEF OnceDoRun
<1> HIDE DEF f
<1>4. /\ current' = [current EXCEPT ![k] = c]
      /\ depth' = [depth EXCEPT ![k] = depth[k] + 1]
      /\ stack' = [stack EXCEPT ![c] = Append(stack[c], f)]
  BY <1>1, <1>3 DEF StartFunc
<1>5. TypeOK'
  BY <1>1, <1>2, <1>3, <1>4 DEF TypeOK
<1>6. UnservedIdle'
  <2> SUFFICES ASSUME NEW j \in Lockers, \A h \in Ids : lockers'[h] # j
               PROVE  Idle(j)'
    BY DEF UnservedIdle
  <2>1. j # k
    BY <1>2 DEF TypeOK
  <2>2. \A h \in Ids : lockers[h] # j
    BY <1>2, <2>1, NoneAssumption DEF TypeOK
  <2> QED
    BY <1>2, <1>3, <1>4, <2>1, <2>2 DEF UnservedIdle, Idle, TableOK, TypeOK
<1>7. TableOK'
  BY <1>2, <1>6 DEF TableOK
<1>8. CountOK'
  <2>1. current[k] = c => depth[k] > 0
    BY <1>1 DEF WaitersOK, TypeOK
  <2>2. current[k] = None => depth[k] = 0
    BY DEF FramesOK
  <2> SUFFICES ASSUME NEW j \in Lockers
               PROVE  /\ ref'[j] = Len(threadQueue'[j]) + Running(j)'
                      /\ current'[j] = None => threadQueue'[j] = <<>>
    BY DEF CountOK
  <2>3. /\ ref[j] = Len(threadQueue[j]) + Running(j)
        /\ current[j] = None => threadQueue[j] = <<>>
        /\ depth[j] \in Nat /\ threadQueue[j] \in Seq(Coroutines)
    BY DEF CountOK, TypeOK
  <2>4. CASE j = k
    <3>1. ref'[j] = ref[j] + 1 /\ current'[j] = c /\ depth'[j] = depth[j] + 1
      BY <1>2, <1>4, <2>4 DEF TypeOK
    <3> QED
      BY <1>1, <1>3, <2>1, <2>2, <2>3, <2>4, <3>1, SMTT(60) DEF Running
  <2>5. CASE j # k
    BY <1>2, <1>3, <1>4, <2>3, <2>5 DEF Running, TypeOK
  <2> QED
    BY <2>4, <2>5
<1>9. FramesOK'
  <2>1. lockers'[f.id] = f.locker
    BY <1>1, <1>2 DEF TypeOK
  <2> QED
    BY <1>1, <1>2, <1>3, <2>1, StartFuncFrames
<1>10. WaitersOK'
  <2>1. ASSUME NEW d \in Coroutines, waitOn[d] # None
        PROVE  /\ lockers'[waitOn[d].id] = waitOn[d].locker
               /\ current'[waitOn[d].locker] = current[waitOn[d].locker]
               /\ d \in woken => depth'[waitOn[d].locker] = 0
    <3>1. waitOn[d] \in Frame /\ waitOn[d].id \in Ids /\ waitOn[d].locker \in Lockers
      BY <2>1 DEF TypeOK, Frame
    <3>2. lockers[waitOn[d].id] = waitOn[d].locker /\ current[waitOn[d].locker] # None
      BY <2>1, NoneAssumption DEF WaitersOK, WaiterOK
    <3>3. lockers'[waitOn[d].id] = waitOn[d].locker
      BY <1>2, <3>1, <3>2, NoneAssumption
    <3>4. current'[waitOn[d].locker] = current[waitOn[d].locker]
      BY <1>1, <1>4, <3>1, <3>2 DEF TypeOK
    <3>5. d \in woken => waitOn[d].locker # k
      BY <1>1, <2>1, <3>2 DEF WaitersOK, WaiterOK
    <3>6. d \in woken => depth'[waitOn[d].locker] = 0
      BY <1>4, <2>1, <3>1, <3>5 DEF WaitersOK, WaiterOK, TypeOK
    <3> QED
      BY <3>3, <3>4, <3>6
  <2>2. \A j \in Lockers : current'[j] # None /\ depth'[j] = 0 =>
          current[j] # None /\ depth[j] = 0 /\ current'[j] = current[j]
    BY <1>1, <1>4 DEF TypeOK
  <2>3. \A d \in Coroutines : waitOn'[d] # None => WaiterOK(d)'
    <3> SUFFICES ASSUME NEW d \in Coroutines, waitOn[d] # None
                 PROVE  WaiterOK(d)'
      BY <1>3
    <3>1. WaiterOK(d)
      BY DEF WaitersOK
    <3>2. waitOn'[d] = waitOn[d] /\ threadQueue' = threadQueue /\ woken' = woken
      BY <1>3
    <3>3. /\ lockers'[waitOn[d].id] = waitOn[d].locker
          /\ current'[waitOn[d].locker] = current[waitOn[d].locker]
          /\ d \in woken => depth'[waitOn[d].locker] = 0
      BY <2>1
    <3> QED
      BY <3>1, <3>2, <3>3 DEF WaiterOK
  <2>4. \A j \in Lockers : current'[j] # None /\ depth'[j] = 0 =>
          current'[j] \in woken' /\ waitOn'[current'[j]].locker = j
    BY <1>3, <2>2 DEF WaitersOK
  <2> QED
    BY <1>3, <2>3, <2>4 DEF WaitersOK
<1> QED
  BY <1>5, <1>7, <1>8, <1>9, <1>10
(* A once_do that has to wait preserves the invariant.                     *)
LEMMA OnceDoWaitIInv ==
    ASSUME IInv, NEW c \in Coroutines, NEW i \in Ids, NEW k \in Lockers,
           OnceDoWait(c, i, k)
    PROVE  IInv'
<1> USE DEF IInv
<1>1. /\ c # None /\ k # None /\ waitOn[c] = None /\ c \notin woken
      /\ current[k] \notin {None, c}
  BY NoneAssumption DEF OnceDoWait, Calls, Admits, WaitersOK
<1>2. /\ lockers' = [lockers EXCEPT ![i] = k]
      /\ ref' = [ref EXCEPT ![k] = ref[k] + 1]
      /\ lockers[i] = k \/ (lockers[i] = None /\ Idle(k))
  BY GetLockerTable DEF OnceDoWait
<1>3. lockers[i] = k
  BY <1>1, <1>2 DEF Idle
<1>4. UNCHANGED <<lockers, lockerPool, created>>
  BY <1>1, <1>3 DEF OnceDoWait, GetLocker
<1>5. /\ threadQueue' = [threadQueue EXCEPT ![k] = Append(threadQueue[k], c)]
      /\ waitOn' = [waitOn EXCEPT ![c] = [id |-> i, locker |-> k]]
      /\ UNCHANGED <<current, depth, stack, woken>>
  BY DEF OnceDoWait
<1>6. TypeOK'
  <2>1. Append(threadQueue[k], c) \in Seq(Coroutines) /\ [id |-> i, locker |-> k] \in Frame
    BY DEF TypeOK, Frame
  <2>2. threadQueue' \in [Lockers -> Seq(Coroutines)]
    BY <1>5, <2>1 DEF TypeOK
  <2>3. waitOn' \in [Coroutines -> Frame \cup {None}]
    BY <1>5, <2>1 DEF TypeOK
  <2>4. ref' \in [Lockers -> Nat]
    BY <1>2 DEF TypeOK
  <2> QED
    BY <1>4, <1>5, <2>2, <2>3, <2>4 DEF TypeOK
<1>7. TableOK'
  <2>1. UnservedIdle'
    <3> SUFFICES ASSUME NEW j \in Lockers, \A h \in Ids : lockers[h] # j
                 PROVE  Idle(j)'
      BY <1>4 DEF UnservedIdle
    <3>1. j # k /\ Idle(j)
      BY <1>3 DEF TableOK, UnservedIdle
    <3> QED
      BY <1>2, <1>5, <3>1 DEF Idle, TypeOK
  <2>2. ServesOne' /\ PoolOK'
    BY <1>4 DEF TableOK, ServesOne, PoolOK
  <2> QED
    BY <2>1, <2>2 DEF TableOK
<1>8. CountOK'
  <2> SUFFICES ASSUME NEW j \in Lockers
               PROVE  /\ ref'[j] = Len(threadQueue'[j]) + Running(j)'
                      /\ current'[j] = None => threadQueue'[j] = <<>>
    BY DEF CountOK
  <2>1. /\ ref[j] = Len(threadQueue[j]) + Running(j)
        /\ current[j] = None => threadQueue[j] = <<>>
        /\ depth[j] \in Nat /\ threadQueue[j] \in Seq(Coroutines)
    BY DEF CountOK, TypeOK
  <2>2. Running(j)' = Running(j) /\ Running(j) \in Nat
    BY <1>5, <2>1 DEF Running
  <2>3. CASE j = k
    <3>1. ref'[j] = ref[j] + 1 /\ Len(threadQueue'[j]) = Len(threadQueue[j]) + 1
      BY <1>2, <1>5, <2>1, <2>3 DEF TypeOK
    <3> QED
      BY <1>1, <1>5, <2>1, <2>2, <2>3, <3>1
  <2>4. CASE j # k
    BY <1>2, <1>5, <2>1, <2>2, <2>4 DEF TypeOK
  <2> QED
    BY <2>3, <2>4
<1>9. FramesOK'
  <2>1. /\ lockers' = lockers /\ stack' = stack /\ current' = current /\ depth' = depth
        /\ FramesOK
    BY <1>4, <1>5
  <2> QED
    BY <2>1, Zenon DEF FramesOK, FramesOn
<1>10. WaitersOK'
  <2>1. threadQueue[k] \in Seq(Coroutines) /\ threadQueue'[k] = Append(threadQueue[k], c)
    BY <1>5 DEF TypeOK
  <2>2. \A j \in Lockers : j # k => threadQueue'[j] = threadQueue[j]
    BY <1>5 DEF TypeOK
  <2>3. \A n \in 1..Len(threadQueue[k]) : n \in 1..Len(threadQueue'[k]) /\ threadQueue'[k][n] = threadQueue[k][n]
    BY <2>1
  <2>4. Len(threadQueue'[k]) \in 1..Len(threadQueue'[k]) /\ threadQueue'[k][Len(threadQueue'[k])] = c
    BY <2>1
  <2>5. \A n \in 1..Len(threadQueue'[k]) :
          \/ n = Len(threadQueue[k]) + 1 /\ threadQueue'[k][n] = c
          \/ n \in 1..Len(threadQueue[k]) /\ threadQueue'[k][n] = threadQueue[k][n]
    <3>1. \A n \in 1..Len(Append(threadQueue[k], c)) :
          \/ n = Len(threadQueue[k]) + 1 /\ Append(threadQueue[k], c)[n] = c
          \/ n \in 1..Len(threadQueue[k]) /\ Append(threadQueue[k], c)[n] = threadQueue[k][n]
      <4> TAKE n \in 1..Len(Append(threadQueue[k], c))
      <4> QED
        BY <2>1, AppendElement
    <3> QED
      BY <2>1, <3>1
  <2>6. /\ waitOn'[c] = [id |-> i, locker |-> k]
        /\ \A d \in Coroutines : d # c => waitOn'[d] = waitOn[d]
    BY <1>5 DEF TypeOK
  <2>7. ASSUME NEW j \in Lockers, NEW n \in 1..Len(threadQueue[j])
        PROVE  /\ threadQueue[j][n] \in Coroutines \ {c}
               /\ waitOn'[threadQueue[j][n]] # None
               /\ waitOn'[threadQueue[j][n]].locker = j
               /\ threadQueue[j][n] \notin woken'
    <3>1. threadQueue[j][n] \in Coroutines
      BY DEF TypeOK
    <3>2. /\ waitOn[threadQueue[j][n]] # None
          /\ waitOn[threadQueue[j][n]].locker = j
          /\ threadQueue[j][n] \notin woken
      BY DEF WaitersOK
    <3> QED
      BY <1>1, <1>5, <2>6, <3>1, <3>2
  <2>8. \A d \in Coroutines : waitOn'[d] # None => WaiterOK(d)'
    <3> SUFFICES ASSUME NEW d \in Coroutines, waitOn'[d] # None
                 PROVE  WaiterOK(d)'
      OBVIOUS
    <3>1. CASE d = c
      BY <1>1, <1>3, <1>4, <1>5, <2>4, <2>6, <3>1 DEF WaiterOK
    <3>2. CASE d # c
      <4>1. waitOn'[d] = waitOn[d] /\ WaiterOK(d) /\ waitOn[d].locker \in Lockers
        BY <2>6, <3>2 DEF WaitersOK, TypeOK, Frame
      <4>2. (\E n \in 1..Len(threadQueue[waitOn[d].locker]) : threadQueue[waitOn[d].locker][n] = d)
            => \E n \in 1..Len(threadQueue'[waitOn[d].locker]) : threadQueue'[waitOn[d].locker][n] = d
        BY <2>2, <2>3, <4>1
      <4> QED
        BY <1>4, <1>5, <4>1, <4>2 DEF WaiterOK
    <3> QED
      BY <3>1, <3>2
  <2>9. \A d \in woken' : waitOn'[d] # None
    BY <1>1, <1>5, <2>6 DEF WaitersOK, TypeOK
  <2>10. \A j \in Lockers : \A n \in 1..Len(threadQueue'[j]) :
          LET d == threadQueue'[j][n] IN
          waitOn'[d] # None /\ waitOn'[d].locker = j /\ d \notin woken'
    <3> SUFFICES ASSUME NEW j \in Lockers, NEW n \in 1..Len(threadQueue'[j])
                 PROVE  /\ waitOn'[threadQueue'[j][n]] # None
                        /\ waitOn'[threadQueue'[j][n]].locker = j
                        /\ threadQueue'[j][n] \notin woken'
      OBVIOUS
    <3>1. CASE j # k
      BY <2>2, <2>7, <3>1
    <3>2. CASE j = k
      <4>1. [id |-> i, locker |-> k] # None
        BY NoneAssumption DEF Frame
      <4> QED
        BY <1>1, <1>5, <2>5, <2>6, <2>7, <3>2, <4>1
    <3> QED
      BY <3>1, <3>2
  <2>11. \A j \in Lockers : \A m, n \in 1..Len(threadQueue'[j]) :
          threadQueue'[j][m] = threadQueue'[j][n] => m = n
    <3> SUFFICES ASSUME NEW j \in Lockers, NEW m \in 1..Len(threadQueue'[j]),
                        NEW n \in 1..Len(threadQueue'[j]),
                        threadQueue'[j][m] = threadQueue'[j][n]
                 PROVE  m = n
      OBVIOUS
    <3>1. CASE j # k
      BY <2>2, <3>1 DEF WaitersOK
    <3>2. CASE j = k
      BY <2>5, <2>7, <3>2 DEF WaitersOK
    <3> QED
      BY <3>1, <3>2
  <2>12. \A j \in Lockers : current'[j] # None /\ depth'[j] = 0 =>
          current'[j] \in woken' /\ waitOn'[current'[j]].locker = j
    BY <1>1, <1>5, <2>6 DEF WaitersOK, TypeOK
  <2> QED
    BY <2>8, <2>9, <2>10, <2>11, <2>12 DEF WaitersOK
<1> QED
  BY <1>6, <1>7, <1>8, <1>9, <1>10
-----------------------------------------------------------------------------
(* The three outcomes of the hand-over of locker k that served id i: an    *)
(* inner func returns, the lock becomes free, or the next waiter gets it.  *)
InnerEnds(k) ==
    /\ depth[k] > 1 /\ ref[k] > 1
    /\ UNCHANGED <<lockers, lockerPool, current, threadQueue, woken>>

LockFreed(i, k) ==
    /\ depth[k] = 1 /\ ref[k] = 1 /\ threadQueue[k] = <<>>
    /\ current' = [current EXCEPT ![k] = None]
    /\ lockers' = [lockers EXCEPT ![i] = None]
    /\ lockerPool' = Append(lockerPool, k)
    /\ UNCHANGED <<threadQueue, woken>>

LockPassed(k) ==
    /\ depth[k] = 1 /\ ref[k] > 1 /\ threadQueue[k] # <<>>
    /\ current' = [current EXCEPT ![k] = Head(threadQueue[k])]
    /\ threadQueue' = [threadQueue EXCEPT ![k] = Tail(threadQueue[k])]
    /\ woken' = woken \cup {Head(threadQueue[k])}
    /\ UNCHANGED <<lockers, lockerPool>>

(* The end of a func has one of these outcomes, on the locker of its id,   *)
(* which its coroutine owns.                                               *)
LEMMA FinishCases ==
    ASSUME IInv, NEW c \in Coroutines, Finish(c), NEW f, NEW k, NEW t,
           f = stack[c][Len(stack[c])], k = f.locker,
           t = SubSeq(stack[c], 1, Len(stack[c]) - 1)
    PROVE  /\ f \in Frame /\ f.id \in Ids /\ k \in Lockers /\ k # None /\ c # None
           /\ waitOn[c] = None /\ c \notin woken /\ stack[c] # <<>>
           /\ lockers[f.id] = k /\ current[k] = c
           /\ depth[k] = Cardinality(On(stack[c], k))
           /\ depth' = [depth EXCEPT ![k] = depth[k] - 1]
           /\ ref' = [ref EXCEPT ![k] = ref[k] - 1]
           /\ ref[k] = Len(threadQueue[k]) + depth[k]
           /\ stack' = [stack EXCEPT ![c] = t]
           /\ UNCHANGED <<created, waitOn>>
           /\ InnerEnds(k) \/ LockFreed(f.id, k) \/ LockPassed(k)
<1> USE DEF IInv, InnerEnds, LockFreed, LockPassed
<1>1. /\ waitOn[c] = None /\ c \notin woken
      /\ stack[c] # <<>> /\ stack[c] \in Seq(Frame)
  BY DEF Finish, WaitersOK, TypeOK
<1>2. Len(stack[c]) \in 1..Len(stack[c])
  BY <1>1
<1>3. f \in Frame /\ f.id \in Ids /\ k \in Lockers /\ k # None /\ c # None
  <2>1. f \in Frame
    BY <1>1, <1>2
  <2>2. f.id \in Ids /\ f.locker \in Lockers
    BY <2>1 DEF Frame
  <2> QED
    BY <2>1, <2>2, NoneAssumption
<1>4. lockers[f.id] = k /\ current[k] = c
  <2>1. \A n \in 1..Len(stack[c]) :
          lockers[stack[c][n].id] = stack[c][n].locker /\ current[stack[c][n].locker] = c
    BY DEF FramesOK
  <2> QED
    BY <1>2, <2>1, Zenon
<1>5. depth[k] = Cardinality(On(stack[c], k)) /\ depth[k] > 0
  <2>1. depth[k] = Cardinality(On(stack[c], k))
    BY <1>3, <1>4 DEF FramesOK, FramesOn
  <2>2. Len(stack[c]) \in On(stack[c], k)
    BY <1>2 DEF On
  <2> QED
    BY <1>1, <2>1, <2>2, OnCount
<1>6. ref[k] = Len(threadQueue[k]) + depth[k] /\ depth[k] \in Nat /\ ref[k] \in Nat
      /\ threadQueue[k] \in Seq(Coroutines) /\ Len(threadQueue[k]) \in Nat
  BY <1>3, <1>4, <1>5 DEF CountOK, Running, TypeOK
<1>7. HandOver(k) /\ ReleaseLocker(f.id)
  BY DEF Finish
<1>8. /\ stack' = [stack EXCEPT ![c] = t]
      /\ UNCHANGED <<created, waitOn>>
  BY DEF Finish
<1>9. /\ depth' = [depth EXCEPT ![k] = depth[k] - 1]
      /\ ref' = [ref EXCEPT ![k] = ref[k] - 1]
  BY <1>3, <1>4, <1>7 DEF HandOver, ReleaseLocker
<1>10. CASE depth[k] > 1
  <2>1. ref[k] > 1
    BY <1>6, <1>10
  <2>2. UNCHANGED <<current, threadQueue, woken>>
    BY <1>7, <1>10 DEF HandOver
  <2>3. UNCHANGED <<lockers, lockerPool>>
    BY <1>3, <1>4, <1>7, <2>1 DEF ReleaseLocker
  <2> QED
    BY <1>1, <1>3, <1>4, <1>5, <1>6, <1>8, <1>9, <1>10, <2>1, <2>2, <2>3
<1>11. CASE depth[k] = 1 /\ threadQueue[k] = <<>>
  <2>1. ref[k] = 1
    BY <1>6, <1>11
  <2>2. current' = [current EXCEPT ![k] = None] /\ UNCHANGED <<threadQueue, woken>>
    BY <1>7, <1>11 DEF HandOver
  <2>3. lockers' = [lockers EXCEPT ![f.id] = None] /\ lockerPool' = Append(lockerPool, k)
    BY <1>3, <1>4, <1>7, <2>1 DEF ReleaseLocker
  <2> QED
    BY <1>1, <1>3, <1>4, <1>5, <1>6, <1>8, <1>9, <1>11, <2>1, <2>2, <2>3
<1>12. CASE depth[k] = 1 /\ threadQueue[k] # <<>>
  <2>1. ref[k] > 1
    BY <1>6, <1>12
  <2>2. waitOn[Head(threadQueue[k])] # None
    <3>1. 1 \in 1..Len(threadQueue[k]) /\ Head(threadQueue[k]) = threadQueue[k][1]
      BY <1>6, <1>12
    <3> QED
      BY <1>3, <3>1 DEF WaitersOK
  <2>3. /\ current' = [current EXCEPT ![k] = Head(threadQueue[k])]
        /\ threadQueue' = [threadQueue EXCEPT ![k] = Tail(threadQueue[k])]
        /\ woken' = woken \cup {Head(threadQueue[k])}
    BY <1>7, <1>12, <2>2 DEF HandOver
  <2>4. UNCHANGED <<lockers, lockerPool>>
    BY <1>3, <1>4, <1>7, <2>1 DEF ReleaseLocker
  <2> QED
    BY <1>1, <1>3, <1>4, <1>5, <1>6, <1>8, <1>9, <1>12, <2>1, <2>3, <2>4
<1>13. depth[k] > 1 \/ depth[k] = 1
  BY <1>5, <1>6
<1> QED
  BY <1>10, <1>11, <1>12, <1>13, Zenon

(* The end of a func preserves the invariant.  Only a freed lock pools its *)
(* locker.                                                                 *)
LEMMA FinishIInv ==
    ASSUME IInv, NEW c \in Coroutines, Finish(c)
    PROVE  IInv'
<1>0. PICK f, k, t : /\ f = stack[c][Len(stack[c])] /\ k = f.locker
                     /\ t = SubSeq(stack[c], 1, Len(stack[c]) - 1)
  OBVIOUS
<1>1. /\ f \in Frame /\ f.id \in Ids /\ k \in Lockers /\ k # None /\ c # None
      /\ waitOn[c] = None /\ c \notin woken /\ stack[c] # <<>>
      /\ lockers[f.id] = k /\ current[k] = c
      /\ depth[k] = Cardinality(On(stack[c], k))
      /\ depth' = [depth EXCEPT ![k] = depth[k] - 1]
      /\ ref' = [ref EXCEPT ![k] = ref[k] - 1]
      /\ ref[k] = Len(threadQueue[k]) + depth[k]
      /\ stack' = [stack EXCEPT ![c] = t]
      /\ UNCHANGED <<created, waitOn>>
      /\ InnerEnds(k) \/ LockFreed(f.id, k) \/ LockPassed(k)
  BY <1>0, FinishCases
<1> USE DEF IInv, InnerEnds, LockFreed, LockPassed
<1>2. /\ t \in Seq(Frame)
      /\ \A n \in 1..Len(t) : n \in 1..Len(stack[c]) /\ t[n] = stack[c][n]
      /\ Cardinality(On(t, k)) = depth[k] - 1
      /\ \A j : j # k => On(t, j) = On(stack[c], j)
  <2>1. stack[c] \in Seq(Frame) /\ stack[c] # <<>>
    BY <1>1 DEF TypeOK
  <2>2. /\ t \in Seq(Frame)
        /\ Len(t) = Len(stack[c]) - 1
        /\ \A n \in 1..Len(t) : t[n] = stack[c][n]
        /\ Cardinality(On(t, f.locker)) = Cardinality(On(stack[c], f.locker)) - 1
        /\ \A j : j # f.locker => On(t, j) = On(stack[c], j)
    <3>1. f = stack[c][Len(stack[c])] /\ t = SubSeq(stack[c], 1, Len(stack[c]) - 1)
      BY <1>0
    <3> QED
      BY <2>1, <3>1, OnPop, Zenon
  <2>3. \A n \in 1..Len(t) : n \in 1..Len(stack[c])
    BY <2>1, <2>2
  <2> QED
    BY <1>0, <1>1, <2>2, <2>3
<1>3. /\ depth[k] \in Nat /\ ref[k] \in Nat /\ threadQueue[k] \in Seq(Coroutines)
      /\ depth[k] > 0 /\ ref[k] > 0 /\ Len(threadQueue[k]) \in Nat
  <2>1. /\ depth[k] \in Nat /\ ref[k] \in Nat /\ threadQueue[k] \in Seq(Coroutines)
        /\ Len(threadQueue[k]) \in Nat
    BY <1>1 DEF TypeOK
  <2>2. depth[k] > 0 /\ ref[k] > 0
    BY <1>1, <2>1
  <2> QED
    BY <2>1, <2>2
<1>4. LockPassed(k) => /\ Head(threadQueue[k]) \in Coroutines
                    /\ Head(threadQueue[k]) = threadQueue[k][1]
                    /\ 1 \in 1..Len(threadQueue[k])
                    /\ Head(threadQueue[k]) # c /\ Head(threadQueue[k]) # None
                    /\ Tail(threadQueue[k]) \in Seq(Coroutines)
                    /\ Len(Tail(threadQueue[k])) = Len(threadQueue[k]) - 1
                    /\ waitOn[Head(threadQueue[k])] # None
                    /\ waitOn[Head(threadQueue[k])].locker = k
  <2> SUFFICES ASSUME threadQueue[k] # <<>>
               PROVE  /\ Head(threadQueue[k]) \in Coroutines
                      /\ Head(threadQueue[k]) = threadQueue[k][1]
                      /\ 1 \in 1..Len(threadQueue[k])
                      /\ Head(threadQueue[k]) # c /\ Head(threadQueue[k]) # None
                      /\ Tail(threadQueue[k]) \in Seq(Coroutines)
                      /\ Len(Tail(threadQueue[k])) = Len(threadQueue[k]) - 1
                      /\ waitOn[Head(threadQueue[k])] # None
                      /\ waitOn[Head(threadQueue[k])].locker = k
    OBVIOUS
  <2>1. /\ Head(threadQueue[k]) \in Coroutines
        /\ Head(threadQueue[k]) = threadQueue[k][1]
        /\ 1 \in 1..Len(threadQueue[k])
        /\ Tail(threadQueue[k]) \in Seq(Coroutines)
        /\ Len(Tail(threadQueue[k])) = Len(threadQueue[k]) - 1
    BY <1>3
  <2>2. waitOn[threadQueue[k][1]] # None /\ waitOn[threadQueue[k][1]].locker = k
    BY <1>1, <2>1 DEF WaitersOK
  <2> QED
    BY <1>1, <2>1, <2>2, NoneAssumption
<1>5. TypeOK'
  <2>1. depth' \in [Lockers -> Nat] /\ ref' \in [Lockers -> Nat]
    <3>1. depth[k] - 1 \in Nat /\ ref[k] - 1 \in Nat
      BY <1>3
    <3>2. depth' = [depth EXCEPT ![k] = depth[k] - 1] /\ ref' = [ref EXCEPT ![k] = ref[k] - 1]
      BY <1>1
    <3> QED
      BY <3>1, <3>2 DEF TypeOK
  <2>2. stack' \in [Coroutines -> Seq(Frame)]
    BY <1>1, <1>2 DEF TypeOK
  <2>3. created' \in SUBSET Lockers /\ waitOn' \in [Coroutines -> Frame \cup {None}]
    BY <1>1 DEF TypeOK
  <2>4. /\ lockers' \in [Ids -> Lockers \cup {None}] /\ lockerPool' \in Seq(Lockers)
        /\ current' \in [Lockers -> Coroutines \cup {None}]
        /\ threadQueue' \in [Lockers -> Seq(Coroutines)]
        /\ woken' \in SUBSET Coroutines
    <3>1. CASE InnerEnds(k)
      BY <3>1 DEF TypeOK
    <3>2. CASE LockFreed(f.id, k)
      BY <1>1, <3>2 DEF TypeOK
    <3>3. CASE LockPassed(k)
      BY <1>1, <1>4, <3>3 DEF TypeOK
    <3> QED
      BY <1>1, <3>1, <3>2, <3>3
  <2> QED
    BY <2>1, <2>2, <2>3, <2>4 DEF TypeOK
<1>6. /\ \A j \in Lockers : j # k => /\ depth'[j] = depth[j] /\ ref'[j] = ref[j]
                                     /\ current'[j] = current[j]
                                     /\ threadQueue'[j] = threadQueue[j]
      /\ depth'[k] = depth[k] - 1 /\ ref'[k] = ref[k] - 1
      /\ InnerEnds(k) => current'[k] = c /\ threadQueue'[k] = threadQueue[k]
      /\ LockFreed(f.id, k) => current'[k] = None /\ threadQueue'[k] = <<>>
      /\ LockPassed(k) => /\ current'[k] = Head(threadQueue[k])
                       /\ threadQueue'[k] = Tail(threadQueue[k])
  <2>1. \A j \in Lockers : j # k => depth'[j] = depth[j] /\ ref'[j] = ref[j]
    BY <1>1 DEF TypeOK
  <2>2. depth'[k] = depth[k] - 1 /\ ref'[k] = ref[k] - 1
    BY <1>1 DEF TypeOK
  <2>3. CASE InnerEnds(k)
    BY <1>1, <2>1, <2>2, <2>3
  <2>4. CASE LockFreed(f.id, k)
    BY <1>1, <2>1, <2>2, <2>4 DEF TypeOK
  <2>5. CASE LockPassed(k)
    BY <1>1, <2>1, <2>2, <2>5 DEF TypeOK
  <2> QED
    BY <1>1, <2>3, <2>4, <2>5
<1>7. TableOK'
  <2>1. CASE InnerEnds(k) \/ LockPassed(k)
    <3>1. UNCHANGED <<lockers, lockerPool, created>>
      BY <1>1, <2>1
    <3>2. ServesOne' /\ PoolOK'
      BY <3>1 DEF TableOK, ServesOne, PoolOK
    <3>3. UnservedIdle'
      <4> SUFFICES ASSUME NEW j \in Lockers, \A h \in Ids : lockers[h] # j
                   PROVE  Idle(j)'
        BY <3>1 DEF UnservedIdle
      <4>1. j # k /\ Idle(j)
        BY <1>1 DEF TableOK, UnservedIdle
      <4> QED
        BY <1>6, <4>1 DEF Idle
    <3> QED
      BY <3>2, <3>3 DEF TableOK
  <2>2. CASE LockFreed(f.id, k)
    <3>1. /\ lockers'[f.id] = None
          /\ \A j \in Ids : j # f.id => lockers'[j] = lockers[j]
          /\ created' = created /\ lockerPool' = Append(lockerPool, k)
          /\ lockerPool \in Seq(Lockers)
      BY <1>1, <2>2 DEF TypeOK
    <3>2. ServesOne'
      BY <3>1 DEF TableOK, ServesOne
    <3>3. \A j \in Ids : lockers'[j] # k
      BY <1>1, <3>1 DEF TableOK, ServesOne
    <3>4. k \in created
      BY <1>1 DEF TableOK, ServesOne
    <3>5. \A n \in 1..Len(lockerPool') :
            \/ n = Len(lockerPool) + 1 /\ lockerPool'[n] = k
            \/ n \in 1..Len(lockerPool) /\ lockerPool'[n] = lockerPool[n]
      <4>1. \A n \in 1..Len(Append(lockerPool, k)) :
              \/ n = Len(lockerPool) + 1 /\ Append(lockerPool, k)[n] = k
              \/ n \in 1..Len(lockerPool) /\ Append(lockerPool, k)[n] = lockerPool[n]
        <5> TAKE n \in 1..Len(Append(lockerPool, k))
        <5> QED
          BY <1>1, <3>1, AppendElement
      <4> QED
        BY <3>1, <4>1
    <3>6. \A n \in 1..Len(lockerPool) : lockerPool[n] # k /\ lockerPool[n] \in created
                                       /\ lockerPool[n] \in Lockers
      BY <1>1, <3>1 DEF TableOK, PoolOK
    <3>7. \A n \in 1..Len(lockerPool') :
            lockerPool'[n] \in created' /\ \A i \in Ids : lockers'[i] # lockerPool'[n]
      <4> SUFFICES ASSUME NEW n \in 1..Len(lockerPool')
                   PROVE  lockerPool'[n] \in created' /\ \A i \in Ids : lockers'[i] # lockerPool'[n]
        OBVIOUS
      <4>1. CASE lockerPool'[n] = k
        BY <3>1, <3>3, <3>4, <4>1
      <4>2. CASE n \in 1..Len(lockerPool) /\ lockerPool'[n] = lockerPool[n]
        <5>1. \A i \in Ids : lockers[i] # lockerPool[n]
          BY <4>2 DEF TableOK, PoolOK
        <5>2. lockerPool[n] # None
          BY <3>6, <4>2, NoneAssumption
        <5> QED
          BY <1>1, <3>1, <3>6, <4>2, <5>1, <5>2
      <4> QED
        BY <3>5, <4>1, <4>2
    <3>8. \A m, n \in 1..Len(lockerPool') : lockerPool'[m] = lockerPool'[n] => m = n
      BY <3>5, <3>6 DEF TableOK, PoolOK
    <3>9. UnservedIdle'
      <4> SUFFICES ASSUME NEW j \in Lockers, \A h \in Ids : lockers'[h] # j
                   PROVE  Idle(j)'
        BY DEF UnservedIdle
      <4>1. CASE j = k
        BY <1>6, <2>2, <4>1 DEF Idle
      <4>2. CASE j # k
        <5>1. \A h \in Ids : lockers[h] # j
          BY <1>1, <3>1, <4>2
        <5>2. Idle(j)
          BY <5>1 DEF TableOK, UnservedIdle
        <5> QED
          BY <1>6, <4>2, <5>2 DEF Idle
      <4> QED
        BY <4>1, <4>2
    <3> QED
      BY <3>2, <3>7, <3>8, <3>9 DEF TableOK, PoolOK
  <2> QED
    BY <1>1, <2>1, <2>2
<1>8. CountOK'
  <2> SUFFICES ASSUME NEW j \in Lockers
               PROVE  /\ ref'[j] = Len(threadQueue'[j]) + Running(j)'
                      /\ current'[j] = None => threadQueue'[j] = <<>>
    BY DEF CountOK
  <2>1. /\ ref[j] = Len(threadQueue[j]) + Running(j)
        /\ current[j] = None => threadQueue[j] = <<>>
    BY DEF CountOK
  <2>2. CASE j # k
    BY <1>6, <2>1, <2>2 DEF Running
  <2>3. CASE j = k /\ InnerEnds(k)
    BY <1>1, <1>3, <1>6, <2>3 DEF Running
  <2>4. CASE j = k /\ LockFreed(f.id, k)
    BY <1>1, <1>3, <1>6, <2>4 DEF Running
  <2>5. CASE j = k /\ LockPassed(k)
    <3>1. current'[j] # None /\ depth'[j] = 0 /\ Len(threadQueue'[j]) = Len(threadQueue[j]) - 1
      <4>1. current'[k] = Head(threadQueue[k]) /\ threadQueue'[k] = Tail(threadQueue[k])
        BY <1>6, <2>5
      <4>2. Head(threadQueue[k]) # None /\ Len(Tail(threadQueue[k])) = Len(threadQueue[k]) - 1
        BY <1>4, <2>5
      <4>3. depth'[k] = 0
        BY <1>6, <2>5
      <4> QED
        BY <2>5, <4>1, <4>2, <4>3
    <3>2. ref'[j] = Len(threadQueue[j]) + 1 - 1
      BY <1>1, <1>6, <2>5
    <3> QED
      BY <1>3, <2>5, <3>1, <3>2 DEF Running
  <2> QED
    BY <1>1, <2>2, <2>3, <2>4, <2>5
<1>9. /\ stack'[c] = t
      /\ \A d \in Coroutines : d # c => stack'[d] = stack[d]
      /\ \A d \in Coroutines : d # c => On(stack[d], k) = {}
      /\ depth[k] = 1 => \A n \in 1..Len(t) : t[n].locker # k
  <2>1. stack'[c] = t /\ \A d \in Coroutines : d # c => stack'[d] = stack[d]
    BY <1>1 DEF TypeOK
  <2>2. \A d \in Coroutines : d # c => On(stack[d], k) = {}
    <3>1. \A d \in Coroutines : \A n \in 1..Len(stack[d]) : current[stack[d][n].locker] = d
      BY DEF FramesOK
    <3> QED
      BY <1>1, <3>1 DEF On
  <2>3. depth[k] = 1 => On(t, k) = {}
    <3>1. depth[k] = 1 => Cardinality(On(t, k)) = 0
      BY <1>2
    <3> QED
      BY <1>2, <3>1, OnCount
  <2>4. depth[k] = 1 => \A n \in 1..Len(t) : t[n].locker # k
    BY <2>3 DEF On
  <2> QED
    BY <2>1, <2>2, <2>4
<1>10. FramesOK'
  <2>1. \A d \in Coroutines : \A n \in 1..Len(stack'[d]) :
          /\ n \in 1..Len(stack[d]) /\ stack'[d][n] = stack[d][n]
          /\ stack[d][n].locker = k => d = c /\ InnerEnds(k)
    <3> SUFFICES ASSUME NEW d \in Coroutines, NEW n \in 1..Len(stack'[d])
                 PROVE  /\ n \in 1..Len(stack[d]) /\ stack'[d][n] = stack[d][n]
                        /\ stack[d][n].locker = k => d = c /\ InnerEnds(k)
      OBVIOUS
    <3>1. CASE d = c
      <4>1. n \in 1..Len(t) /\ stack'[d][n] = t[n]
        BY <1>9, <3>1
      <4>2. n \in 1..Len(stack[d]) /\ t[n] = stack[d][n]
        BY <1>2, <3>1, <4>1
      <4>3. depth[k] = 1 => t[n].locker # k
        BY <1>9, <4>1
      <4> QED
        BY <1>1, <3>1, <4>1, <4>2, <4>3
    <3>2. CASE d # c
      BY <1>9, <3>2 DEF On
    <3> QED
      BY <3>1, <3>2
  <2>2. ASSUME NEW d \in Coroutines, NEW n \in 1..Len(stack'[d])
        PROVE  /\ lockers'[stack'[d][n].id] = stack'[d][n].locker
               /\ current'[stack'[d][n].locker] = d
    <3> DEFINE g == stack[d][n]
    <3>1. stack'[d][n] = g /\ g \in Frame /\ g.id \in Ids /\ g.locker \in Lockers
      <4>1. n \in 1..Len(stack[d]) /\ stack'[d][n] = g
        BY <2>1
      <4>2. stack[d] \in Seq(Frame)
        BY DEF TypeOK
      <4>3. g \in Frame
        BY <4>1, <4>2
      <4> HIDE DEF g
      <4> QED
        BY <4>1, <4>3 DEF Frame
    <3>2. lockers[g.id] = g.locker /\ current[g.locker] = d
      BY <2>1 DEF FramesOK
    <3>3. g.locker = k => d = c /\ InnerEnds(k)
      BY <2>1
    <3> HIDE DEF g
    <3>4. CASE g.locker = k
      BY <1>1, <1>6, <3>1, <3>2, <3>3, <3>4
    <3>5. CASE g.locker # k
      <4>1. g.id # f.id
        BY <1>1, <3>2, <3>5
      <4>2. lockers'[g.id] = lockers[g.id]
        BY <1>1, <3>1, <4>1 DEF TypeOK
      <4> QED
        BY <1>6, <3>1, <3>2, <3>5, <4>2
    <3> QED
      BY <3>4, <3>5
  <2>3. \A j \in Lockers : current'[j] = None => depth'[j] = 0
    <3> SUFFICES ASSUME NEW j \in Lockers, current'[j] = None
                 PROVE  depth'[j] = 0
      OBVIOUS
    <3>1. CASE j # k
      BY <1>6, <3>1 DEF FramesOK
    <3>2. CASE j = k
      BY <1>1, <1>3, <1>6, <3>2
    <3> QED
      BY <3>1, <3>2
  <2>4. ASSUME NEW j \in Lockers, NEW d \in Coroutines, current'[j] = d
        PROVE  depth'[j] = Cardinality(On(stack'[d], j))
    <3>1. CASE j # k
      <4>1. On(stack'[d], j) = On(stack[d], j)
        <5>1. CASE d = c
          BY <1>2, <1>9, <3>1, <5>1
        <5>2. CASE d # c
          BY <1>9, <5>2
        <5> QED
          BY <5>1, <5>2
      <4>2. current[j] = d /\ depth'[j] = depth[j]
        BY <1>6, <2>4, <3>1
      <4> QED
        BY <4>1, <4>2 DEF FramesOK, FramesOn
    <3>2. CASE j = k /\ InnerEnds(k)
      <4>1. d = c
        BY <1>6, <2>4, <3>2
      <4> QED
        BY <1>2, <1>6, <1>9, <3>2, <4>1
    <3>3. CASE j = k /\ LockFreed(f.id, k)
      BY <1>6, <2>4, <3>3, NoneAssumption
    <3>4. CASE j = k /\ LockPassed(k)
      <4>1. d # c
        BY <1>4, <1>6, <2>4, <3>4
      <4>2. On(stack'[d], j) = {}
        BY <1>9, <3>4, <4>1
      <4>3. Cardinality(On(stack'[d], j)) = 0
        BY <4>2, FS_EmptySet
      <4> QED
        BY <1>6, <3>4, <4>3
    <3> QED
      BY <1>1, <3>1, <3>2, <3>3, <3>4
  <2> QED
    BY <2>2, <2>3, <2>4 DEF FramesOK, FramesOn
<1>11. WaitersOK'
  <2>1. \A j \in Lockers : \A n \in 1..Len(threadQueue'[j]) :
          \E m \in 1..Len(threadQueue[j]) :
              /\ threadQueue'[j][n] = threadQueue[j][m]
              /\ m = n \/ (j = k /\ LockPassed(k) /\ m = n + 1)
    <3> SUFFICES ASSUME NEW j \in Lockers, NEW n \in 1..Len(threadQueue'[j])
                 PROVE  \E m \in 1..Len(threadQueue[j]) :
                           /\ threadQueue'[j][n] = threadQueue[j][m]
                           /\ m = n \/ (j = k /\ LockPassed(k) /\ m = n + 1)
      OBVIOUS
    <3>1. CASE j # k \/ InnerEnds(k)
      BY <1>6, <3>1
    <3>2. CASE j = k /\ LockFreed(f.id, k)
      BY <1>6, <3>2
    <3>3. CASE j = k /\ LockPassed(k)
      <4>1. threadQueue'[j] = Tail(threadQueue[k])
        BY <1>6, <3>3
      <4>2. n + 1 \in 1..Len(threadQueue[k]) /\ Tail(threadQueue[k])[n] = threadQueue[k][n + 1]
        BY <1>3, <3>3, <4>1, TailElement
      <4> QED
        BY <3>3, <4>1, <4>2
    <3> QED
      BY <1>1, <3>1, <3>2, <3>3
  <2>2. \A j \in Lockers : \A m, n \in 1..Len(threadQueue'[j]) :
          threadQueue'[j][m] = threadQueue'[j][n] => m = n
    <3> SUFFICES ASSUME NEW j \in Lockers, NEW m \in 1..Len(threadQueue'[j]),
                        NEW n \in 1..Len(threadQueue'[j]),
                        threadQueue'[j][m] = threadQueue'[j][n]
                 PROVE  m = n
      OBVIOUS
    <3>1. CASE j = k /\ LockPassed(k)
      <4>1. threadQueue'[j] = Tail(threadQueue[k])
        BY <1>6, <3>1
      <4>2. \A h \in 1..Len(Tail(threadQueue[k])) :
              h + 1 \in 1..Len(threadQueue[k]) /\ Tail(threadQueue[k])[h] = threadQueue[k][h + 1]
        BY <1>3, <3>1, TailElement
      <4>3. m + 1 = n + 1
        BY <3>1, <4>1, <4>2 DEF WaitersOK
      <4> QED
        BY <4>3
    <3>2. CASE j = k /\ LockFreed(f.id, k)
      BY <1>6, <3>2
    <3>3. CASE j # k \/ InnerEnds(k)
      BY <1>6, <3>3 DEF WaitersOK
    <3> QED
      BY <1>1, <3>1, <3>2, <3>3
  <2>3. \A j \in Lockers : \A n \in 1..Len(threadQueue[j]) :
          /\ threadQueue[j][n] \in Coroutines
          /\ waitOn[threadQueue[j][n]] # None
          /\ waitOn[threadQueue[j][n]].locker = j
          /\ threadQueue[j][n] \notin woken
    BY DEF WaitersOK, TypeOK
  <2>4. LockPassed(k) => \A n \in 1..Len(threadQueue'[k]) : threadQueue'[k][n] # Head(threadQueue[k])
    <3> SUFFICES ASSUME LockPassed(k), NEW n \in 1..Len(threadQueue'[k])
                 PROVE  threadQueue'[k][n] # threadQueue[k][1]
      BY <1>4
    <3>1. threadQueue'[k] = Tail(threadQueue[k])
      BY <1>6
    <3>2. n + 1 \in 1..Len(threadQueue[k]) /\ Tail(threadQueue[k])[n] = threadQueue[k][n + 1]
      BY <1>3, <3>1, TailElement
    <3>3. n + 1 # 1 /\ 1 \in 1..Len(threadQueue[k])
      BY <1>4, <3>2
    <3>4. \A m, h \in 1..Len(threadQueue[k]) : threadQueue[k][m] = threadQueue[k][h] => m = h
      BY <1>1 DEF WaitersOK
    <3> QED
      BY <3>1, <3>2, <3>3, <3>4
  <2>5. \A j \in Lockers : \A n \in 1..Len(threadQueue'[j]) :
          LET d == threadQueue'[j][n] IN
          waitOn'[d] # None /\ waitOn'[d].locker = j /\ d \notin woken'
    <3> SUFFICES ASSUME NEW j \in Lockers, NEW n \in 1..Len(threadQueue'[j])
                 PROVE  /\ waitOn[threadQueue'[j][n]] # None
                        /\ waitOn[threadQueue'[j][n]].locker = j
                        /\ threadQueue'[j][n] \notin woken'
      BY <1>1
    <3>1. PICK m \in 1..Len(threadQueue[j]) : threadQueue'[j][n] = threadQueue[j][m]
      BY <2>1
    <3>2. /\ waitOn[threadQueue'[j][n]] # None
          /\ waitOn[threadQueue'[j][n]].locker = j
          /\ threadQueue'[j][n] \notin woken
      BY <2>3, <3>1
    <3>3. CASE LockPassed(k)
      <4>1. threadQueue'[j][n] # Head(threadQueue[k])
        BY <1>4, <2>4, <3>2, <3>3
      <4> QED
        BY <3>2, <3>3, <4>1
    <3>4. CASE InnerEnds(k) \/ LockFreed(f.id, k)
      BY <3>2, <3>4
    <3> QED
      BY <1>1, <3>3, <3>4
  <2>6. \A d \in woken' : waitOn'[d] # None
    BY <1>1, <1>4 DEF WaitersOK
  <2>7. \A d \in Coroutines : waitOn'[d] # None => WaiterOK(d)'
    <3> SUFFICES ASSUME NEW d \in Coroutines, waitOn[d] # None
                 PROVE  WaiterOK(d)'
      BY <1>1
    <3>1. PICK w, l : w = waitOn[d] /\ l = w.locker
      OBVIOUS
    <3>2. w \in Frame /\ w.id \in Ids /\ l \in Lockers /\ d # c /\ waitOn'[d] = w
      BY <1>1, <3>1 DEF TypeOK, Frame
    <3>3. /\ lockers[w.id] = l
          /\ \/ d \in woken /\ current[l] = d /\ depth[l] = 0
             \/ /\ d \notin woken
                /\ current[l] \notin {None, d}
                /\ \E n \in 1..Len(threadQueue[l]) : threadQueue[l][n] = d
      BY <3>1 DEF WaitersOK, WaiterOK
    <3> SUFFICES /\ lockers'[w.id] = l
                 /\ \/ d \in woken' /\ current'[l] = d /\ depth'[l] = 0
                    \/ /\ d \notin woken'
                       /\ current'[l] \notin {None, d}
                       /\ \E n \in 1..Len(threadQueue'[l]) : threadQueue'[l][n] = d
      BY <3>1, <3>2 DEF WaiterOK
    <3>4. CASE l # k
      <4>1. w.id # f.id
        BY <1>1, <3>3, <3>4
      <4>2. lockers'[w.id] = l
        BY <1>1, <3>2, <3>3, <4>1 DEF TypeOK
      <4>3. current'[l] = current[l] /\ depth'[l] = depth[l] /\ threadQueue'[l] = threadQueue[l]
        BY <1>6, <3>2, <3>4
      <4>4. LockPassed(k) => Head(threadQueue[k]) # d
        BY <1>4, <3>1, <3>4
      <4>5. d \in woken' <=> d \in woken
        BY <1>1, <4>4
      <4> QED
        BY <3>3, <4>2, <4>3, <4>5
    <3>5. CASE l = k
      <4>1. d \notin woken /\ \E n \in 1..Len(threadQueue[k]) : threadQueue[k][n] = d
        BY <1>1, <3>2, <3>3, <3>5
      <4>2. CASE InnerEnds(k)
        BY <3>3, <4>1, <4>2, <1>1, <3>2, <3>5
      <4>3. CASE LockFreed(f.id, k)
        BY <4>1, <4>3
      <4>4. CASE LockPassed(k) /\ d = Head(threadQueue[k])
        BY <1>6, <3>3, <3>5, <4>4
      <4>5. CASE LockPassed(k) /\ d # Head(threadQueue[k])
        <5>1. PICK n \in 1..Len(threadQueue[k]) : threadQueue[k][n] = d
          BY <4>1
        <5>2. threadQueue'[k] = Tail(threadQueue[k]) /\ current'[k] = Head(threadQueue[k])
          BY <1>6, <4>5
        <5>3. n # 1
          BY <1>4, <4>5, <5>1
        <5>4. Len(Tail(threadQueue[k])) = Len(threadQueue[k]) - 1
          BY <1>4, <4>5
        <5>5. n - 1 \in 1..Len(Tail(threadQueue[k]))
          BY <1>3, <5>3, <5>4
        <5>6. Tail(threadQueue[k])[n - 1] = threadQueue[k][(n - 1) + 1]
          BY <1>3, <4>5, <5>5, TailElement
        <5>7. Tail(threadQueue[k])[n - 1] = d
          <6>1. (n - 1) + 1 = n
            BY <1>3
          <6> QED
            BY <5>1, <5>6, <6>1, Zenon
        <5>8. d \notin woken' /\ lockers'[w.id] = l
          BY <3>3, <4>1, <4>5
        <5>9. current'[l] \notin {None, d}
          BY <1>4, <3>5, <4>5, <5>2
        <5>10. \E m \in 1..Len(threadQueue'[l]) : threadQueue'[l][m] = d
          <6>1. threadQueue'[l] = Tail(threadQueue[k])
            BY <3>5, <5>2
          <6> QED
            BY <5>5, <5>7, <6>1, Zenon
        <5> QED
          BY <5>8, <5>9, <5>10
      <4> QED
        BY <1>1, <4>2, <4>3, <4>4, <4>5
    <3> QED
      BY <3>4, <3>5
  <2>8. \A j \in Lockers : current'[j] # None /\ depth'[j] = 0 =>
          current'[j] \in woken' /\ waitOn'[current'[j]].locker = j
    <3> SUFFICES ASSUME NEW j \in Lockers, current'[j] # None, depth'[j] = 0
                 PROVE  current'[j] \in woken' /\ waitOn[current'[j]].locker = j
      BY <1>1
    <3>1. CASE j # k
      <4>1. current'[j] = current[j] /\ depth[j] = 0
        BY <1>6, <3>1
      <4>2. current[j] \in woken /\ waitOn[current[j]].locker = j
        BY <4>1 DEF WaitersOK
      <4>3. woken \subseteq woken'
        BY <1>1
      <4> QED
        BY <4>1, <4>2, <4>3
    <3>2. CASE j = k /\ InnerEnds(k)
      BY <1>3, <1>6, <3>2
    <3>3. CASE j = k /\ LockFreed(f.id, k)
      BY <1>6, <3>3
    <3>4. CASE j = k /\ LockPassed(k)
      BY <1>4, <1>6, <3>4
    <3> QED
      BY <1>1, <3>1, <3>2, <3>3, <3>4
  <2> QED
    BY <2>2, <2>5, <2>6, <2>7, <2>8 DEF WaitersOK
<1> QED
  BY <1>5, <1>7, <1>8, <1>10, <1>11
-----------------------------------------------------------------------------
(* Every reachable state of csync satisfies the inductive invariant.       *)
THEOREM Inductive == Spec => []IInv
<1>1. IInv /\ [Next]_vars => IInv'
  <2> SUFFICES ASSUME IInv, [Next]_vars PROVE IInv'
    OBVIOUS
  <2>1. CASE UNCHANGED vars
    <3>1. /\ lockers' = lockers /\ lockerPool' = lockerPool /\ created' = created
          /\ ref' = ref /\ current' = current /\ depth' = depth
          /\ threadQueue' = threadQueue /\ stack' = stack /\ waitOn' = waitOn
          /\ woken' = woken
      BY <2>1 DEF vars
    <3> QED
      BY <3>1 DEF IInv, TypeOK, TableOK, ServesOne, PoolOK, UnservedIdle, Idle,
                  CountOK, Running, FramesOK, FramesOn, WaitersOK, WaiterOK
  <2>2. ASSUME NEW c \in Coroutines, OnceDo(c) PROVE IInv'
    BY <2>2, OnceDoRunIInv, OnceDoWaitIInv DEF OnceDo
  <2>3. ASSUME NEW c \in Coroutines, Resume(c) PROVE IInv'
    BY <2>3, ResumeIInv
  <2>4. ASSUME NEW c \in Coroutines, Finish(c) PROVE IInv'
    BY <2>4, FinishIInv
  <2> QED
    BY <2>1, <2>2, <2>3, <2>4 DEF Next
<1> QED
  BY <1>1, InitIInv, PTL DEF Spec

(* The variables of csync keep their types.                                *)
THEOREM TypeCorrect == Spec => []TypeOK
<1>1. IInv => TypeOK
  BY DEF IInv
<1> QED
  BY <1>1, Inductive, PTL

(* Under one id at most one coroutine runs, whatever lockers are recycled. *)
THEOREM Exclusion == Spec => []MutualExclusion
<1>1. IInv => MutualExclusion
  <2> SUFFICES ASSUME IInv, NEW c \in Coroutines, NEW d \in Coroutines, NEW i \in Ids,
                      Holds(c, i), Holds(d, i)
               PROVE  c = d
    BY DEF MutualExclusion
  <2>1. PICK m \in 1..Len(stack[c]) : stack[c][m].id = i
    BY DEF Holds
  <2>2. PICK n \in 1..Len(stack[d]) : stack[d][n].id = i
    BY DEF Holds
  <2>3. lockers[i] = stack[c][m].locker /\ current[stack[c][m].locker] = c
    BY <2>1 DEF IInv, FramesOK
  <2>4. lockers[i] = stack[d][n].locker /\ current[stack[d][n].locker] = d
    BY <2>2 DEF IInv, FramesOK
  <2> QED
    BY <2>3, <2>4
<1> QED
  BY <1>1, Inductive, PTL

(* The assertion after skynet.wait() in skynet/queue.lua never fails.      *)
THEOREM AssertionHolds == Spec => []ResumeAssertion
<1>1. IInv => ResumeAssertion
  BY DEF IInv, TypeOK, WaitersOK, WaiterOK, ResumeAssertion
<1> QED
  BY <1>1, Inductive, PTL

(* A pooled locker is used by nobody.                                      *)
THEOREM PoolIsQuiescent == Spec => []PoolQuiescent
<1>1. IInv => PoolQuiescent
  <2> SUFFICES ASSUME IInv PROVE PoolQuiescent
    OBVIOUS
  <2>1. ASSUME NEW n \in 1..Len(lockerPool)
        PROVE  LET k == lockerPool[n] IN
               /\ \A i \in Ids : lockers[i] # k
               /\ current[k] = None /\ threadQueue[k] = <<>> /\ ref[k] = 0
               /\ \A c \in Coroutines : waitOn[c] # None => waitOn[c].locker # k
    <3> DEFINE k == lockerPool[n]
    <3>1. k \in Lockers /\ \A i \in Ids : lockers[i] # k
      BY DEF IInv, TypeOK, TableOK, PoolOK
    <3>2. current[k] = None /\ threadQueue[k] = <<>> /\ ref[k] = 0
      BY <3>1 DEF IInv, TableOK, UnservedIdle, Idle
    <3>3. \A c \in Coroutines : waitOn[c] # None => waitOn[c].id \in Ids /\ lockers[waitOn[c].id] = waitOn[c].locker
      BY DEF IInv, TypeOK, Frame, WaitersOK, WaiterOK
    <3> QED
      BY <3>1, <3>2, <3>3
  <2> QED
    BY <2>1 DEF PoolQuiescent, IInv, TableOK, PoolOK
<1> QED
  BY <1>1, Inductive, PTL

(* No sleeping caller of once_do is forgotten.                             *)
THEOREM WakeupsArrive == Spec => []NoLostWakeup
<1>1. IInv => NoLostWakeup
  BY DEF IInv, WaitersOK, WaiterOK, NoLostWakeup
<1> QED
  BY <1>1, Inductive, PTL
-----------------------------------------------------------------------------
(***************************************************************************)
(* Sync implements FifoLock: every step of csync is a step of one          *)
(* first-come first-served re-entrant lock per id, for any sets of         *)
(* coroutines, ids and lockers.  The argument rests on the inductive       *)
(* invariant above, mostly on ServesOne: a locker in use serves one id, so *)
(* a step on it changes the lock of that id only.                          *)
(***************************************************************************)

LevelOf(i) == IF lockers[i] = None THEN 0 ELSE depth[lockers[i]]

(* The locks of all ids but one stay as they are.                          *)
OthersKeep(i) ==
    \A j \in Ids : j # i => QueueOf(j)' = QueueOf(j) /\ LevelOf(j)' = LevelOf(j)

(* A change of the lock of one id, seen as a step of FifoLock.             *)
LEMMA RequestStep ==
    ASSUME NEW i \in Ids, NEW c \in Coroutines, OthersKeep(i),
           \A n \in 1..Len(QueueOf(i)) : QueueOf(i)[n] # c,
           QueueOf(i)' = Append(QueueOf(i), c),
           LevelOf(i)' = IF QueueOf(i) = <<>> THEN 1 ELSE LevelOf(i)
    PROVE  Locks!Next
<1>1. Locks!Request(c, i)
  BY DEF OthersKeep, LevelOf, Locks!Request
<1> QED
  BY <1>1 DEF Locks!Next

LEMMA EnterStep ==
    ASSUME NEW i \in Ids, OthersKeep(i), QueueOf(i) # <<>>,
           QueueOf(i)' = QueueOf(i), LevelOf(i)' = LevelOf(i) + 1
    PROVE  Locks!Next
<1>1. Locks!Enter(i)
  BY DEF OthersKeep, LevelOf, Locks!Enter
<1> QED
  BY <1>1 DEF Locks!Next

LEMMA LeaveStep ==
    ASSUME NEW i \in Ids, OthersKeep(i), LevelOf(i) > 0,
           QueueOf(i)' = IF LevelOf(i) = 1 THEN Tail(QueueOf(i)) ELSE QueueOf(i),
           LevelOf(i)' = LevelOf(i) - 1
    PROVE  Locks!Next
<1>1. Locks!Leave(i)
  BY DEF OthersKeep, LevelOf, Locks!Leave
<1> QED
  BY <1>1 DEF Locks!Next

(* A step on locker k and on the entry of id i leaves the locks of the     *)
(* other ids alone, when none of them uses k.                              *)
LEMMA OthersUntouched ==
    ASSUME TypeOK, NEW i \in Ids, NEW k \in Lockers,
           \A j \in Ids : j # i => lockers[j] # k /\ lockers'[j] = lockers[j],
           \A m \in Lockers : m # k => /\ current'[m] = current[m]
                                       /\ depth'[m] = depth[m]
                                       /\ threadQueue'[m] = threadQueue[m]
    PROVE  OthersKeep(i)
<1> SUFFICES ASSUME NEW j \in Ids, j # i
             PROVE  QueueOf(j)' = QueueOf(j) /\ LevelOf(j)' = LevelOf(j)
  BY DEF OthersKeep
<1>1. lockers'[j] = lockers[j] /\ lockers[j] # k /\ lockers[j] \in Lockers \cup {None}
  BY DEF TypeOK
<1>2. CASE lockers[j] = None
  BY <1>1, <1>2 DEF QueueOf, LevelOf
<1>3. CASE lockers[j] \in Lockers
  <2>1. /\ current'[lockers[j]] = current[lockers[j]]
        /\ depth'[lockers[j]] = depth[lockers[j]]
        /\ threadQueue'[lockers[j]] = threadQueue[lockers[j]]
    BY <1>1, <1>3
  <2> QED
    BY <1>1, <2>1 DEF QueueOf, LevelOf
<1> QED
  BY <1>1, <1>2, <1>3

(* What the lock of an id is, when a locker serves it.                     *)
LEMMA ServedLock ==
    ASSUME NEW i \in Ids, NEW k \in Lockers, lockers[i] = k
    PROVE  /\ LevelOf(i) = depth[k]
           /\ current[k] = None => QueueOf(i) = <<>>
           /\ current[k] # None => QueueOf(i) = <<current[k]>> \o threadQueue[k]
BY NoneAssumption DEF LevelOf, QueueOf

(* The queue of an owner and its waiters is not empty, grows at its end    *)
(* and loses the owner at its head.                                        *)
LEMMA OwnerFirst ==
    ASSUME NEW S, NEW o \in S, NEW s \in Seq(S)
    PROVE  /\ <<o>> \o s # <<>>
           /\ Tail(<<o>> \o s) = s
           /\ \A e \in S : <<o>> \o Append(s, e) = Append(<<o>> \o s, e)
           /\ \A n \in 1..Len(<<o>> \o s) :
                 (<<o>> \o s)[n] = o \/ \E m \in 1..Len(s) : (<<o>> \o s)[n] = s[m]
<1>1. Len(<<o>> \o s) = Len(s) + 1 /\ Len(s) \in Nat /\ <<o>> \o s \in Seq(S)
  OBVIOUS
<1>2. ASSUME NEW n \in 1..Len(<<o>> \o s)
      PROVE  (<<o>> \o s)[n] = IF n = 1 THEN o ELSE s[n - 1]
  OBVIOUS
<1>3. \A e \in S : <<o>> \o Append(s, e) = Append(<<o>> \o s, e)
  OBVIOUS
<1>4. Tail(<<o>> \o s) = s
  OBVIOUS
<1>5. ASSUME NEW n \in 1..Len(<<o>> \o s)
      PROVE  (<<o>> \o s)[n] = o \/ \E m \in 1..Len(s) : (<<o>> \o s)[n] = s[m]
  <2>1. CASE n = 1
    BY <1>2, <2>1
  <2>2. CASE n # 1
    <3>1. n - 1 \in 1..Len(s)
      BY <1>1, <2>2
    <3> QED
      BY <1>2, <2>2, <3>1
  <2> QED
    BY <2>1, <2>2
<1> QED
  BY <1>1, <1>3, <1>4, <1>5
-----------------------------------------------------------------------------
(* once_do on a lock that admits the caller takes a free lock, or enters   *)
(* it one level deeper.                                                    *)
LEMMA OnceDoRunStep ==
    ASSUME IInv, NEW c \in Coroutines, NEW i \in Ids, NEW k \in Lockers,
           OnceDoRun(c, i, k)
    PROVE  Locks!Next
<1>1. /\ lockers' = [lockers EXCEPT ![i] = k]
      /\ lockers[i] = k \/ (lockers[i] = None /\ Idle(k))
      /\ ServesOne'
  BY GetLockerTable DEF IInv, OnceDoRun
<1>2. /\ current[k] \in {None, c} /\ c # None /\ k # None
      /\ current' = [current EXCEPT ![k] = c]
      /\ depth' = [depth EXCEPT ![k] = @ + 1]
      /\ threadQueue' = threadQueue
  BY NoneAssumption DEF OnceDoRun, Admits, StartFunc
<1>3. lockers'[i] = k /\ \A j \in Ids : j # i => lockers'[j] = lockers[j]
  BY <1>1 DEF IInv, TypeOK
<1>4. \A j \in Ids : j # i => lockers[j] # k
  BY <1>1, <1>2, <1>3 DEF ServesOne
<1>5. OthersKeep(i)
  <2>1. \A m \in Lockers : m # k => /\ current'[m] = current[m]
                                    /\ depth'[m] = depth[m]
                                    /\ threadQueue'[m] = threadQueue[m]
    BY <1>2 DEF IInv, TypeOK
  <2> QED
    BY <1>3, <1>4, <2>1, OthersUntouched DEF IInv
<1>6. /\ QueueOf(i)' = <<c>> \o threadQueue[k]
      /\ LevelOf(i)' = depth[k] + 1
  <2>1. current'[k] = c /\ depth'[k] = depth[k] + 1
    BY <1>2 DEF IInv, TypeOK
  <2> QED
    BY <1>2, <1>3, <2>1, NoneAssumption DEF QueueOf, LevelOf
<1>7. threadQueue[k] \in Seq(Coroutines) /\ depth[k] \in Nat
  BY DEF IInv, TypeOK
<1>8. CASE current[k] = c
  <2>1. lockers[i] = k
    BY <1>1, <1>2, <1>8 DEF Idle
  <2>2. QueueOf(i) = <<c>> \o threadQueue[k] /\ LevelOf(i) = depth[k]
    BY <1>2, <1>8, <2>1, ServedLock
  <2>3. QueueOf(i) # <<>>
    BY <1>7, <2>2, OwnerFirst
  <2> QED
    BY <1>5, <1>6, <2>2, <2>3, EnterStep
<1>9. CASE current[k] = None
  <2>1. threadQueue[k] = <<>> /\ depth[k] = 0
    BY <1>9 DEF IInv, CountOK, FramesOK
  <2>2. QueueOf(i) = <<>>
    <3>1. CASE lockers[i] = k
      BY <1>9, <3>1, ServedLock
    <3>2. CASE lockers[i] = None
      BY <3>2 DEF QueueOf
    <3> QED
      BY <1>1, <3>1, <3>2
  <2>3. QueueOf(i)' = <<c>>
    BY <1>6, <2>1
  <2>4. QueueOf(i)' = Append(QueueOf(i), c)
    BY <2>2, <2>3
  <2>5. \A n \in 1..Len(QueueOf(i)) : QueueOf(i)[n] # c
    BY <2>2
  <2>6. LevelOf(i)' = IF QueueOf(i) = <<>> THEN 1 ELSE LevelOf(i)
    BY <1>6, <2>1, <2>2
  <2> QED
    BY <1>5, <2>4, <2>5, <2>6, RequestStep
<1> QED
  BY <1>2, <1>8, <1>9

(* once_do on a busy lock joins the queue of its id.                       *)
LEMMA OnceDoWaitStep ==
    ASSUME IInv, NEW c \in Coroutines, NEW i \in Ids, NEW k \in Lockers,
           OnceDoWait(c, i, k)
    PROVE  Locks!Next
<1>1. /\ lockers' = [lockers EXCEPT ![i] = k]
      /\ lockers[i] = k \/ (lockers[i] = None /\ Idle(k))
  BY GetLockerTable DEF IInv, OnceDoWait
<1>2. /\ current[k] \notin {None, c} /\ k # None /\ waitOn[c] = None
      /\ threadQueue' = [threadQueue EXCEPT ![k] = Append(@, c)]
      /\ current' = current /\ depth' = depth
  BY NoneAssumption DEF OnceDoWait, Calls, Admits
<1>3. lockers[i] = k /\ lockers' = lockers
  BY <1>1, <1>2 DEF Idle, IInv, TypeOK
<1>4. /\ threadQueue[k] \in Seq(Coroutines) /\ current[k] \in Coroutines
      /\ threadQueue'[k] = Append(threadQueue[k], c)
  BY <1>2 DEF IInv, TypeOK
<1>5. OthersKeep(i)
  <2>1. \A j \in Ids : j # i => lockers[j] # k /\ lockers'[j] = lockers[j]
    BY <1>2, <1>3 DEF IInv, TableOK, ServesOne
  <2>2. \A m \in Lockers : m # k => /\ current'[m] = current[m]
                                    /\ depth'[m] = depth[m]
                                    /\ threadQueue'[m] = threadQueue[m]
    BY <1>2 DEF IInv, TypeOK
  <2> QED
    BY <2>1, <2>2, OthersUntouched DEF IInv
<1>6. QueueOf(i) = <<current[k]>> \o threadQueue[k] /\ LevelOf(i) = depth[k]
  BY <1>2, <1>3, ServedLock
<1>7. QueueOf(i)' = <<current[k]>> \o Append(threadQueue[k], c) /\ LevelOf(i)' = depth[k]
  BY <1>2, <1>3, <1>4 DEF QueueOf, LevelOf
<1>8. QueueOf(i)' = Append(QueueOf(i), c) /\ QueueOf(i) # <<>>
  <2>1. /\ <<current[k]>> \o Append(threadQueue[k], c)
             = Append(<<current[k]>> \o threadQueue[k], c)
        /\ <<current[k]>> \o threadQueue[k] # <<>>
    BY <1>4, OwnerFirst
  <2> QED
    BY <1>6, <1>7, <2>1
<1>9. \A n \in 1..Len(QueueOf(i)) : QueueOf(i)[n] # c
  <2>1. \A m \in 1..Len(threadQueue[k]) : threadQueue[k][m] # c
    BY <1>2 DEF IInv, WaitersOK
  <2>2. \A n \in 1..Len(<<current[k]>> \o threadQueue[k]) :
           \/ (<<current[k]>> \o threadQueue[k])[n] = current[k]
           \/ \E m \in 1..Len(threadQueue[k]) :
                 (<<current[k]>> \o threadQueue[k])[n] = threadQueue[k][m]
    BY <1>4, OwnerFirst
  <2> QED
    BY <1>2, <1>6, <2>1, <2>2
<1> QED
  BY <1>5, <1>6, <1>7, <1>8, <1>9, RequestStep

(* A woken waiter enters the lock that was handed to it.                   *)
LEMMA ResumeStep ==
    ASSUME IInv, NEW c \in Coroutines, Resume(c)
    PROVE  Locks!Next
<1>1. PICK i, k : i = waitOn[c].id /\ k = waitOn[c].locker
  OBVIOUS
<1>2. waitOn[c] # None /\ c \in woken
  BY DEF IInv, WaitersOK, Resume
<1>3. i \in Ids /\ k \in Lockers /\ c # None /\ k # None
  BY <1>1, <1>2, NoneAssumption DEF IInv, TypeOK, Frame
<1>4. lockers[i] = k /\ current[k] = c
  BY <1>1, <1>2 DEF IInv, WaitersOK, WaiterOK
<1>5. /\ current' = [current EXCEPT ![k] = c]
      /\ depth' = [depth EXCEPT ![k] = @ + 1]
      /\ lockers' = lockers /\ threadQueue' = threadQueue
  BY <1>1 DEF Resume, StartFunc
<1>6. /\ threadQueue[k] \in Seq(Coroutines) /\ current'[k] = c
      /\ depth'[k] = depth[k] + 1
  BY <1>3, <1>5 DEF IInv, TypeOK
<1>7. OthersKeep(i)
  <2>1. \A j \in Ids : j # i => lockers[j] # k /\ lockers'[j] = lockers[j]
    BY <1>3, <1>4, <1>5 DEF IInv, TableOK, ServesOne
  <2>2. \A m \in Lockers : m # k => /\ current'[m] = current[m]
                                    /\ depth'[m] = depth[m]
                                    /\ threadQueue'[m] = threadQueue[m]
    BY <1>5 DEF IInv, TypeOK
  <2> QED
    BY <1>3, <2>1, <2>2, OthersUntouched DEF IInv
<1>8. QueueOf(i) = <<c>> \o threadQueue[k] /\ LevelOf(i) = depth[k]
  BY <1>3, <1>4, ServedLock
<1>9. QueueOf(i)' = <<c>> \o threadQueue[k] /\ LevelOf(i)' = depth[k] + 1
  BY <1>3, <1>4, <1>5, <1>6 DEF QueueOf, LevelOf
<1>10. QueueOf(i) # <<>>
  BY <1>6, <1>8, OwnerFirst
<1> QED
  BY <1>3, <1>7, <1>8, <1>9, <1>10, EnterStep
-----------------------------------------------------------------------------
(* The end of a func leaves the lock of its id by one level; the outermost *)
(* one takes the owner off the queue, whether the locker is then pooled or *)
(* handed to the next waiter.                                              *)
LEMMA FinishStep ==
    ASSUME IInv, NEW c \in Coroutines, Finish(c)
    PROVE  Locks!Next
<1>0. PICK f, i, k, t : /\ f = stack[c][Len(stack[c])] /\ k = f.locker /\ i = f.id
                        /\ t = SubSeq(stack[c], 1, Len(stack[c]) - 1)
  OBVIOUS
<1>1. /\ f.id \in Ids /\ k \in Lockers /\ k # None /\ c # None
      /\ lockers[f.id] = k /\ current[k] = c
      /\ depth' = [depth EXCEPT ![k] = depth[k] - 1]
      /\ InnerEnds(k) \/ LockFreed(f.id, k) \/ LockPassed(k)
  BY <1>0, FinishCases
<1>2. /\ i \in Ids /\ lockers[i] = k
      /\ InnerEnds(k) \/ LockFreed(i, k) \/ LockPassed(k)
  BY <1>0, <1>1
<1>3. /\ threadQueue[k] \in Seq(Coroutines) /\ depth[k] \in Nat
      /\ depth'[k] = depth[k] - 1
  BY <1>1 DEF IInv, TypeOK
<1>4. depth[k] > 0
  BY <1>2, <1>3 DEF InnerEnds, LockFreed, LockPassed
<1>5. OthersKeep(i)
  <2>1. \A j \in Ids : j # i => lockers[j] # k
    BY <1>1, <1>2 DEF IInv, TableOK, ServesOne
  <2>2. \A j \in Ids : j # i => lockers'[j] = lockers[j]
    BY <1>2 DEF InnerEnds, LockFreed, LockPassed, IInv, TypeOK
  <2>3. \A m \in Lockers : m # k => /\ current'[m] = current[m]
                                    /\ depth'[m] = depth[m]
                                    /\ threadQueue'[m] = threadQueue[m]
    BY <1>1, <1>2 DEF InnerEnds, LockFreed, LockPassed, IInv, TypeOK
  <2> QED
    BY <1>1, <1>2, <2>1, <2>2, <2>3, OthersUntouched DEF IInv
<1>6. QueueOf(i) = <<c>> \o threadQueue[k] /\ LevelOf(i) = depth[k]
  BY <1>1, <1>2, ServedLock
<1>7. Tail(QueueOf(i)) = threadQueue[k]
  BY <1>3, <1>6, OwnerFirst
<1>8. CASE InnerEnds(k)
  <2>1. depth[k] > 1 /\ lockers' = lockers /\ current' = current /\ threadQueue' = threadQueue
    BY <1>8 DEF InnerEnds
  <2>2. QueueOf(i)' = QueueOf(i) /\ LevelOf(i)' = depth[k] - 1
    BY <1>1, <1>2, <1>3, <2>1 DEF QueueOf, LevelOf
  <2>3. LevelOf(i) > 0 /\ LevelOf(i) # 1
    BY <1>3, <1>6, <2>1
  <2> QED
    BY <1>2, <1>4, <1>5, <1>6, <2>2, <2>3, LeaveStep
<1>9. CASE LockFreed(i, k)
  <2>1. depth[k] = 1 /\ threadQueue[k] = <<>> /\ lockers'[i] = None
    BY <1>2, <1>9 DEF LockFreed, IInv, TypeOK
  <2>2. QueueOf(i)' = <<>> /\ LevelOf(i)' = 0
    BY <2>1 DEF QueueOf, LevelOf
  <2>3. QueueOf(i)' = Tail(QueueOf(i))
    BY <1>6, <1>7, <2>1, <2>2
  <2>4. LevelOf(i) = 1 /\ LevelOf(i)' = LevelOf(i) - 1
    BY <1>6, <2>1, <2>2
  <2> QED
    BY <1>2, <1>5, <2>3, <2>4, LeaveStep
<1>10. CASE LockPassed(k)
  <2> DEFINE q == threadQueue[k]
  <2>1. /\ depth[k] = 1 /\ q # <<>> /\ lockers' = lockers
        /\ current'[k] = Head(q) /\ threadQueue'[k] = Tail(q)
    BY <1>1, <1>10 DEF LockPassed, IInv, TypeOK
  <2>2. Head(q) \in Coroutines /\ Head(q) # None /\ q = <<Head(q)>> \o Tail(q)
    BY <1>3, <2>1, NoneAssumption
  <2>3. LevelOf(i)' = 0
    BY <1>1, <1>2, <1>3, <2>1 DEF LevelOf
  <2>4. QueueOf(i)' = <<Head(q)>> \o Tail(q)
    BY <1>1, <1>2, <2>1, <2>2 DEF QueueOf
  <2>5. QueueOf(i)' = Tail(QueueOf(i))
    BY <1>6, <1>7, <2>2, <2>4
  <2>6. LevelOf(i) = 1 /\ LevelOf(i)' = LevelOf(i) - 1
    BY <1>6, <2>1, <2>3
  <2> QED
    BY <1>2, <1>5, <2>5, <2>6, LeaveStep
<1> QED
  BY <1>2, <1>8, <1>9, <1>10
-----------------------------------------------------------------------------
(* csync is a first-come first-served re-entrant lock per id: nobody can   *)
(* tell from the order in which once_do runs its callers that the lockers  *)
(* are counted, pooled and recycled for other ids.                         *)
THEOREM Implements == Spec => ImplementsFifoLock
<1>1. Init => Locks!Init
  <2> SUFFICES ASSUME Init PROVE Locks!Init
    OBVIOUS
  <2>1. \A i \in Ids : QueueOf(i) = <<>> /\ LevelOf(i) = 0
    BY DEF Init, QueueOf, LevelOf
  <2> QED
    BY <2>1 DEF Locks!Init, LevelOf
<1>2. IInv /\ [Next]_vars => [Locks!Next]_(Locks!lockVars)
  <2> SUFFICES ASSUME IInv, [Next]_vars PROVE [Locks!Next]_(Locks!lockVars)
    OBVIOUS
  <2>1. CASE UNCHANGED vars
    BY <2>1 DEF vars, Locks!lockVars, QueueOf
  <2>2. ASSUME NEW c \in Coroutines, OnceDo(c) PROVE Locks!Next
    BY <2>2, OnceDoRunStep, OnceDoWaitStep DEF OnceDo
  <2>3. ASSUME NEW c \in Coroutines, Resume(c) PROVE Locks!Next
    BY <2>3, ResumeStep
  <2>4. ASSUME NEW c \in Coroutines, Finish(c) PROVE Locks!Next
    BY <2>4, FinishStep
  <2> QED
    BY <2>1, <2>2, <2>3, <2>4 DEF Next
<1> QED
  BY <1>1, <1>2, Inductive, PTL DEF Spec, ImplementsFifoLock, Locks!Spec
=============================================================================
