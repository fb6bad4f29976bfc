-------------------------- MODULE TimerWheelProofs --------------------------
(***************************************************************************)
(* Proofs about TimerWheel, for any timeouts, any sizes of the levels and  *)
(* any number of them, and whatever delays Lua asks for: that a node is    *)
(* where timer_shift looks for it in time, and that the wheel is the alarm *)
(* of Alarm for the ticks it is given.                                     *)
(***************************************************************************)
EXTENDS TimerWheel, SequenceTheorems, WellFoundedInduction, TLAPS

-----------------------------------------------------------------------------
(* The inductive invariant.                                                *)
Holds(q) == {q[n] : n \in DOMAIN q}
Once(q) == \A m, n \in DOMAIN q : q[m] = q[n] => m = n

Placed ==
    \A s \in Slots : \A id \in Holds(wheel[s]) :
        /\ remaining[id] > 0
        /\ expire[id] = (time + remaining[id]) % Modulus
        /\ s = Slot(expire[id], time)

(* A timeout that is awaited is in the wheel, or on its way.               *)
Kept ==
    /\ \A id \in Timeouts : remaining[id] > 0 => id \in Holds(wheel[Slot(expire[id], time)])
    /\ \A id \in Timeouts : remaining[id] = 0 <=> id \in Holds(sending)

IInv ==
    /\ TypeOK
    /\ Placed
    /\ Kept
    /\ \A s \in Slots : Once(wheel[s])
    /\ Once(sending)
    /\ (sending # <<>> => ticking) /\ (ticking => lag > 0)

-----------------------------------------------------------------------------
(* Induction over the natural numbers, as a fact about a set.              *)
LEMMA Induction ==
    ASSUME NEW P \in SUBSET Nat, 0 \in P, \A n \in P : n + 1 \in P
    PROVE  P = Nat
<1>1. SUFFICES ASSUME Nat \ P # {} PROVE FALSE
  OBVIOUS
<1>2. PICK n \in Nat \ P : \A m \in Nat \ P : ~(<<m, n>> \in OpToRel(<, Nat))
  BY <1>1, WFMin, NatLessThanWellFounded
<1>3. \A m \in Nat \ P : ~(m < n)
  BY <1>2 DEF OpToRel
<1>4. n \in Nat /\ n \notin P /\ n # 0
  BY <1>2
<1>5. n - 1 \in Nat /\ n - 1 < n /\ n - 1 + 1 = n
  BY <1>4
<1>6. n - 1 \in P
  BY <1>3, <1>5
<1>7. n - 1 + 1 \in P
  BY <1>6
<1> QED
  BY <1>4, <1>5, <1>7

(* A recursive function over 0..N exists: its steps are the functions F.   *)
Follows(f, N, x, F) == f[0] = x /\ \A i \in 1..N : f[i] = F[i][f[i - 1]]
LEMMA Recursion ==
    ASSUME NEW N \in Nat, NEW X, NEW x \in X, NEW F \in [1..N -> [X -> X]]
    PROVE  \E f \in [0..N -> X] : Follows(f, N, x, F)
<1> DEFINE Obeys(f, k) == f[0] = x /\ \A i \in 1..N : i <= k => f[i] = F[i][f[i - 1]]
           P == {k \in Nat : \E f \in [0..N -> X] : Obeys(f, k)}
<1>1. 0 \in P
  <2> DEFINE f == [i \in 0..N |-> x]
  <2>1. f \in [0..N -> X] /\ Obeys(f, 0)
    OBVIOUS
  <2> HIDE DEF f, Obeys
  <2> QED
    BY <2>1
<1>2. ASSUME NEW k \in P PROVE k + 1 \in P
  <2>1. PICK f \in [0..N -> X] : Obeys(f, k)
    OBVIOUS
  <2>2. k \in Nat
    OBVIOUS
  <2> DEFINE e == [f EXCEPT ![k + 1] = F[k + 1][f[k]]]
  <2>3. CASE k + 1 <= N
    <3>1. f[k] \in X /\ k + 1 \in 1..N /\ k \in 0..N
      BY <2>2, <2>3
    <3>2. F[k + 1][f[k]] \in X
      BY <3>1
    <3>3. e \in [0..N -> X]
      BY <3>2
    <3>4. \A i \in 0..N : i # k + 1 => e[i] = f[i]
      BY <2>2
    <3>5. e[k + 1] = F[k + 1][f[k]]
      BY <3>1
    <3>6. Obeys(e, k + 1)
      <4>1. e[0] = x
        BY <2>1, <2>2, <3>4
      <4>2. ASSUME NEW i \in 1..N, i <= k + 1 PROVE e[i] = F[i][e[i - 1]]
        <5>1. i - 1 \in 0..N /\ i - 1 # k + 1
          BY <2>2, <4>2
        <5>2. e[i - 1] = f[i - 1]
          BY <3>4, <5>1
        <5> HIDE DEF e
        <5>3. CASE i = k + 1
          <6>1. i - 1 = k
            BY <2>2, <5>3
          <6> QED
            BY <3>5, <5>2, <5>3, <6>1
        <5>4. CASE i # k + 1
          <6>1. i <= k /\ i \in 0..N
            BY <2>2, <4>2, <5>4
          <6> QED
            BY <2>1, <3>4, <5>2, <5>4, <6>1
        <5> QED
          BY <5>3, <5>4
      <4> HIDE DEF e
      <4> QED
        BY <4>1, <4>2
    <3> HIDE DEF e, Obeys
    <3> QED
      BY <2>2, <3>3, <3>6
  <2>4. CASE ~(k + 1 <= N)
    <3>1. Obeys(f, k + 1)
      <4>1. \A i \in 1..N : i <= k
        BY <2>2, <2>4
      <4> QED
        BY <2>1, <4>1
    <3> HIDE DEF Obeys
    <3> QED
      BY <2>2, <3>1
  <2> QED
    BY <2>3, <2>4
<1>3. N \in P
  <2> HIDE DEF P
  <2>1. P \in SUBSET Nat
    BY DEF P
  <2>2. P = Nat
    BY <1>1, <1>2, <2>1, Induction
  <2> QED
    BY <2>2
<1>4. PICK f \in [0..N -> X] : Obeys(f, N)
  BY <1>3
<1>5. Follows(f, N, x, F)
  BY <1>4 DEF Follows
<1> QED
  BY <1>5

-----------------------------------------------------------------------------
(* The units of the levels.                                                *)
LEMMA Units ==
    /\ Unit \in [0..Levels -> Nat \ {0}]
    /\ Unit[0] = Near
    /\ \A i \in 1..Levels : Unit[i] = Unit[i - 1] * Level
<1> DEFINE X == Nat \ {0}
           F == [i \in 1..Levels |-> [v \in X |-> v * Level]]
<1>1. Levels \in Nat /\ Near \in X /\ Level \in X
  BY WheelAssumption
<1>2. F \in [1..Levels -> [X -> X]]
  <2>1. \A n, m \in X : n * m \in X
    OBVIOUS
  <2> HIDE DEF X
  <2> QED
    BY <1>1, <2>1
<1>3. PICK f \in [0..Levels -> X] : f[0] = Near /\ \A i \in 1..Levels : f[i] = F[i][f[i - 1]]
  <2> HIDE DEF F, X
  <2>1. PICK f \in [0..Levels -> X] : Follows(f, Levels, Near, F)
    BY <1>1, <1>2, Recursion
  <2> QED
    BY <2>1 DEF Follows
<1>4. \A i \in 1..Levels : f[i] = f[i - 1] * Level
  <2> SUFFICES ASSUME NEW i \in 1..Levels PROVE f[i] = f[i - 1] * Level
    OBVIOUS
  <2>1. i - 1 \in 0..Levels
    BY <1>1
  <2>2. f[i - 1] \in X
    BY <2>1
  <2>3. F[i][f[i - 1]] = f[i - 1] * Level
    BY <2>2
  <2> HIDE DEF F
  <2> QED
    BY <1>3, <2>3
<1>5. f = [i \in 0..Levels |-> IF i = 0 THEN Near ELSE f[i - 1] * Level]
  <2>1. \A i \in 0..Levels : f[i] = IF i = 0 THEN Near ELSE f[i - 1] * Level
    <3>1. \A i \in 0..Levels : i # 0 => i \in 1..Levels
      BY <1>1
    <3> QED
      BY <1>3, <1>4, <3>1
  <2>2. f = [i \in 0..Levels |-> f[i]]
    OBVIOUS
  <2> QED
    BY <2>1, <2>2
<1> DEFINE Solves(u) == u = [i \in 0..Levels |-> IF i = 0 THEN Near ELSE u[i - 1] * Level]
           unit == CHOOSE u : Solves(u)
<1>6. Solves(unit)
  <2>1. Solves(f)
    BY <1>5
  <2> HIDE DEF Solves
  <2> QED
    BY <2>1
<1>7. Unit = [i \in 0..Levels |-> IF i = 0 THEN Near ELSE Unit[i - 1] * Level]
  BY <1>6 DEF Unit
<1> DEFINE P == {i \in Nat : i <= Levels => Unit[i] \in X}
<1>8. Unit[0] = Near /\ \A i \in 1..Levels : Unit[i] = Unit[i - 1] * Level
  <2>1. 0 \in 0..Levels /\ \A i \in 1..Levels : i \in 0..Levels /\ i # 0
    BY <1>1
  <2> QED
    BY <1>7, <2>1
<1>9. \A i \in 0..Levels : Unit[i] \in X
  <2>1. 0 \in P
    BY <1>1, <1>8
  <2>2. ASSUME NEW i \in P PROVE i + 1 \in P
    <3>1. SUFFICES ASSUME i + 1 <= Levels PROVE Unit[i + 1] \in X
      OBVIOUS
    <3>2. i + 1 \in 1..Levels /\ i <= Levels /\ (i + 1) - 1 = i
      BY <1>1, <3>1
    <3>3. Unit[i] \in X /\ Unit[i + 1] = Unit[i] * Level
      BY <1>8, <3>2
    <3> QED
      BY <1>1, <3>3
  <2>3. P = Nat
    <3>1. P \in SUBSET Nat
      OBVIOUS
    <3> HIDE DEF P
    <3> QED
      BY <2>1, <2>2, <3>1, Induction
  <2> HIDE DEF X
  <2> QED
    BY <1>1, <2>3
<1> QED
  BY <1>7, <1>8, <1>9

-----------------------------------------------------------------------------
(* Division.                                                               *)
LEMMA Division ==
    ASSUME NEW a \in Nat, NEW u \in Nat \ {0}
    PROVE  /\ a \div u \in Nat /\ a % u \in 0..(u - 1)
           /\ a = u * (a \div u) + (a % u)
<1>1. a \div u \in Int /\ a % u \in 0..(u - 1) /\ a = u * (a \div u) + (a % u)
  OBVIOUS
<1>2. PICK q \in Int, r \in 0..(u - 1) : q = a \div u /\ r = a % u /\ a = u * q + r
  BY <1>1, Zenon
<1>3. ~(q <= -1)
  <2>1. SUFFICES ASSUME q <= -1 PROVE FALSE
    OBVIOUS
  <2>2. u * q <= -u
    BY <2>1
  <2> QED
    BY <1>2, <2>2
<1>4. q \in Nat
  BY <1>3
<1> QED
  BY <1>2, <1>4

LEMMA DivisionIs ==
    ASSUME NEW u \in Nat \ {0}, NEW a \in Nat, NEW q \in Nat, NEW r \in 0..(u - 1),
           a = u * q + r
    PROVE  a \div u = q /\ a % u = r
<1>1. PICK p \in Nat : p = a \div u
  BY Division
<1>2. PICK s \in 0..(u - 1) : s = a % u
  BY Division
<1>3. a = u * p + s
  BY Division, <1>1, <1>2
<1>4. u * (q - p) = s - r
  BY <1>3
<1>5. ~(q - p >= 1)
  <2>1. SUFFICES ASSUME q - p >= 1 PROVE FALSE
    OBVIOUS
  <2>2. u * (q - p) >= u
    BY <2>1
  <2> QED
    BY <1>4, <2>2
<1>6. ~(q - p <= -1)
  <2>1. SUFFICES ASSUME q - p <= -1 PROVE FALSE
    OBVIOUS
  <2>2. u * (q - p) <= -u
    BY <2>1
  <2> QED
    BY <1>4, <2>2
<1>7. q = p
  BY <1>5, <1>6
<1> QED
  BY <1>1, <1>2, <1>3, <1>7

LEMMA DivisionGrows ==
    ASSUME NEW u \in Nat \ {0}, NEW a \in Nat, NEW b \in Nat, a <= b
    PROVE  a \div u <= b \div u
<1>1. PICK p \in Nat, s \in 0..(u - 1) : p = a \div u /\ s = a % u /\ a = u * p + s
  BY Division
<1>2. PICK q \in Nat, r \in 0..(u - 1) : q = b \div u /\ r = b % u /\ b = u * q + r
  BY Division
<1>3. ~(q - p <= -1)
  <2>1. SUFFICES ASSUME q - p <= -1 PROVE FALSE
    OBVIOUS
  <2>2. u * (q - p) <= -u
    BY <2>1
  <2>3. u * (q - p) = u * q - u * p
    OBVIOUS
  <2> QED
    BY <1>1, <1>2, <2>2, <2>3
<1> QED
  BY <1>1, <1>2, <1>3

(* The quotient by a multiple is the quotient of the quotient.             *)
LEMMA DivisionTwice ==
    ASSUME NEW u \in Nat \ {0}, NEW v \in Nat \ {0}, NEW a \in Nat
    PROVE  a \div (u * v) = (a \div u) \div v
<1>1. PICK p \in Nat, s \in 0..(u - 1) : p = a \div u /\ a = u * p + s
  BY Division
<1>2. PICK q \in Nat, r \in 0..(v - 1) : q = p \div v /\ p = v * q + r
  BY Division
<1>3. u * v \in Nat \ {0}
  OBVIOUS
<1>4. a = (u * v) * q + (u * r + s)
  <2>1. u * p = u * (v * q) + u * r
    BY <1>2
  <2>2. u * (v * q) = (u * v) * q
    OBVIOUS
  <2> QED
    BY <1>1, <2>1, <2>2
<1>5. u * r + s \in 0..(u * v - 1)
  <2>1. r + 1 <= v /\ r \in Nat /\ s \in Nat /\ s <= u - 1
    BY <1>1, <1>2
  <2>2. u * (r + 1) <= u * v /\ u * (r + 1) = u * r + u /\ u * r \in Nat
    BY <2>1
  <2> QED
    BY <2>1, <2>2
<1>6. a \div (u * v) = q
  BY <1>3, <1>4, <1>5, DivisionIs
<1> QED
  BY <1>1, <1>2, <1>6

(* A block ends where the next one begins.                                 *)
LEMMA NextBlock ==
    ASSUME NEW u \in Nat \ {0}, NEW a \in Nat, (a + 1) \div u # a \div u
    PROVE  (a + 1) % u = 0
<1>1. PICK p \in Nat, s \in 0..(u - 1) : p = a \div u /\ a = u * p + s
  BY Division
<1>2. CASE s = u - 1
  <2>1. a + 1 = u * (p + 1) + 0 /\ 0 \in 0..(u - 1) /\ a + 1 \in Nat /\ p + 1 \in Nat
    BY <1>1, <1>2
  <2> QED
    BY <2>1, DivisionIs
<1>3. CASE s # u - 1
  <2>1. a + 1 = u * p + (s + 1) /\ s + 1 \in 0..(u - 1) /\ a + 1 \in Nat
    BY <1>1, <1>3
  <2>2. (a + 1) \div u = p
    BY <2>1, DivisionIs
  <2> QED
    BY <1>1, <2>2
<1> QED
  BY <1>2, <1>3

LEMMA MultipleOf ==
    ASSUME NEW u \in Nat \ {0}, NEW v \in Nat \ {0}, NEW a \in Nat,
           a % u = 0, (a \div u) % v = 0
    PROVE  a % (u * v) = 0
<1>1. PICK p \in Nat : p = a \div u /\ a = u * p + 0
  BY Division
<1>2. PICK q \in Nat : p = v * q + 0
  <2>1. p % v = 0 /\ p = v * (p \div v) + (p % v) /\ p \div v \in Nat
    BY <1>1, Division
  <2> QED
    BY <2>1
<1>3. a = (u * v) * q + 0 /\ u * v \in Nat \ {0} /\ 0 \in 0..(u * v - 1)
  <2>1. u * (v * q) = (u * v) * q
    OBVIOUS
  <2>2. u * v \in Nat \ {0}
    OBVIOUS
  <2> QED
    BY <1>1, <1>2, <2>1, <2>2
<1> QED
  BY <1>3, DivisionIs

-----------------------------------------------------------------------------
(* Blocks: the times with a common slot of a level.                        *)
Clock == 0..(Modulus - 1)

LEMMA Sizes ==
    /\ Levels \in Nat \ {0} /\ Modulus \in Nat \ {0} /\ Level \in Nat \ {0, 1}
    /\ Near = Unit[0] /\ Modulus = Unit[Levels]
    /\ \A i \in 0..Levels : Unit[i] \in Nat \ {0}
    /\ \A i \in 0..(Levels - 1) :
          i + 1 \in 0..Levels /\ i \in 0..Levels /\ Unit[i + 1] = Unit[i] * Level
<1>1. Levels \in Nat \ {0} /\ Level \in Nat \ {0, 1}
  BY WheelAssumption
<1>2. \A i \in 0..Levels : Unit[i] \in Nat \ {0}
  BY Units
<1>3. Levels \in 0..Levels
  BY <1>1
<1>4. ASSUME NEW i \in 0..(Levels - 1)
      PROVE  i + 1 \in 0..Levels /\ i \in 0..Levels /\ Unit[i + 1] = Unit[i] * Level
  <2>1. i + 1 \in 1..Levels /\ (i + 1) - 1 = i
    BY <1>1
  <2> QED
    BY <1>1, <2>1, Units
<1> QED
  BY <1>1, <1>2, <1>3, <1>4, Units DEF Modulus

LEMMA CoarserBy1 ==
    ASSUME NEW a \in Nat, NEW b \in Nat, NEW i \in 0..(Levels - 1), SameBlock(a, b, i)
    PROVE  SameBlock(a, b, i + 1)
<1>1. Unit[i] \in Nat \ {0} /\ Unit[i + 1] = Unit[i] * Level /\ Level \in Nat \ {0}
  BY Sizes
<1>2. a \div (Unit[i] * Level) = (a \div Unit[i]) \div Level
  BY <1>1, DivisionTwice
<1>3. b \div (Unit[i] * Level) = (b \div Unit[i]) \div Level
  BY <1>1, DivisionTwice
<1> QED
  BY <1>1, <1>2, <1>3 DEF SameBlock

LEMMA Coarser ==
    ASSUME NEW a \in Nat, NEW b \in Nat, NEW i \in 0..Levels, NEW j \in 0..Levels, i <= j,
           SameBlock(a, b, i)
    PROVE  SameBlock(a, b, j)
<1> DEFINE P == {n \in Nat : i + n <= Levels => SameBlock(a, b, i + n)}
<1>1. Levels \in Nat /\ i \in Nat
  BY Sizes
<1>2. 0 \in P
  BY <1>1
<1>3. ASSUME NEW n \in P PROVE n + 1 \in P
  <2>1. SUFFICES ASSUME i + (n + 1) <= Levels PROVE SameBlock(a, b, i + (n + 1))
    OBVIOUS
  <2>2. n \in Nat /\ i + n \in 0..(Levels - 1) /\ (i + n) + 1 = i + (n + 1) /\ i + n <= Levels
    BY <1>1, <2>1
  <2>3. SameBlock(a, b, i + n)
    BY <2>2
  <2>4. SameBlock(a, b, (i + n) + 1)
    BY <2>2, <2>3, CoarserBy1
  <2> QED
    BY <2>2, <2>4
<1>4. P = Nat
  <2>1. P \in SUBSET Nat
    OBVIOUS
  <2> HIDE DEF P
  <2> QED
    BY <1>2, <1>3, <2>1, Induction
<1>5. j - i \in Nat /\ i + (j - i) = j /\ j <= Levels
  BY <1>1
<1> QED
  BY <1>4, <1>5

LEMMA Top == ASSUME NEW a \in Clock, NEW b \in Clock PROVE SameBlock(a, b, Levels)
<1>1. \A c \in Clock : c \div Unit[Levels] = 0
  <2> SUFFICES ASSUME NEW c \in Clock PROVE c \div Modulus = 0
    BY Sizes
  <2>1. c \in Nat /\ Modulus \in Nat \ {0} /\ c \in 0..(Modulus - 1) /\ c = Modulus * 0 + c
    BY Sizes DEF Clock
  <2> QED
    BY <2>1, DivisionIs
<1> QED
  BY <1>1 DEF SameBlock

(* Times of a block are less than its size apart, and a block below the    *)
(* top is at most half the clock.                                          *)
LEMMA Apart ==
    ASSUME NEW a \in Nat, NEW b \in Nat, NEW i \in 0..Levels, SameBlock(a, b, i)
    PROVE  a - b < Unit[i]
<1>1. \A u \in Nat \ {0} : a \div u = b \div u => a - b < u
  <2> SUFFICES ASSUME NEW u \in Nat \ {0}, a \div u = b \div u PROVE a - b < u
    OBVIOUS
  <2>1. PICK p \in Nat, s \in 0..(u - 1) : p = a \div u /\ a = u * p + s
    BY Division
  <2>2. PICK q \in Nat, r \in 0..(u - 1) : q = b \div u /\ b = u * q + r
    BY Division
  <2>3. p = q
    BY <2>1, <2>2
  <2> QED
    BY <2>1, <2>2, <2>3
<1>2. Unit[i] \in Nat \ {0}
  BY Sizes
<1> QED
  BY <1>1, <1>2 DEF SameBlock

LEMMA Half == ASSUME NEW i \in 0..(Levels - 1) PROVE Unit[i] <= Modulus \div 2
<1> DEFINE P == {n \in Nat : i + 1 + n <= Levels => 2 * Unit[i] <= Unit[i + 1 + n]}
<1>1. Levels \in Nat /\ i \in Nat /\ Unit[i] \in Nat \ {0} /\ Level \in Nat \ {0, 1}
  BY Sizes
<1>2. 0 \in P
  <2>1. \A u \in Nat, v \in Nat \ {0, 1} : 2 * u <= u * v
    OBVIOUS
  <2>2. Unit[i + 1] = Unit[i] * Level /\ i + 1 + 0 = i + 1
    BY <1>1, Sizes
  <2> QED
    BY <1>1, <2>1, <2>2
<1>3. ASSUME NEW n \in P PROVE n + 1 \in P
  <2>1. SUFFICES ASSUME i + 1 + (n + 1) <= Levels PROVE 2 * Unit[i] <= Unit[i + 1 + (n + 1)]
    OBVIOUS
  <2> PICK m \in Nat : m = i + 1 + n
    BY <1>1
  <2>2. m \in 0..(Levels - 1) /\ m + 1 = i + 1 + (n + 1) /\ m <= Levels
    BY <1>1, <2>1
  <2>3. 2 * Unit[i] <= Unit[m]
    BY <2>2
  <2>4. Unit[m] \in Nat \ {0} /\ Unit[m + 1] = Unit[m] * Level
    BY <2>2, Sizes
  <2>5. \A u \in Nat, v \in Nat \ {0, 1} : u <= u * v
    OBVIOUS
  <2>6. Unit[m] <= Unit[m + 1]
    BY <1>1, <2>4, <2>5
  <2>7. \A x, y, z \in Nat : x <= y /\ y <= z => x <= z
    OBVIOUS
  <2>8. Unit[m + 1] \in Nat /\ 2 * Unit[i] \in Nat
    BY <1>1, <2>2, Sizes
  <2>9. 2 * Unit[i] <= Unit[m + 1]
    BY <2>3, <2>4, <2>6, <2>7, <2>8
  <2> QED
    BY <2>2, <2>9
<1>4. P = Nat
  <2>1. P \in SUBSET Nat
    OBVIOUS
  <2> HIDE DEF P
  <2> QED
    BY <1>2, <1>3, <2>1, Induction
<1>5. Levels - (i + 1) \in Nat /\ i + 1 + (Levels - (i + 1)) = Levels
  BY <1>1
<1>6. 2 * Unit[i] <= Modulus
  <2>1. \A n \in Nat : i + 1 + n <= Levels => 2 * Unit[i] <= Unit[i + 1 + n]
    BY <1>4
  <2>2. i + 1 + (Levels - (i + 1)) <= Levels
    BY <1>1, <1>5
  <2>3. 2 * Unit[i] <= Unit[i + 1 + (Levels - (i + 1))]
    BY <1>5, <2>1, <2>2
  <2> QED
    BY <1>5, <2>3, Sizes
<1>7. \A u, m \in Nat : 2 * u <= m => u <= m \div 2
  OBVIOUS
<1>8. Modulus \in Nat /\ Unit[i] \in Nat
  BY <1>1, Sizes
<1> QED
  BY <1>6, <1>7, <1>8

-----------------------------------------------------------------------------
(* The slot of a node.                                                     *)
LEMMA SlotNear ==
    ASSUME NEW e, NEW now, SameBlock(e, now, 0)
    PROVE  Slot(e, now) = <<0, e % Near>>
BY DEF Slot

LEMMA SlotFar ==
    ASSUME NEW e \in Clock, NEW now \in Clock, NEW k \in 0..(Levels - 1),
           SameBlock(e, now, k + 1), ~SameBlock(e, now, k)
    PROVE  Slot(e, now) = <<k + 1, (e \div Unit[k]) % Level>>
<1> DEFINE Is(i) == /\ i = Levels - 1 \/ SameBlock(e, now, i + 1)
                    /\ \A j \in 0..(i - 1) : ~SameBlock(e, now, j + 1)
<1>1. Levels \in Nat \ {0} /\ e \in Nat /\ now \in Nat
  BY Sizes DEF Clock
<1>2. Is(k)
  <2>1. ASSUME NEW j \in 0..(k - 1), SameBlock(e, now, j + 1) PROVE FALSE
    <3>1. j + 1 \in 0..Levels /\ k \in 0..Levels /\ j + 1 <= k
      BY <1>1
    <3> QED
      BY <1>1, <2>1, <3>1, Coarser
  <2> QED
    BY <2>1
<1>3. ASSUME NEW i \in 0..(Levels - 1), Is(i) PROVE i = k
  <2>1. ~(i < k)
    <3>1. SUFFICES ASSUME i < k PROVE FALSE
      OBVIOUS
    <3>2. i # Levels - 1 /\ i + 1 \in 0..Levels /\ k \in 0..Levels /\ i + 1 <= k
      BY <1>1, <3>1
    <3> QED
      BY <1>1, <1>3, <3>2, Coarser
  <2>2. ~(i > k)
    <3>1. SUFFICES ASSUME i > k PROVE FALSE
      OBVIOUS
    <3>2. k \in 0..(i - 1)
      BY <1>1, <3>1
    <3> QED
      BY <1>3, <3>2
  <2> QED
    BY <2>1, <2>2
<1>4. (CHOOSE i \in 0..(Levels - 1) : Is(i)) = k
  <2> HIDE DEF Is
  <2> QED
    BY <1>2, <1>3
<1>5. ~SameBlock(e, now, 0)
  <2>1. 0 \in 0..Levels /\ k \in 0..Levels /\ 0 <= k
    BY <1>1
  <2> QED
    BY <1>1, <2>1, Coarser
<1>6. Slot(e, now) = LET i == CHOOSE i \in 0..(Levels - 1) : Is(i)
                     IN <<i + 1, (e \div Unit[i]) % Level>>
  BY <1>5 DEF Slot
<1> QED
  BY <1>4, <1>6

(* Some level is the lowest with a common unit.                            *)
LEMMA LevelExists ==
    ASSUME NEW e \in Clock, NEW now \in Clock, ~SameBlock(e, now, 0)
    PROVE  \E k \in 0..(Levels - 1) : SameBlock(e, now, k + 1) /\ ~SameBlock(e, now, k)
<1> SUFFICES ASSUME \A k \in 0..(Levels - 1) : SameBlock(e, now, k + 1) => SameBlock(e, now, k)
             PROVE  FALSE
  OBVIOUS
<1> DEFINE P == {k \in Nat : k <= Levels => ~SameBlock(e, now, k)}
<1>1. Levels \in Nat
  BY Sizes
<1>2. 0 \in P
  OBVIOUS
<1>3. ASSUME NEW k \in P PROVE k + 1 \in P
  <2>1. SUFFICES ASSUME k + 1 <= Levels PROVE ~SameBlock(e, now, k + 1)
    OBVIOUS
  <2>2. k \in 0..(Levels - 1) /\ k <= Levels
    BY <1>1, <2>1
  <2> QED
    BY <2>2
<1>4. P = Nat
  <2>1. P \in SUBSET Nat
    OBVIOUS
  <2> HIDE DEF P
  <2> QED
    BY <1>2, <1>3, <2>1, Induction
<1>5. ~SameBlock(e, now, Levels)
  BY <1>1, <1>4
<1> QED
  BY <1>5, Top

LEMMA SlotType == ASSUME NEW e \in Clock, NEW now \in Clock PROVE Slot(e, now) \in Slots
<1>1. e \in Nat /\ Near \in Nat \ {0} /\ Level \in Nat \ {0}
  BY WheelAssumption DEF Clock
<1>2. CASE SameBlock(e, now, 0)
  <2>1. e % Near \in 0..(Near - 1)
    BY <1>1, Division
  <2> QED
    BY <1>2, <2>1, SlotNear DEF Slots
<1>3. CASE ~SameBlock(e, now, 0)
  <2>1. PICK k \in 0..(Levels - 1) : SameBlock(e, now, k + 1) /\ ~SameBlock(e, now, k)
    BY <1>3, LevelExists
  <2>2. Slot(e, now) = <<k + 1, (e \div Unit[k]) % Level>>
    BY <2>1, SlotFar
  <2>3. Unit[k] \in Nat \ {0} /\ k + 1 \in 1..Levels
    BY Sizes
  <2>4. (e \div Unit[k]) % Level \in 0..(Level - 1)
    BY <1>1, <2>3, Division
  <2> QED
    BY <2>2, <2>3, <2>4 DEF Slots
<1> QED
  BY <1>2, <1>3

(* The slot of the present tick has the nodes of this tick and no other.   *)
LEMMA SlotOfNow ==
    ASSUME NEW e \in Clock, NEW now \in Clock
    PROVE  (Slot(e, now) = <<0, now % Near>>) <=> (e = now)
<1>1. e \in Nat /\ now \in Nat /\ Near \in Nat \ {0} /\ Near = Unit[0]
  BY WheelAssumption, Sizes DEF Clock
<1>2. ASSUME e = now PROVE Slot(e, now) = <<0, now % Near>>
  BY <1>2, SlotNear DEF SameBlock
<1>3. ASSUME Slot(e, now) = <<0, now % Near>> PROVE e = now
  <2>1. SameBlock(e, now, 0)
    <3>1. SUFFICES ASSUME ~SameBlock(e, now, 0) PROVE FALSE
      OBVIOUS
    <3>2. PICK k \in 0..(Levels - 1) : SameBlock(e, now, k + 1) /\ ~SameBlock(e, now, k)
      BY <3>1, LevelExists
    <3>3. Slot(e, now) = <<k + 1, (e \div Unit[k]) % Level>>
      BY <3>2, SlotFar
    <3>4. k + 1 # 0
      OBVIOUS
    <3> QED
      BY <1>3, <3>3, <3>4
  <2>2. e % Near = now % Near /\ e \div Near = now \div Near
    BY <1>1, <1>3, <2>1, SlotNear DEF SameBlock
  <2>3. e = Near * (e \div Near) + (e % Near) /\ now = Near * (now \div Near) + (now % Near)
    BY <1>1, Division
  <2> QED
    BY <2>2, <2>3
<1> QED
  BY <1>2, <1>3

-----------------------------------------------------------------------------
(* What timer_shift moves down.                                            *)
LEMMA Divides ==
    ASSUME NEW a \in Nat, NEW i \in 0..(Levels - 1), NEW j \in 0..Levels, i < j,
           a % Unit[j] = 0
    PROVE  Index(a, i) = 0
<1> DEFINE P == {n \in Nat : n <= j - (i + 1) => a % Unit[j - n] = 0}
<1>1. Levels \in Nat /\ i \in Nat /\ j \in Nat /\ Level \in Nat \ {0} /\ Unit[i] \in Nat \ {0}
  BY Sizes
<1>2. \A u, v \in Nat \ {0} : a % (u * v) = 0 => a % u = 0 /\ (a \div u) % v = 0
  <2> SUFFICES ASSUME NEW u \in Nat \ {0}, NEW v \in Nat \ {0}, a % (u * v) = 0
               PROVE  a % u = 0 /\ (a \div u) % v = 0
    OBVIOUS
  <2>1. u * v \in Nat \ {0}
    OBVIOUS
  <2>2. PICK q \in Nat : a = (u * v) * q + 0
    BY <2>1, Division
  <2>3. PICK p \in Nat : p = v * q /\ a = u * p + 0
    <3>1. (u * v) * q = u * (v * q) /\ v * q \in Nat
      OBVIOUS
    <3> QED
      BY <2>2, <3>1
  <2>4. a \div u = p /\ a % u = 0
    BY <2>3, DivisionIs, SMTT(60)
  <2>5. p % v = 0
    BY <2>3, DivisionIs
  <2> QED
    BY <2>4, <2>5
<1>3. 0 \in P
  BY <1>1
<1>4. ASSUME NEW n \in P PROVE n + 1 \in P
  <2>1. SUFFICES ASSUME n + 1 <= j - (i + 1) PROVE a % Unit[j - (n + 1)] = 0
    OBVIOUS
  <2>2. PICK m \in 0..(Levels - 1) : m = j - (n + 1) /\ m + 1 = j - n
    BY <1>1, <2>1
  <2>3. a % Unit[m + 1] = 0
    BY <1>1, <2>1, <2>2
  <2>4. Unit[m] \in Nat \ {0} /\ Unit[m + 1] = Unit[m] * Level
    BY Sizes
  <2> QED
    BY <1>1, <1>2, <2>2, <2>3, <2>4
<1>5. P = Nat
  <2>1. P \in SUBSET Nat
    OBVIOUS
  <2> HIDE DEF P
  <2> QED
    BY <1>3, <1>4, <2>1, Induction
<1>6. a % Unit[i + 1] = 0
  <2>1. PICK n \in Nat : n = j - (i + 1) /\ j - n = i + 1
    BY <1>1
  <2>2. n \in P
    BY <1>5, <2>1
  <2>3. n <= j - (i + 1)
    BY <1>1, <2>1
  <2>4. a % Unit[j - n] = 0
    BY <2>2, <2>3
  <2> QED
    BY <2>1, <2>4
<1>7. Unit[i + 1] = Unit[i] * Level
  BY Sizes
<1> QED
  BY <1>1, <1>2, <1>6, <1>7 DEF Index

LEMMA CascadeIs ==
    ASSUME NEW now \in Clock
    PROVE  /\ Cascade(now) \subseteq Slots
           /\ \A c, d \in Cascade(now) : c = d
           /\ \A c \in Cascade(now) : c[1] # 0
<1>1. now \in Nat /\ Levels \in Nat \ {0} /\ Level \in Nat \ {0}
  BY Sizes DEF Clock
<1>2. CASE now = 0
  <2>1. Cascade(now) = {<<Levels, 0>>}
    BY <1>2 DEF Cascade
  <2>2. Levels \in 1..Levels /\ 0 \in 0..(Level - 1) /\ Levels # 0
    BY <1>1
  <2>3. <<Levels, 0>> \in Slots /\ <<Levels, 0>>[1] # 0
    BY <2>2 DEF Slots
  <2> QED
    BY <2>1, <2>3
<1>3. CASE now # 0
  <2>1. \A c \in Cascade(now) : c \in Slots /\ \E i \in 0..(Levels - 1) :
            c = <<i + 1, Index(now, i)>> /\ Index(now, i) # 0 /\ now % Unit[i] = 0
    BY <1>3 DEF Cascade
  <2>2. ASSUME NEW i \in 0..(Levels - 1), NEW k \in 0..(Levels - 1),
               Index(now, i) # 0, now % Unit[i] = 0, Index(now, k) # 0, now % Unit[k] = 0
        PROVE  i = k
    <3>1. i \in 0..Levels /\ k \in 0..Levels
      BY Sizes
    <3>2. ~(i < k)
      BY <1>1, <2>2, <3>1, Divides
    <3>3. ~(k < i)
      BY <1>1, <2>2, <3>1, Divides
    <3> QED
      BY <3>2, <3>3
  <2>3. ASSUME NEW c \in Cascade(now), NEW d \in Cascade(now) PROVE c = d
    <3>1. PICK i \in 0..(Levels - 1) :
              c = <<i + 1, Index(now, i)>> /\ Index(now, i) # 0 /\ now % Unit[i] = 0
      BY <2>1
    <3>2. PICK k \in 0..(Levels - 1) :
              d = <<k + 1, Index(now, k)>> /\ Index(now, k) # 0 /\ now % Unit[k] = 0
      BY <2>1
    <3>3. i = k
      BY <2>2, <3>1, <3>2
    <3> QED
      BY <3>1, <3>2, <3>3
  <2>4. ASSUME NEW c \in Cascade(now) PROVE c[1] # 0
    <3>1. PICK i \in 0..(Levels - 1) : c = <<i + 1, Index(now, i)>>
      BY <2>1
    <3>2. i + 1 # 0
      OBVIOUS
    <3> QED
      BY <3>1, <3>2
  <2> QED
    BY <2>1, <2>3, <2>4
<1> QED
  BY <1>2, <1>3

LEMMA Ahead ==
    ASSUME NEW t \in Clock, NEW r \in Nat, r < Modulus
    PROVE  /\ (t + r) % Modulus \in Clock
           /\ (t + r) % Modulus = IF t + r < Modulus THEN t + r ELSE t + r - Modulus
<1>1. Modulus \in Nat \ {0} /\ t \in Nat /\ t < Modulus /\ t + r \in Nat
  BY Sizes DEF Clock
<1>2. CASE t + r < Modulus
  <2>1. t + r \in 0..(Modulus - 1) /\ t + r = Modulus * 0 + (t + r)
    BY <1>1, <1>2
  <2> QED
    BY <1>1, <1>2, <2>1, DivisionIs DEF Clock
<1>3. CASE ~(t + r < Modulus)
  <2>1. t + r - Modulus \in 0..(Modulus - 1) /\ t + r = Modulus * 1 + (t + r - Modulus)
    BY <1>1, <1>3
  <2>2. (t + r) % Modulus = t + r - Modulus
    BY <1>1, <2>1, DivisionIs
  <2> QED
    BY <1>3, <2>1, <2>2 DEF Clock
<1> QED
  BY <1>2, <1>3

(* A step of the clock takes a node to another slot only when timer_shift  *)
(* moves its slot down.                                                    *)
LEMMA Stays ==
    ASSUME NEW t \in Clock, NEW r \in Nat, 0 < r, r < Modulus \div 2,
           NEW e, e = (t + r) % Modulus,
           NEW now, now = (t + 1) % Modulus,
           Slot(e, t) \notin Cascade(now)
    PROVE  Slot(e, now) = Slot(e, t)
<1>1. Modulus \in Nat \ {0} /\ r < Modulus /\ 1 < Modulus /\ t \in Nat /\ t < Modulus
      /\ Modulus \div 2 + Modulus \div 2 <= Modulus /\ Modulus \div 2 \in Nat
      /\ Levels \in Nat \ {0} /\ Level \in Nat \ {0}
  BY Sizes DEF Clock
<1>2. /\ e \in Clock /\ e = IF t + r < Modulus THEN t + r ELSE t + r - Modulus
      /\ now \in Clock /\ now = IF t + 1 < Modulus THEN t + 1 ELSE t + 1 - Modulus
  BY <1>1, Ahead
<1>3. e \in Nat /\ now \in Nat /\ e < Modulus /\ now < Modulus
  BY <1>1, <1>2 DEF Clock
(* Below the top a block does not hold times of two turns of the clock.    *)
<1>4. ASSUME NEW i \in 0..(Levels - 1), SameBlock(e, t, i) PROVE t < e
  <2>1. i \in 0..Levels /\ Unit[i] <= Modulus \div 2 /\ Unit[i] \in Nat
    BY Half, Sizes
  <2>2. SameBlock(t, e, i)
    BY <1>4 DEF SameBlock
  <2>3. t - e < Unit[i]
    BY <1>1, <1>3, <2>1, <2>2, Apart
  <2> QED
    BY <1>1, <1>2, <2>1, <2>3
(* The present tick is between t and e unless the clock turns.             *)
<1>5. ASSUME t < e PROVE now = t + 1 /\ now <= e
  BY <1>1, <1>2, <1>3, <1>5
<1>6. ASSUME NEW i \in 0..Levels, SameBlock(e, t, i), t < e PROVE SameBlock(e, now, i)
  <2>1. Unit[i] \in Nat \ {0}
    BY Sizes
  <2>2. t \div Unit[i] <= now \div Unit[i] /\ now \div Unit[i] <= e \div Unit[i]
    <3>1. t <= now /\ now <= e
      BY <1>1, <1>3, <1>5, <1>6
    <3>2. t \div Unit[i] <= now \div Unit[i]
      BY <1>1, <1>3, <2>1, <3>1, DivisionGrows
    <3>3. now \div Unit[i] <= e \div Unit[i]
      BY <1>3, <2>1, <3>1, DivisionGrows
    <3> QED
      BY <3>2, <3>3
  <2>3. t \div Unit[i] \in Nat /\ now \div Unit[i] \in Nat /\ e \div Unit[i] \in Nat
    BY <1>1, <1>3, <2>1, Division
  <2>4. e \div Unit[i] = t \div Unit[i]
    BY <1>6 DEF SameBlock
  <2>5. e \div Unit[i] = now \div Unit[i]
    BY <2>2, <2>3, <2>4
  <2> QED
    BY <2>5 DEF SameBlock
<1>7. CASE SameBlock(e, t, 0)
  <2>1. 0 \in 0..(Levels - 1) /\ 0 \in 0..Levels
    BY <1>1
  <2>2. SameBlock(e, now, 0)
    BY <1>4, <1>6, <1>7, <2>1
  <2> QED
    BY <1>7, <2>2, SlotNear
<1>8. CASE ~SameBlock(e, t, 0)
  <2>1. PICK k \in 0..(Levels - 1) : SameBlock(e, t, k + 1) /\ ~SameBlock(e, t, k)
    BY <1>2, <1>8, LevelExists
  <2>2. Slot(e, t) = <<k + 1, (e \div Unit[k]) % Level>>
    BY <1>2, <2>1, SlotFar
  <2>3. /\ k \in Nat /\ k \in 0..Levels /\ k + 1 \in 0..Levels /\ Unit[k] \in Nat \ {0}
        /\ Unit[k + 1] \in Nat \ {0} /\ Unit[k + 1] = Unit[k] * Level
    BY Sizes
  <2>4. SUFFICES SameBlock(e, now, k + 1) /\ ~SameBlock(e, now, k)
    BY <1>2, <2>2, SlotFar
  <2> PICK u \in Nat \ {0} : u = Unit[k]
    BY <2>3
  <2>5. /\ e \div Unit[k] \in Nat /\ now \div Unit[k] \in Nat /\ t \div Unit[k] \in Nat
        /\ e \div Unit[k] # t \div Unit[k]
    BY <1>1, <1>3, <2>1, <2>3, Division DEF SameBlock
  <2>6. CASE t < e
    <3>1. SameBlock(e, now, k + 1)
      BY <1>6, <2>1, <2>3, <2>6
    <3>2. SUFFICES ASSUME SameBlock(e, now, k) PROVE FALSE
      BY <3>1
    <3>3. now % Unit[k] = 0
      <4>1. now \div Unit[k] # t \div Unit[k]
        BY <2>5, <3>2 DEF SameBlock
      <4>2. \A v \in Nat \ {0} : (t + 1) \div v # t \div v => (t + 1) % v = 0
        BY <1>1, NextBlock
      <4> QED
        BY <1>5, <2>3, <2>6, <4>1, <4>2
    <3>4. Index(now, k) # 0
      <4>1. SUFFICES ASSUME (now \div Unit[k]) % Level = 0 PROVE FALSE
        BY DEF Index
      <4>2. now % Unit[k + 1] = 0
        <5>1. now % (Unit[k] * Level) = 0
          BY <1>1, <1>3, <2>3, <3>3, <4>1, MultipleOf
        <5> QED
          BY <2>3, <5>1
      <4>3. now \div Unit[k + 1] = t \div Unit[k + 1]
        BY <2>1, <3>1 DEF SameBlock
      <4>4. now = Unit[k + 1] * (now \div Unit[k + 1]) + (now % Unit[k + 1])
        BY <1>3, <2>3, Division
      <4>5. t = Unit[k + 1] * (t \div Unit[k + 1]) + (t % Unit[k + 1]) /\ t % Unit[k + 1] \in Nat
        <5>1. t % Unit[k + 1] \in 0..(Unit[k + 1] - 1)
          BY <1>1, <2>3, Division
        <5>2. \A v \in Nat : 0..(v - 1) \subseteq Nat
          OBVIOUS
        <5> QED
          BY <1>1, <2>3, <5>1, <5>2, Division
      <4>6. now <= t
        <5>1. \A c, d, x, y \in Nat : c = x + 0 /\ d = x + y => c <= d
          OBVIOUS
        <5>2. Unit[k + 1] * (t \div Unit[k + 1]) \in Nat
          <6>1. t \div Unit[k + 1] \in Nat
            BY <1>1, <2>3, Division
          <6>2. \A x, y \in Nat : x * y \in Nat
            OBVIOUS
          <6> QED
            BY <2>3, <6>1, <6>2
        <5> QED
          BY <1>1, <1>3, <4>2, <4>3, <4>4, <4>5, <5>1, <5>2
      <4> QED
        BY <1>1, <1>5, <2>6, <4>6
    <3>5. Index(now, k) = (e \div Unit[k]) % Level
      BY <3>2 DEF Index, SameBlock
    <3>6. now # 0
      BY <1>1, <1>5, <2>6
    <3>7. Slot(e, t) \in Cascade(now)
      <4>1. Slot(e, t) = <<k + 1, Index(now, k)>>
        BY <2>2, <3>5
      <4>2. Slot(e, t) \in Slots
        BY <1>2, SlotType
      <4> QED
        BY <3>3, <3>4, <3>6, <4>1, <4>2 DEF Cascade
    <3> QED
      BY <3>7
  <2>7. CASE ~(t < e)
    <3>1. e < t
      BY <1>1, <1>2, <1>3, <2>7
    <3>2. k = Levels - 1
      <4>1. SUFFICES ASSUME k # Levels - 1 PROVE FALSE
        OBVIOUS
      <4>2. k + 1 \in 0..(Levels - 1)
        BY <1>1, <4>1
      <4> QED
        BY <1>4, <2>1, <2>7, <4>2
    <3>3. SameBlock(e, now, k + 1)
      BY <1>1, <1>2, <3>2, Top
    <3>4. SUFFICES ASSUME SameBlock(e, now, k) PROVE FALSE
      BY <3>3
    <3>5. e \div Unit[k] <= t \div Unit[k]
      BY <1>1, <1>3, <2>3, <3>1, DivisionGrows, SMTT(60)
    <3>6. CASE t + 1 < Modulus
      <4>1. now = t + 1 /\ t <= now
        BY <1>1, <1>2, <3>6
      <4>2. t \div Unit[k] <= now \div Unit[k]
        BY <1>1, <1>3, <2>3, <4>1, DivisionGrows
      <4>3. e \div Unit[k] = now \div Unit[k]
        BY <3>4 DEF SameBlock
      <4> QED
        BY <2>5, <3>5, <4>2, <4>3
    <3>7. CASE ~(t + 1 < Modulus)
      <4>1. now = 0
        BY <1>1, <1>2, <3>7
      <4>2. 0 \div Unit[k] = 0 /\ 0 % Level = 0
        <5>1. \A v \in Nat \ {0} : 0 \in 0..(v - 1) /\ 0 = v * 0 + 0
          OBVIOUS
        <5> QED
          BY <1>1, <2>3, <5>1, DivisionIs
      <4>3. e \div Unit[k] = 0
        BY <3>4, <4>1, <4>2 DEF SameBlock
      <4>4. Slot(e, t) = <<Levels, 0>>
        <5>1. k + 1 = Levels
          BY <1>1, <3>2
        <5> QED
          BY <2>2, <4>2, <4>3, <5>1
      <4> QED
        BY <4>1, <4>4 DEF Cascade
    <3> QED
      BY <3>6, <3>7
  <2> QED
    BY <2>6, <2>7
<1> QED
  BY <1>7, <1>8

-----------------------------------------------------------------------------
(* What move_list makes of the wheel.                                      *)
LEMMA HoldsEmpty == Holds(<<>>) = {} /\ Once(<<>>)
BY DEF Holds, Once

LEMMA HoldsAppend ==
    ASSUME NEW S, NEW q \in Seq(S), NEW x \in S
    PROVE  /\ Append(q, x) \in Seq(S)
           /\ Holds(Append(q, x)) = Holds(q) \cup {x}
           /\ Once(q) /\ x \notin Holds(q) => Once(Append(q, x))
<1>1. /\ Append(q, x) \in Seq(S) /\ Len(Append(q, x)) = Len(q) + 1 /\ Len(q) \in Nat
      /\ \A i \in 1..Len(q) : Append(q, x)[i] = q[i]
      /\ Append(q, x)[Len(q) + 1] = x
  BY AppendProperties
<1>2. DOMAIN q = 1..Len(q) /\ DOMAIN Append(q, x) = 1..(Len(q) + 1)
  BY <1>1
<1> PICK p \in Seq(S) : p = Append(q, x)
  BY <1>1
<1>3. \A i : i \in DOMAIN p <=> i \in DOMAIN q \/ i = Len(q) + 1
  BY <1>1, <1>2
<1>4. Len(q) + 1 \notin DOMAIN q
  BY <1>1, <1>2
<1>5. Holds(p) = Holds(q) \cup {x}
  BY <1>1, <1>2, <1>3 DEF Holds
<1>6. ASSUME Once(q), x \notin Holds(q) PROVE Once(p)
  <2> SUFFICES ASSUME NEW i \in DOMAIN p, NEW k \in DOMAIN p, p[i] = p[k] PROVE i = k
    BY DEF Once
  <2>1. CASE i \in DOMAIN q /\ k \in DOMAIN q
    <3>1. p[i] = q[i] /\ p[k] = q[k]
      BY <1>1, <1>2, <2>1
    <3> QED
      BY <1>6, <2>1, <3>1 DEF Once
  <2>2. CASE i = Len(q) + 1 /\ k \in DOMAIN q
    <3>1. p[i] = x /\ p[k] = q[k]
      BY <1>1, <1>2, <2>2
    <3> QED
      BY <1>6, <2>2, <3>1 DEF Holds
  <2>3. CASE i \in DOMAIN q /\ k = Len(q) + 1
    <3>1. p[i] = q[i] /\ p[k] = x
      BY <1>1, <1>2, <2>3
    <3> QED
      BY <1>6, <2>3, <3>1 DEF Holds
  <2> QED
    BY <1>3, <2>1, <2>2, <2>3
<1> QED
  BY <1>1, <1>5, <1>6

Wheels == [Slots -> Seq(Timeouts)]
Leaving(now) == IF Cascade(now) = {} THEN <<>> ELSE wheel[CHOOSE d \in Cascade(now) : TRUE]
Cleared(now) == [s \in Slots |-> IF s \in Cascade(now) THEN <<>> ELSE wheel[s]]
Added(w, id, now) == [w EXCEPT ![Slot(expire[id], now)] = Append(@, id)]
Moves(moved, now) ==
    moved = [n \in 0..Len(Leaving(now)) |->
                IF n = 0 THEN Cleared(now) ELSE Added(moved[n - 1], Leaving(now)[n], now)]

LEMMA LeavingIs ==
    ASSUME TypeOK, NEW now \in Clock
    PROVE  /\ Leaving(now) \in Seq(Timeouts) /\ Cleared(now) \in Wheels
           /\ \A id \in Timeouts : Slot(expire[id], now) \in Slots
           /\ Cascade(now) # {} =>
                  \E d \in Slots : Cascade(now) = {d} /\ Leaving(now) = wheel[d]
           /\ Cascade(now) = {} => Leaving(now) = <<>>
<1>1. wheel \in [Slots -> Seq(Timeouts)] /\ <<>> \in Seq(Timeouts)
  BY DEF TypeOK
<1>2. Cleared(now) \in Wheels
  BY <1>1 DEF Cleared, Wheels
<1>3. ASSUME NEW id \in Timeouts PROVE Slot(expire[id], now) \in Slots
  BY SlotType DEF TypeOK, Clock
<1>4. ASSUME Cascade(now) # {}
      PROVE  \E d \in Slots : Cascade(now) = {d} /\ Leaving(now) = wheel[d]
  <2>1. PICK d \in Cascade(now) : d = CHOOSE c \in Cascade(now) : TRUE
    BY <1>4
  <2>2. d \in Slots /\ Cascade(now) = {d}
    BY CascadeIs
  <2>3. Leaving(now) = wheel[d]
    BY <1>4, <2>1 DEF Leaving
  <2> QED
    BY <2>2, <2>3
<1>5. Cascade(now) = {} => Leaving(now) = <<>>
  BY DEF Leaving
<1>6. Leaving(now) \in Seq(Timeouts)
  BY <1>1, <1>4, <1>5
<1> QED
  BY <1>2, <1>3, <1>4, <1>5, <1>6

LEMMA MovesExist ==
    ASSUME TypeOK, NEW now \in Clock
    PROVE  \E moved : Moves(moved, now)
<1> DEFINE L == Leaving(now)
           N == Len(L)
           F == [n \in 1..N |-> [w \in Wheels |-> Added(w, L[n], now)]]
<1>1. L \in Seq(Timeouts) /\ N \in Nat /\ Cleared(now) \in Wheels
  BY LeavingIs
<1>2. \A n \in 1..N : L[n] \in Timeouts
  BY <1>1
<1>3. ASSUME NEW w \in Wheels, NEW id \in Timeouts PROVE Added(w, id, now) \in Wheels
  <2>1. Slot(expire[id], now) \in Slots
    BY LeavingIs
  <2>2. Append(w[Slot(expire[id], now)], id) \in Seq(Timeouts)
    BY <2>1, HoldsAppend DEF Wheels
  <2> QED
    BY <2>1, <2>2 DEF Added, Wheels
<1>4. F \in [1..N -> [Wheels -> Wheels]]
  <2> HIDE DEF L, N
  <2> QED
    BY <1>2, <1>3
<1>5. PICK f \in [0..N -> Wheels] : Follows(f, N, Cleared(now), F)
  <2> HIDE DEF F, N, L
  <2> QED
    BY <1>1, <1>4, Recursion
<1>6. \A n \in 0..N : f[n] = IF n = 0 THEN Cleared(now) ELSE Added(f[n - 1], L[n], now)
  <2> SUFFICES ASSUME NEW n \in 0..N
               PROVE  f[n] = IF n = 0 THEN Cleared(now) ELSE Added(f[n - 1], L[n], now)
    OBVIOUS
  <2> HIDE DEF L, N
  <2>1. CASE n = 0
    BY <1>5, <2>1 DEF Follows
  <2>2. CASE n # 0
    <3>1. n \in 1..N /\ n - 1 \in 0..N
      BY <1>1, <2>2
    <3>2. f[n] = F[n][f[n - 1]]
      <4> HIDE DEF F
      <4> QED
        BY <1>5, <3>1 DEF Follows
    <3>3. f[n - 1] \in Wheels
      BY <1>5, <3>1
    <3>4. F[n][f[n - 1]] = Added(f[n - 1], L[n], now)
      BY <3>1, <3>3
    <3> HIDE DEF F
    <3> QED
      BY <2>2, <3>2, <3>4
  <2> QED
    BY <2>1, <2>2
<1>7. Moves(f, now)
  <2>1. f = [n \in 0..N |-> f[n]]
    BY <1>5
  <2>2. [n \in 0..N |-> f[n]]
        = [n \in 0..N |-> IF n = 0 THEN Cleared(now) ELSE Added(f[n - 1], L[n], now)]
    <3> HIDE DEF N, L
    <3> QED
      BY <1>6
  <2> QED
    BY <2>1, <2>2 DEF Moves
<1> QED
  BY <1>7

LEMMA ShiftedMoves ==
    ASSUME TypeOK, NEW now \in Clock
    PROVE  \E moved : Moves(moved, now) /\ Shifted(now) = moved[Len(Leaving(now))]
<1> DEFINE m == CHOOSE moved : Moves(moved, now)
<1>1. Moves(m, now)
  BY MovesExist
<1>2. Shifted(now) = m[Len(Leaving(now))]
  BY DEF Shifted, Moves, Leaving, Cleared, Added
<1> QED
  BY <1>1, <1>2

LEMMA Shifts ==
    ASSUME TypeOK, Placed, \A s \in Slots : Once(wheel[s]), NEW now \in Clock
    PROVE  /\ Shifted(now) \in Wheels
           /\ \A s \in Slots : \A id \in Timeouts :
                 id \in Holds(Shifted(now)[s]) <=>
                    \/ s \notin Cascade(now) /\ id \in Holds(wheel[s])
                    \/ id \in Holds(Leaving(now)) /\ Slot(expire[id], now) = s
           /\ \A s \in Slots : Once(Shifted(now)[s])
<1> DEFINE L == Leaving(now)
           N == Len(L)
           Gone(n) == {L[i] : i \in 1..n}
           Right(w, n) ==
              /\ w \in Wheels
              /\ \A s \in Slots : \A id \in Timeouts :
                    id \in Holds(w[s]) <=>
                       \/ s \notin Cascade(now) /\ id \in Holds(wheel[s])
                       \/ id \in Gone(n) /\ Slot(expire[id], now) = s
              /\ \A s \in Slots : Once(w[s])
<1>1. /\ L \in Seq(Timeouts) /\ N \in Nat /\ DOMAIN L = 1..N /\ Cleared(now) \in Wheels
      /\ \A id \in Timeouts : Slot(expire[id], now) \in Slots
  BY LeavingIs
<1>2. Once(L) /\ \A id \in Holds(L) : Slot(expire[id], time) \in Cascade(now)
  <2>1. CASE Cascade(now) = {}
    <3>1. L = <<>>
      BY <2>1, LeavingIs
    <3> HIDE DEF L
    <3> QED
      BY <3>1, HoldsEmpty
  <2>2. CASE Cascade(now) # {}
    <3>1. PICK d \in Slots : Cascade(now) = {d} /\ L = wheel[d]
      BY <2>2, LeavingIs
    <3> HIDE DEF L
    <3> QED
      BY <3>1 DEF Placed
  <2> QED
    BY <2>1, <2>2
<1>3. PICK moved : Moves(moved, now) /\ Shifted(now) = moved[N]
  BY ShiftedMoves
<1>4. /\ moved[0] = Cleared(now)
      /\ \A n \in 1..N : moved[n] = Added(moved[n - 1], L[n], now)
  <2>1. 0 \in 0..N /\ \A n \in 1..N : n \in 0..N /\ n # 0
    BY <1>1
  <2>2. moved = [n \in 0..N |-> IF n = 0 THEN Cleared(now) ELSE Added(moved[n - 1], L[n], now)]
    BY <1>3 DEF Moves
  <2> HIDE DEF L, N
  <2> QED
    BY <2>1, <2>2
<1> HIDE DEF L, N
<1>5. Right(moved[0], 0)
  <2>1. Gone(0) = {}
    OBVIOUS
  <2> HIDE DEF Gone
  <2>2. ASSUME NEW s \in Slots
        PROVE  /\ Once(moved[0][s])
               /\ \A id \in Timeouts : id \in Holds(moved[0][s]) <=>
                                          s \notin Cascade(now) /\ id \in Holds(wheel[s])
    <3>1. moved[0][s] = IF s \in Cascade(now) THEN <<>> ELSE wheel[s]
      BY <1>4 DEF Cleared
    <3> QED
      BY <3>1, HoldsEmpty
  <2> QED
    BY <1>1, <1>4, <2>1, <2>2
<1>6. ASSUME NEW n \in 1..N, Right(moved[n - 1], n - 1) PROVE Right(moved[n], n)
  <2> DEFINE w == moved[n - 1]
             x == L[n]
             c == Slot(expire[x], now)
  <2>1. x \in Timeouts /\ c \in Slots /\ w \in Wheels /\ moved[n] = Added(w, x, now)
        /\ x \in Holds(L)
    <3>1. n \in DOMAIN L
      BY <1>1
    <3>2. x \in Timeouts
      BY <1>1, <3>1, ElementOfSeq
    <3>3. c \in Slots
      BY <1>1, <3>2
    <3>4. w \in Wheels
      BY <1>6
    <3>5. moved[n] = Added(w, x, now)
      BY <1>4
    <3>6. x \in Holds(L)
      BY <3>1 DEF Holds
    <3> HIDE DEF w, x, c
    <3> QED
      BY <3>2, <3>3, <3>4, <3>5, <3>6
  <2>2. \A id : id \in Gone(n) <=> id \in Gone(n - 1) \/ id = x
    <3>1. \A i : i \in 1..n <=> i \in 1..(n - 1) \/ i = n
      BY <1>1
    <3> QED
      BY <3>1
  <2>3. x \notin Gone(n - 1)
    <3> SUFFICES ASSUME NEW i \in 1..(n - 1), L[i] = L[n] PROVE FALSE
      OBVIOUS
    <3>1. i \in DOMAIN L /\ n \in DOMAIN L /\ i # n
      BY <1>1
    <3> QED
      BY <1>2, <3>1 DEF Once
  <2>4. x \notin Holds(w[c])
    <3>1. SUFFICES ASSUME c \notin Cascade(now), x \in Holds(wheel[c]) PROVE FALSE
      BY <1>6, <2>1, <2>3
    <3>2. c = Slot(expire[x], time)
      BY <2>1, <3>1 DEF Placed
    <3> QED
      BY <1>2, <2>1, <3>1, <3>2
  <2> HIDE DEF Gone
  <2>5. w[c] \in Seq(Timeouts)
    BY <2>1 DEF Wheels
  <2>6. /\ Append(w[c], x) \in Seq(Timeouts)
        /\ Holds(Append(w[c], x)) = Holds(w[c]) \cup {x}
        /\ Once(Append(w[c], x))
    BY <1>6, <2>1, <2>4, <2>5, HoldsAppend
  <2>7. \A s \in Slots : moved[n][s] = IF s = c THEN Append(w[c], x) ELSE w[s]
    BY <2>1 DEF Added, Wheels
  <2>8. moved[n] \in Wheels
    BY <2>1, <2>6 DEF Added, Wheels
  <2> HIDE DEF w, c, x
  <2>9. ASSUME NEW s \in Slots
        PROVE  /\ Once(moved[n][s])
               /\ \A id \in Timeouts :
                    id \in Holds(moved[n][s]) <=>
                       \/ s \notin Cascade(now) /\ id \in Holds(wheel[s])
                       \/ id \in Gone(n) /\ Slot(expire[id], now) = s
    <3>1. /\ Once(w[s])
          /\ \A id \in Timeouts :
                    id \in Holds(w[s]) <=>
                       \/ s \notin Cascade(now) /\ id \in Holds(wheel[s])
                       \/ id \in Gone(n - 1) /\ Slot(expire[id], now) = s
      BY <1>6 DEF w
    <3>2. CASE s = c
      <4>1. moved[n][s] = Append(w[c], x)
        BY <2>7, <3>2
      <4>2. Slot(expire[x], now) = s
        BY <3>2 DEF c
      <4> QED
        BY <2>2, <2>6, <3>1, <3>2, <4>1, <4>2
    <3>3. CASE s # c
      <4>1. moved[n][s] = w[s]
        BY <2>7, <3>3
      <4>2. Slot(expire[x], now) # s
        BY <3>3 DEF c
      <4> QED
        BY <2>2, <3>1, <4>1, <4>2
    <3> QED
      BY <3>2, <3>3
  <2> QED
    BY <2>8, <2>9
<1>7. Right(moved[N], N)
  <2> DEFINE P == {n \in Nat : n <= N => Right(moved[n], n)}
  <2> HIDE DEF Right
  <2>1. 0 \in P
    BY <1>5
  <2>2. ASSUME NEW n \in P PROVE n + 1 \in P
    <3>1. SUFFICES ASSUME n + 1 <= N PROVE Right(moved[n + 1], n + 1)
      OBVIOUS
    <3>2. n + 1 \in 1..N /\ (n + 1) - 1 = n /\ n <= N
      BY <1>1, <3>1
    <3>3. Right(moved[(n + 1) - 1], (n + 1) - 1)
      BY <3>2
    <3> QED
      BY <1>6, <3>2, <3>3
  <2>3. P = Nat
    <3>1. P \in SUBSET Nat
      OBVIOUS
    <3> HIDE DEF P
    <3> QED
      BY <2>1, <2>2, <3>1, Induction
  <2> QED
    BY <1>1, <2>3
<1>8. Gone(N) = Holds(Leaving(now))
  BY <1>1 DEF Holds, L
<1> HIDE DEF Gone
<1> QED
  BY <1>3, <1>7, <1>8

-----------------------------------------------------------------------------
(* A tick.                                                                 *)
LEMMA Fitting ==
    /\ Largest \in Nat \ {0} /\ Modulus \in Nat \ {0} /\ Modulus > 2
    /\ Largest < Modulus /\ Modulus \div 2 \in Nat /\ Largest < Modulus \div 2
<1>1. Modulus \in Nat /\ Modulus \div 2 \in Nat /\ Modulus \div 2 >= 2
  <2>1. /\ Near = Unit[0] /\ Near >= 2 /\ 0 \in 0..(Levels - 1)
        /\ Near \in Nat /\ Modulus \in Nat
    BY WheelAssumption, Sizes
  <2>2. Near <= Modulus \div 2
    BY <2>1, Half
  <2> QED
    BY <2>1, <2>2
<1>2. Modulus \div 2 + Modulus \div 2 <= Modulus
  BY <1>1
<1> QED
  BY <1>1, <1>2 DEF Largest

LEMMA Awaited ==
    ASSUME IInv, NEW id \in Timeouts, remaining[id] > 0
    PROVE  /\ remaining[id] \in 1..Largest
           /\ expire[id] \in Clock /\ time \in Clock
           /\ expire[id] = (time + remaining[id]) % Modulus
           /\ Slot(expire[id], time) \in Slots
           /\ id \in Holds(wheel[Slot(expire[id], time)])
<1>1. /\ remaining[id] \in NotAsked..Largest /\ expire[id] \in Clock /\ time \in Clock
      /\ id \in Holds(wheel[Slot(expire[id], time)])
  BY DEF IInv, TypeOK, Clock, Kept
<1>2. Slot(expire[id], time) \in Slots
  BY <1>1, SlotType
<1>3. remaining[id] \in 1..Largest
  BY <1>1, Fitting DEF NotAsked
<1>4. expire[id] = (time + remaining[id]) % Modulus
  BY <1>1, <1>2 DEF IInv, Placed
<1> QED
  BY <1>1, <1>2, <1>3, <1>4

LEMMA NotNow ==
    ASSUME IInv, NEW id \in Timeouts, remaining[id] > 0
    PROVE  expire[id] # time
<1>1. /\ remaining[id] \in 1..Largest /\ time \in Clock
      /\ expire[id] = (time + remaining[id]) % Modulus
  BY Awaited
<1>2. remaining[id] \in Nat \ {0} /\ remaining[id] < Modulus /\ Modulus \in Nat /\ time \in Nat
  BY <1>1, Fitting DEF Clock
<1>3. expire[id] = IF time + remaining[id] < Modulus THEN time + remaining[id]
                   ELSE time + remaining[id] - Modulus
  BY <1>1, <1>2, Ahead
<1> QED
  BY <1>2, <1>3

LEMMA TickFacts ==
    ASSUME IInv, NEW now, now = (time + 1) % Modulus
    PROVE  /\ now \in Clock
           /\ \A id \in Timeouts : remaining[id] > 0 =>
                 /\ expire[id] = (now + (remaining[id] - 1)) % Modulus
                 /\ (expire[id] = now) <=> (remaining[id] = 1)
           /\ \A s \in Slots : \A id \in Timeouts :
                 id \in Holds(Shifted(now)[s])
                    <=> remaining[id] > 0 /\ Slot(expire[id], now) = s
<1>1. /\ Modulus \in Nat \ {0} /\ Modulus > 2 /\ Largest \in Nat /\ Largest < Modulus
      /\ Largest < Modulus \div 2 /\ Modulus \div 2 \in Nat
  BY Fitting
<1>2. time \in Clock /\ time \in Nat /\ time < Modulus
  BY <1>1 DEF IInv, TypeOK, Clock
<1>3. now \in Clock /\ now = IF time + 1 < Modulus THEN time + 1 ELSE time + 1 - Modulus
  <2>1. 1 \in Nat /\ 1 < Modulus
    BY <1>1
  <2> QED
    BY <1>2, <2>1, Ahead
<1>4. now \in Nat /\ now < Modulus
  BY <1>1, <1>3 DEF Clock
<1>5. ASSUME NEW id \in Timeouts, remaining[id] > 0
      PROVE  /\ expire[id] = (now + (remaining[id] - 1)) % Modulus
             /\ (expire[id] = now) <=> (remaining[id] = 1)
  <2> PICK r \in 1..Largest : r = remaining[id] /\ expire[id] = (time + r) % Modulus
    BY <1>5, Awaited
  <2>1. r \in Nat /\ r < Modulus /\ 1 <= r /\ r - 1 \in Nat /\ r - 1 < Modulus
    BY <1>1
  <2>2. expire[id] = IF time + r < Modulus THEN time + r ELSE time + r - Modulus
    BY <1>2, <2>1, Ahead
  <2>3. (now + (r - 1)) % Modulus
           = IF now + (r - 1) < Modulus THEN now + (r - 1) ELSE now + (r - 1) - Modulus
    BY <1>3, <2>1, Ahead
  <2>4. expire[id] = (now + (r - 1)) % Modulus
    <3>1. \A M, t, n, e \in Nat :
              /\ t < M /\ r < M /\ n = (IF t + 1 < M THEN t + 1 ELSE t + 1 - M)
              /\ e = (IF t + r < M THEN t + r ELSE t + r - M)
              => e = IF n + (r - 1) < M THEN n + (r - 1) ELSE n + (r - 1) - M
      BY <2>1
    <3>2. expire[id] \in Nat
      BY <1>5, Awaited DEF Clock
    <3> QED
      BY <1>1, <1>2, <1>3, <1>4, <2>2, <2>3, <3>1, <3>2, SMTT(60)
  <2>5. (expire[id] = now) <=> (r = 1)
    BY <1>1, <1>2, <1>3, <1>4, <2>1, <2>2
  <2> QED
    BY <2>4, <2>5
<1>6. ASSUME NEW id \in Timeouts, remaining[id] > 0, Slot(expire[id], time) \notin Cascade(now)
      PROVE  Slot(expire[id], now) = Slot(expire[id], time)
  <2>1. /\ remaining[id] \in 1..Largest /\ expire[id] = (time + remaining[id]) % Modulus
    BY <1>6, Awaited
  <2>2. remaining[id] \in Nat /\ 0 < remaining[id] /\ remaining[id] < Modulus \div 2
    BY <1>1, <2>1
  <2> QED
    BY <1>2, <1>6, <2>1, <2>2, Stays
<1>7. /\ TypeOK /\ Placed /\ \A s \in Slots : Once(wheel[s])
  BY DEF IInv
<1>8. ASSUME NEW s \in Slots, NEW id \in Timeouts
      PROVE  id \in Holds(Shifted(now)[s])
                <=> remaining[id] > 0 /\ Slot(expire[id], now) = s
  <2>1. id \in Holds(Shifted(now)[s]) <=>
            \/ s \notin Cascade(now) /\ id \in Holds(wheel[s])
            \/ id \in Holds(Leaving(now)) /\ Slot(expire[id], now) = s
    BY <1>3, <1>7, Shifts
  <2>2. ASSUME s \notin Cascade(now), id \in Holds(wheel[s])
        PROVE  remaining[id] > 0 /\ Slot(expire[id], now) = s
    <3>1. remaining[id] > 0 /\ s = Slot(expire[id], time)
      BY <1>7, <2>2 DEF Placed
    <3> QED
      BY <1>6, <2>2, <3>1
  <2>3. ASSUME id \in Holds(Leaving(now)) PROVE remaining[id] > 0
    <3>1. Cascade(now) # {}
      <4>1. SUFFICES ASSUME Cascade(now) = {} PROVE FALSE
        OBVIOUS
      <4> QED
        BY <1>3, <1>7, <2>3, <4>1, LeavingIs, HoldsEmpty
    <3>2. PICK d \in Slots : Cascade(now) = {d} /\ Leaving(now) = wheel[d]
      BY <1>3, <1>7, <3>1, LeavingIs
    <3> QED
      BY <1>7, <2>3, <3>2 DEF Placed
  <2>4. ASSUME remaining[id] > 0, Slot(expire[id], now) = s
        PROVE  \/ s \notin Cascade(now) /\ id \in Holds(wheel[s])
               \/ id \in Holds(Leaving(now)) /\ Slot(expire[id], now) = s
    <3>1. id \in Holds(wheel[Slot(expire[id], time)])
      BY <2>4, Awaited
    <3>2. CASE Slot(expire[id], time) \in Cascade(now)
      <4>1. PICK d \in Slots : Cascade(now) = {d} /\ Leaving(now) = wheel[d]
        BY <1>3, <1>7, <3>2, LeavingIs
      <4>2. d = Slot(expire[id], time)
        BY <3>2, <4>1
      <4> QED
        BY <2>4, <3>1, <4>1, <4>2
    <3>3. CASE Slot(expire[id], time) \notin Cascade(now)
      BY <1>6, <2>4, <3>1, <3>3
    <3> QED
      BY <3>2, <3>3
  <2> QED
    BY <2>1, <2>2, <2>3, <2>4
<1> QED
  BY <1>3, <1>5, <1>8

-----------------------------------------------------------------------------
(* The actions.                                                            *)
LEMMA Passed ==
    ASSUME NEW delay \in 0..MaxDelay, Int32(delay) > 0
    PROVE  Int32(delay) \in 1..Largest
<1>1. Modulus \in Nat \ {0} /\ Largest \in Nat /\ delay \in Nat
  BY Fitting, WheelAssumption
<1> DEFINE low == delay % Modulus
<1>2. low \in 0..(Modulus - 1)
  BY <1>1, Division
<1>3. Int32(delay) = IF low <= Largest THEN low ELSE low - Modulus
  BY DEF Int32
<1> HIDE DEF low
<1> QED
  BY <1>1, <1>2, <1>3

LEMMA InvInit == Init => IInv
<1> SUFFICES ASSUME Init PROVE IInv
  OBVIOUS
<1>1. Modulus \in Nat \ {0} /\ MaxLag \in Nat /\ Largest \in Nat
  BY Fitting, WheelAssumption
<1>2. 0 \in 0..(Modulus - 1) /\ 0 \in 0..MaxLag /\ NotAsked \in NotAsked..Largest
  BY <1>1 DEF NotAsked
<1>3. TypeOK
  <2>1. /\ time \in 0..(Modulus - 1) /\ lag \in 0..MaxLag /\ ticking \in BOOLEAN
    BY <1>2, Zenon DEF Init
  <2>2. expire \in [Timeouts -> 0..(Modulus - 1)] /\ remaining \in [Timeouts -> NotAsked..Largest]
    BY <1>2 DEF Init
  <2>3. wheel \in [Slots -> Seq(Timeouts)] /\ sending \in Seq(Timeouts)
    BY DEF Init
  <2> QED
    BY <2>1, <2>2, <2>3 DEF TypeOK
<1>4. \A s \in Slots : wheel[s] = <<>>
  BY DEF Init
<1>5. Placed /\ \A s \in Slots : Once(wheel[s])
  BY <1>4, HoldsEmpty DEF Placed
<1>6. Kept
  BY HoldsEmpty DEF Kept, Init, NotAsked
<1>7. Once(sending) /\ sending = <<>> /\ ~ticking
  BY HoldsEmpty DEF Init
<1> QED
  BY <1>3, <1>5, <1>6, <1>7 DEF IInv

LEMMA TimeoutStep ==
    ASSUME IInv, NEW id \in Timeouts, NEW delay \in 0..MaxDelay, Timeout(id, delay)
    PROVE  /\ IInv'
           /\ remaining[id] = NotAsked /\ Int32(delay) \in 1..Largest
           /\ remaining' = [remaining EXCEPT ![id] = Int32(delay)]
<1> DEFINE d == Int32(delay)
           e == (time + d) % Modulus
           c == Slot(e, time)
<1>1. /\ TypeOK /\ Placed /\ Kept /\ (\A s \in Slots : Once(wheel[s])) /\ Once(sending)
      /\ (sending # <<>> => ticking) /\ (ticking => lag > 0)
  BY DEF IInv
<1>2. /\ remaining[id] = NotAsked /\ d > 0
      /\ remaining' = [remaining EXCEPT ![id] = d]
      /\ expire' = [expire EXCEPT ![id] = e]
      /\ wheel' = [wheel EXCEPT ![c] = Append(@, id)]
      /\ UNCHANGED <<time, sending, ticking, lag>>
  BY DEF Timeout
<1>3. e = (time + d) % Modulus /\ d \in 1..Largest /\ d < Modulus /\ d \in Nat
      /\ d < Modulus \div 2
  <2>1. d \in 1..Largest /\ Largest \in Nat /\ Largest < Modulus /\ Modulus \in Nat
        /\ Modulus \div 2 \in Nat /\ Largest < Modulus \div 2
    BY <1>2, Passed, Fitting
  <2> QED
    BY <2>1
<1> HIDE DEF d
<1>4. time \in Clock /\ e \in Clock /\ e # time
  <2>1. time \in Clock
    BY <1>1 DEF TypeOK, Clock
  <2>2. e \in Clock /\ e = IF time + d < Modulus THEN time + d ELSE time + d - Modulus
    BY <1>3, <2>1, Ahead
  <2>3. time \in Nat /\ Modulus \in Nat
    BY <2>1, Sizes DEF Clock
  <2> HIDE DEF e
  <2> QED
    BY <1>3, <2>1, <2>2, <2>3
<1> HIDE DEF e
<1>5. c \in Slots
  BY <1>4, SlotType
<1> HIDE DEF c
<1>6. wheel \in [Slots -> Seq(Timeouts)] /\ wheel[c] \in Seq(Timeouts)
  BY <1>1, <1>5 DEF TypeOK
<1>7. \A s \in Slots : id \notin Holds(wheel[s])
  BY <1>1, <1>2 DEF Placed, NotAsked
<1>8. /\ Append(wheel[c], id) \in Seq(Timeouts)
      /\ Holds(Append(wheel[c], id)) = Holds(wheel[c]) \cup {id}
      /\ Once(Append(wheel[c], id))
  BY <1>1, <1>5, <1>6, <1>7, HoldsAppend
<1>9. \A s \in Slots : wheel'[s] = IF s = c THEN Append(wheel[c], id) ELSE wheel[s]
  BY <1>2, <1>6
<1>10. /\ \A j \in Timeouts : j # id => remaining'[j] = remaining[j] /\ expire'[j] = expire[j]
       /\ remaining'[id] = d /\ expire'[id] = e
  BY <1>1, <1>2 DEF TypeOK
<1>11. TypeOK'
  <2>1. wheel' \in [Slots -> Seq(Timeouts)]
    BY <1>2, <1>6, <1>8
  <2>2. remaining' \in [Timeouts -> NotAsked..Largest]
    <3>1. d \in NotAsked..Largest
      BY <1>3, Fitting DEF NotAsked
    <3> QED
      BY <1>1, <1>2, <3>1 DEF TypeOK
  <2>3. expire' \in [Timeouts -> 0..(Modulus - 1)]
    BY <1>1, <1>2, <1>4 DEF TypeOK, Clock
  <2> QED
    BY <1>1, <1>2, <2>1, <2>2, <2>3 DEF TypeOK
<1>12. Placed'
  <2> SUFFICES ASSUME NEW s \in Slots, NEW j \in Holds(wheel'[s])
               PROVE  /\ remaining'[j] > 0
                      /\ expire'[j] = (time + remaining'[j]) % Modulus
                      /\ s = Slot(expire'[j], time)
    BY <1>2 DEF Placed, Holds
  <2>1. CASE j = id
    <3>1. s = c
      BY <1>7, <1>9, <2>1
    <3> QED
      BY <1>3, <1>10, <2>1, <3>1 DEF c
  <2>2. CASE j # id
    <3>1. j \in Holds(wheel[s])
      BY <1>8, <1>9, <2>2
    <3>2. j \in Timeouts
      BY <1>6, <3>1 DEF Holds
    <3> QED
      BY <1>1, <1>10, <2>2, <3>1, <3>2 DEF Placed
  <2> QED
    BY <2>1, <2>2
<1>13. Kept'
  <2>1. ASSUME NEW j \in Timeouts, remaining'[j] > 0
        PROVE  j \in Holds(wheel'[Slot(expire'[j], time)])
    <3>1. CASE j = id
      BY <1>5, <1>8, <1>9, <1>10, <3>1 DEF c
    <3>2. CASE j # id
      <4>1. remaining[j] > 0 /\ expire'[j] = expire[j]
        BY <1>10, <2>1, <3>2
      <4>2. j \in Holds(wheel[Slot(expire[j], time)]) /\ Slot(expire[j], time) \in Slots
        BY <4>1, Awaited
      <4> QED
        BY <1>8, <1>9, <4>1, <4>2
    <3> QED
      BY <3>1, <3>2
  <2>2. ASSUME NEW j \in Timeouts PROVE remaining'[j] = 0 <=> j \in Holds(sending')
    <3>1. CASE j = id
      <4>1. remaining[id] # 0 /\ remaining'[id] # 0
        BY <1>2, <1>3, <1>10 DEF NotAsked
      <4> QED
        BY <1>1, <1>2, <3>1, <4>1 DEF Kept
    <3>2. CASE j # id
      BY <1>1, <1>2, <1>10, <3>2 DEF Kept
    <3> QED
      BY <3>1, <3>2
  <2> QED
    BY <1>2, <2>1, <2>2 DEF Kept
<1>14. \A s \in Slots : Once(wheel'[s])
  BY <1>1, <1>8, <1>9
<1>15. IInv'
  BY <1>1, <1>2, <1>11, <1>12, <1>13, <1>14 DEF IInv, Once
<1> QED
  BY <1>2, <1>3, <1>15 DEF d

LEMMA TimeoutNowStep ==
    ASSUME IInv, NEW id \in Timeouts, NEW delay \in 0..MaxDelay, TimeoutNow(id, delay)
    PROVE  IInv' /\ UNCHANGED remaining
<1>1. UNCHANGED <<time, expire, wheel, sending, ticking, lag, remaining>>
  BY DEF TimeoutNow
<1> QED
  BY <1>1 DEF IInv, TypeOK, Placed, Kept, Once

LEMMA UpdateTimeStep ==
    ASSUME IInv, NEW diff \in 1..MaxLag, UpdateTime(diff)
    PROVE  IInv' /\ UNCHANGED remaining
<1>1. /\ lag = 0 /\ lag' = diff
      /\ UNCHANGED <<time, expire, wheel, sending, ticking, remaining>>
  BY DEF UpdateTime
<1>2. lag' \in 0..MaxLag /\ lag' > 0
  BY <1>1, WheelAssumption
<1> QED
  BY <1>1, <1>2 DEF IInv, TypeOK, Placed, Kept, Once

LEMMA ShiftStep ==
    ASSUME IInv, Shift
    PROVE  /\ IInv'
           /\ \A id \in Timeouts : remaining[id] # 0
           /\ remaining' = [id \in Timeouts |->
                  IF remaining[id] > 0 THEN remaining[id] - 1 ELSE remaining[id]]
<1> DEFINE now == (time + 1) % Modulus
           due == <<0, now % Near>>
<1>1. /\ TypeOK /\ Placed /\ Kept /\ (\A s \in Slots : Once(wheel[s])) /\ Once(sending)
      /\ (sending # <<>> => ticking) /\ (ticking => lag > 0)
  BY DEF IInv
<1>2. /\ lag > 0 /\ ~ticking /\ time' = now
      /\ wheel' = [Shifted(now) EXCEPT ![due] = <<>>] /\ sending' = Shifted(now)[due]
      /\ ticking' = TRUE
      /\ remaining' = [id \in Timeouts |->
                  IF remaining[id] > 0 THEN remaining[id] - 1 ELSE remaining[id]]
      /\ UNCHANGED <<expire, lag>>
  BY DEF Shift
<1>3. /\ now \in Clock
      /\ \A id \in Timeouts : remaining[id] > 0 =>
            /\ expire[id] = (now + (remaining[id] - 1)) % Modulus
            /\ (expire[id] = now) <=> (remaining[id] = 1)
      /\ \A s \in Slots : \A id \in Timeouts :
            id \in Holds(Shifted(now)[s]) <=> remaining[id] > 0 /\ Slot(expire[id], now) = s
  BY TickFacts
<1> HIDE DEF now
<1>4. due \in Slots /\ \A e \in Clock : Slot(e, now) = due <=> e = now
  <2>1. now % Near \in 0..(Near - 1)
    BY <1>3, Division, WheelAssumption DEF Clock
  <2> QED
    BY <1>3, <2>1, SlotOfNow DEF Slots
<1> HIDE DEF due
<1>5. Shifted(now) \in [Slots -> Seq(Timeouts)] /\ \A s \in Slots : Once(Shifted(now)[s])
  BY <1>1, <1>3, Shifts DEF Wheels
<1>6. /\ wheel' \in [Slots -> Seq(Timeouts)] /\ sending' \in Seq(Timeouts)
      /\ \A s \in Slots : wheel'[s] = IF s = due THEN <<>> ELSE Shifted(now)[s]
  BY <1>2, <1>4, <1>5
<1>7. \A id \in Timeouts : expire[id] \in Clock /\ remaining[id] \in Int /\ remaining[id] <= Largest
                           /\ remaining[id] >= -1
  BY <1>1, Fitting DEF TypeOK, Clock, NotAsked
<1>8. \A id \in Timeouts : remaining[id] # 0
  <2>1. sending = <<>>
    BY <1>1, <1>2
  <2> QED
    BY <1>1, <2>1, HoldsEmpty DEF Kept
<1>9. \A id \in Timeouts : /\ remaining[id] > 0 => remaining'[id] = remaining[id] - 1
                           /\ ~(remaining[id] > 0) => remaining'[id] = remaining[id]
  BY <1>2
<1>10. \A id \in Timeouts : /\ remaining'[id] \in NotAsked..Largest
                            /\ remaining'[id] = 0 <=> remaining[id] = 1
                            /\ remaining'[id] > 0 => remaining[id] > 0 /\ remaining[id] # 1
                            /\ remaining[id] > 0 /\ remaining[id] # 1 => remaining'[id] > 0
  BY <1>7, <1>8, <1>9, Fitting DEF NotAsked
<1>11. TypeOK'
  <2>1. remaining' \in [Timeouts -> NotAsked..Largest]
    BY <1>2, <1>10
  <2>2. time' \in 0..(Modulus - 1)
    BY <1>2, <1>3 DEF Clock
  <2> QED
    BY <1>1, <1>2, <1>6, <2>1, <2>2 DEF TypeOK
<1>12. Placed'
  <2> SUFFICES ASSUME NEW s \in Slots, NEW id \in Holds(wheel'[s])
               PROVE  /\ remaining'[id] > 0
                      /\ expire[id] = (now + remaining'[id]) % Modulus
                      /\ s = Slot(expire[id], now)
    BY <1>2 DEF Placed, Holds
  <2>1. s # due /\ id \in Holds(Shifted(now)[s])
    BY <1>6, HoldsEmpty
  <2>2. id \in Timeouts
    BY <1>5, <2>1 DEF Holds
  <2>3. remaining[id] > 0 /\ Slot(expire[id], now) = s
    BY <1>3, <2>1, <2>2
  <2>4. expire[id] # now
    BY <1>4, <1>7, <2>1, <2>2, <2>3
  <2>5. remaining[id] # 1 /\ expire[id] = (now + (remaining[id] - 1)) % Modulus
    BY <1>3, <2>2, <2>3, <2>4
  <2> QED
    BY <1>9, <1>10, <2>2, <2>3, <2>5
<1>13. Kept'
  <2>1. ASSUME NEW id \in Timeouts, remaining'[id] > 0
        PROVE  id \in Holds(wheel'[Slot(expire[id], now)])
    <3>1. remaining[id] > 0 /\ remaining[id] # 1
      BY <1>10, <2>1
    <3>2. expire[id] # now /\ Slot(expire[id], now) \in Slots
      BY <1>3, <1>7, <3>1, SlotType
    <3>3. Slot(expire[id], now) # due
      BY <1>4, <1>7, <3>2
    <3> QED
      BY <1>3, <1>6, <3>1, <3>2, <3>3
  <2>2. ASSUME NEW id \in Timeouts PROVE remaining'[id] = 0 <=> id \in Holds(sending')
    <3>1. id \in Holds(sending') <=> remaining[id] > 0 /\ Slot(expire[id], now) = due
      BY <1>2, <1>3, <1>4
    <3>2. id \in Holds(sending') <=> remaining[id] > 0 /\ expire[id] = now
      BY <1>4, <1>7, <3>1
    <3>3. id \in Holds(sending') <=> remaining[id] = 1
      BY <1>3, <1>7, <3>2
    <3> QED
      BY <1>10, <3>3
  <2> QED
    BY <1>2, <2>1, <2>2 DEF Kept
<1>14. (\A s \in Slots : Once(wheel'[s])) /\ Once(sending')
  BY <1>2, <1>4, <1>5, <1>6, HoldsEmpty
<1>15. IInv'
  BY <1>1, <1>2, <1>11, <1>12, <1>13, <1>14 DEF IInv, Once
<1> QED
  BY <1>2, <1>8, <1>15

LEMMA SendStep ==
    ASSUME IInv, Send
    PROVE  /\ IInv'
           /\ \E id \in Timeouts : /\ remaining[id] = 0
                                   /\ remaining' = [remaining EXCEPT ![id] = NotAsked]
<1> DEFINE id == Head(sending)
<1>1. /\ TypeOK /\ Placed /\ Kept /\ (\A s \in Slots : Once(wheel[s])) /\ Once(sending)
      /\ (sending # <<>> => ticking) /\ (ticking => lag > 0)
  BY DEF IInv
<1>2. /\ sending # <<>> /\ sending' = Tail(sending)
      /\ remaining' = [remaining EXCEPT ![id] = NotAsked]
      /\ UNCHANGED <<time, expire, wheel, ticking, lag>>
  BY DEF Send
<1>3. sending \in Seq(Timeouts) /\ remaining \in [Timeouts -> NotAsked..Largest]
  BY <1>1 DEF TypeOK
<1>4. /\ id \in Timeouts /\ id = sending[1] /\ Tail(sending) \in Seq(Timeouts)
      /\ Len(sending) \in Nat \ {0} /\ DOMAIN sending = 1..Len(sending)
      /\ DOMAIN Tail(sending) = 1..(Len(sending) - 1)
      /\ \A i \in 1..(Len(sending) - 1) : Tail(sending)[i] = sending[i + 1]
  <2>1. Len(sending) \in Nat \ {0} /\ DOMAIN sending = 1..Len(sending)
    BY <1>2, <1>3, EmptySeq
  <2>2. id = sending[1] /\ id \in Timeouts
    BY <1>2, <1>3, <2>1, HeadTailProperties
  <2>3. /\ Tail(sending) \in Seq(Timeouts) /\ Len(Tail(sending)) = Len(sending) - 1
        /\ \A i \in 1..Len(Tail(sending)) : Tail(sending)[i] = sending[i + 1]
    BY <1>2, <1>3, HeadTailProperties
  <2> QED
    BY <2>1, <2>2, <2>3
<1>5. id \in Holds(sending) /\ remaining[id] = 0
  <2>1. 1 \in DOMAIN sending
    BY <1>4
  <2>2. id \in Holds(sending)
    BY <1>4, <2>1 DEF Holds
  <2> QED
    BY <1>1, <1>4, <2>2 DEF Kept
<1>6. \A j : j \in Holds(sending') <=> j \in Holds(sending) /\ j # id
  <2>1. ASSUME NEW i \in DOMAIN Tail(sending)
        PROVE  Tail(sending)[i] \in Holds(sending) /\ Tail(sending)[i] # id
    <3>1. i + 1 \in DOMAIN sending /\ 1 \in DOMAIN sending /\ i + 1 # 1
          /\ Tail(sending)[i] = sending[i + 1]
      BY <1>4
    <3> QED
      BY <1>1, <1>4, <3>1 DEF Holds, Once
  <2>2. ASSUME NEW i \in DOMAIN sending, sending[i] # id
        PROVE  sending[i] \in Holds(Tail(sending))
    <3>1. i # 1
      BY <1>4, <2>2
    <3>2. i - 1 \in DOMAIN Tail(sending) /\ Tail(sending)[i - 1] = sending[i]
      BY <1>4, <3>1
    <3> QED
      BY <3>2 DEF Holds
  <2> HIDE DEF id
  <2>3. sending' = Tail(sending)
    BY <1>2
  <2> QED
    BY <2>1, <2>2, <2>3 DEF Holds
<1>7. Once(sending')
  <2> SUFFICES ASSUME NEW i \in DOMAIN Tail(sending), NEW k \in DOMAIN Tail(sending),
                      Tail(sending)[i] = Tail(sending)[k]
               PROVE  i = k
    BY <1>2 DEF Once
  <2>1. /\ i + 1 \in DOMAIN sending /\ k + 1 \in DOMAIN sending /\ i \in Int /\ k \in Int
        /\ sending[i + 1] = sending[k + 1]
    BY <1>4
  <2>2. i + 1 = k + 1
    BY <1>1, <2>1 DEF Once
  <2> QED
    BY <2>1, <2>2
<1> HIDE DEF id
<1>8. /\ remaining'[id] = NotAsked
      /\ \A j \in Timeouts : j # id => remaining'[j] = remaining[j]
  BY <1>2, <1>3, <1>4
<1>9. TypeOK'
  <2>1. NotAsked \in NotAsked..Largest
    BY Fitting DEF NotAsked
  <2> QED
    BY <1>1, <1>2, <1>3, <1>4, <2>1 DEF TypeOK
<1>10. Placed'
  <2> SUFFICES ASSUME NEW s \in Slots, NEW j \in Holds(wheel[s])
               PROVE  /\ remaining'[j] > 0
                      /\ expire[j] = (time + remaining'[j]) % Modulus
                      /\ s = Slot(expire[j], time)
    BY <1>2 DEF Placed, Holds
  <2>1. remaining[j] > 0 /\ j \in Timeouts
    BY <1>1 DEF Placed, TypeOK, Holds
  <2>2. j # id
    BY <1>5, <2>1
  <2> QED
    BY <1>1, <1>8, <2>1, <2>2 DEF Placed
<1>11. Kept'
  <2>1. ASSUME NEW j \in Timeouts, remaining'[j] > 0
        PROVE  j \in Holds(wheel[Slot(expire[j], time)])
    <3>1. j # id
      BY <1>8, <2>1 DEF NotAsked
    <3> QED
      BY <1>1, <1>8, <2>1, <3>1 DEF Kept
  <2>2. ASSUME NEW j \in Timeouts PROVE remaining'[j] = 0 <=> j \in Holds(sending')
    <3>1. NotAsked # 0
      BY DEF NotAsked
    <3> QED
      BY <1>1, <1>6, <1>8, <3>1 DEF Kept
  <2> QED
    BY <1>2, <2>1, <2>2 DEF Kept
<1>12. IInv'
  BY <1>1, <1>2, <1>7, <1>9, <1>10, <1>11 DEF IInv, Once
<1> QED
  BY <1>2, <1>4, <1>5, <1>12

LEMMA UpdatedStep == ASSUME IInv, Updated PROVE IInv' /\ UNCHANGED remaining
<1>1. /\ ticking /\ sending = <<>> /\ ticking' = FALSE /\ lag' = lag - 1
      /\ UNCHANGED <<time, expire, wheel, sending, remaining>>
  BY DEF Updated
<1>2. lag' \in 0..MaxLag
  BY <1>1, WheelAssumption DEF IInv, TypeOK
<1> QED
  BY <1>1, <1>2 DEF IInv, TypeOK, Placed, Kept, Once

-----------------------------------------------------------------------------
(* The theorems.                                                           *)
LEMMA InvNext == ASSUME IInv, [Next]_vars PROVE IInv'
<1>1. ASSUME NEW id \in Timeouts, NEW delay \in 0..MaxDelay, Timeout(id, delay) PROVE IInv'
  BY <1>1, TimeoutStep
<1>2. ASSUME NEW id \in Timeouts, NEW delay \in 0..MaxDelay, TimeoutNow(id, delay) PROVE IInv'
  BY <1>2, TimeoutNowStep
<1>3. ASSUME NEW diff \in 1..MaxLag, UpdateTime(diff) PROVE IInv'
  BY <1>3, UpdateTimeStep
<1>4. CASE Shift
  BY <1>4, ShiftStep
<1>5. CASE Send
  BY <1>5, SendStep
<1>6. CASE Updated
  BY <1>6, UpdatedStep
<1>7. CASE UNCHANGED vars
  BY <1>7 DEF vars, IInv, TypeOK, Placed, Kept, Once
<1> QED
  BY <1>1, <1>2, <1>3, <1>4, <1>5, <1>6, <1>7 DEF Next

THEOREM Invariance == Spec => []IInv
<1>1. IInv /\ [Next]_vars => IInv'
  BY InvNext
<1> QED
  BY <1>1, InvInit, PTL DEF Spec

(* A node is in the slot where timer_shift looks for it in time, and the   *)
(* slot of the current tick is empty.                                      *)
THEOREM NodesInPlace == Spec => []InPlace
<1>1. IInv => InPlace
  <2> SUFFICES ASSUME IInv PROVE InPlace
    OBVIOUS
  <2>1. TypeOK /\ Placed /\ time \in Clock /\ Near \in Nat \ {0}
    BY WheelAssumption DEF IInv, TypeOK, Clock
  <2>2. ASSUME NEW s \in Slots, NEW n \in DOMAIN wheel[s]
        PROVE  wheel[s][n] \in Holds(wheel[s]) /\ wheel[s][n] \in Timeouts
    BY <2>1 DEF Holds, TypeOK
  <2>3. Due \in Slots
    <3>1. time % Near \in 0..(Near - 1)
      BY <2>1, Division DEF Clock
    <3> QED
      BY <3>1 DEF Due, Slots
  <2>4. wheel[Due] = <<>>
    <3>1. SUFFICES ASSUME wheel[Due] # <<>> PROVE FALSE
      OBVIOUS
    <3>2. wheel[Due] \in Seq(Timeouts)
      BY <2>1, <2>3 DEF TypeOK
    <3>3. 1 \in DOMAIN wheel[Due]
      BY <3>1, <3>2, EmptySeq
    <3> PICK id : id = wheel[Due][1]
      OBVIOUS
    <3>4. id \in Timeouts /\ remaining[id] > 0 /\ Slot(expire[id], time) = Due
          /\ expire[id] = (time + remaining[id]) % Modulus
      BY <2>1, <2>2, <2>3, <3>3 DEF Placed
    <3>5. expire[id] \in Clock /\ remaining[id] \in NotAsked..Largest
      BY <2>1, <3>4 DEF TypeOK, Clock
    <3>6. expire[id] = time
      BY <2>1, <3>4, <3>5, SlotOfNow DEF Due
    <3> QED
      BY <3>4, <3>6, NotNow
  <2> QED
    BY <2>1, <2>2, <2>4 DEF InPlace, Placed
<1> QED
  BY <1>1, Invariance, PTL

(* The wheel is the alarm: every timeout rings once, at its tick.          *)
THEOREM Implements == Spec => ImplementsAlarm
<1>1. Init => Promise!Init
  BY DEF Init, Promise!Init, Promise!NotAsked, NotAsked
<1>2. ASSUME IInv, [Next]_vars PROVE [Promise!Next]_remaining
  <2>1. ASSUME NEW id \in Timeouts, NEW delay \in 0..MaxDelay, Timeout(id, delay)
        PROVE  Promise!Next
    <3>1. remaining[id] = NotAsked /\ Int32(delay) \in 1..Largest
          /\ remaining' = [remaining EXCEPT ![id] = Int32(delay)]
      BY <1>2, <2>1, TimeoutStep
    <3>2. Int32(delay) > 0
      BY <3>1, Fitting
    <3>3. Promise!Ask(id, Int32(delay))
      BY <3>1, <3>2 DEF Promise!Ask, Promise!NotAsked, NotAsked
    <3> QED
      BY <3>1, <3>3 DEF Promise!Next
  <2>2. ASSUME NEW id \in Timeouts, NEW delay \in 0..MaxDelay, TimeoutNow(id, delay)
        PROVE  UNCHANGED remaining
    BY <2>2 DEF TimeoutNow
  <2>3. ASSUME NEW diff \in 1..MaxLag, UpdateTime(diff) PROVE UNCHANGED remaining
    BY <2>3 DEF UpdateTime
  <2>4. CASE Shift
    <3>1. /\ \A id \in Timeouts : remaining[id] # 0
          /\ remaining' = [id \in Timeouts |->
                IF remaining[id] > 0 THEN remaining[id] - 1 ELSE remaining[id]]
      BY <1>2, <2>4, ShiftStep
    <3>2. \A id \in Timeouts : remaining[id] \in NotAsked..Largest
      BY <1>2 DEF IInv, TypeOK
    <3>3. \A id \in Timeouts :
              (IF remaining[id] > 0 THEN remaining[id] - 1 ELSE remaining[id])
              = (IF remaining[id] = NotAsked THEN NotAsked ELSE remaining[id] - 1)
      BY <3>1, <3>2, Fitting DEF NotAsked
    <3>4. Promise!Tick
      BY <3>1, <3>3 DEF Promise!Tick, Promise!NotAsked, NotAsked
    <3> QED
      BY <3>4 DEF Promise!Next
  <2>5. CASE Send
    <3>1. PICK id \in Timeouts : remaining[id] = 0
                                 /\ remaining' = [remaining EXCEPT ![id] = NotAsked]
      BY <1>2, <2>5, SendStep
    <3>2. Promise!Ring(id)
      BY <3>1 DEF Promise!Ring, Promise!NotAsked, NotAsked
    <3> QED
      BY <3>2 DEF Promise!Next
  <2>6. CASE Updated
    BY <2>6 DEF Updated
  <2>7. CASE UNCHANGED vars
    BY <2>7 DEF vars
  <2> QED
    BY <1>2, <2>1, <2>2, <2>3, <2>4, <2>5, <2>6, <2>7 DEF Next
<1>3. IInv /\ [Next]_vars => [Promise!Next]_remaining
  BY <1>2
<1> QED
  BY <1>1, <1>3, Invariance, PTL DEF Spec, ImplementsAlarm, Promise!Spec
=============================================================================
