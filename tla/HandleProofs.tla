----------------------------- MODULE HandleProofs -----------------------------
(***************************************************************************)
(* Proofs about Handle: contexts are found under their handles, whatever   *)
(* expansions and turns of the handles; the expansion moves no two of them *)
(* to one slot; the names are alive and the binary search finds them; and  *)
(* the pass of skynet_handle_retireall misses nobody.                      *)
(*                                                                         *)
(* The recursive functions of the names are dealt with by the induction of *)
(* Induction, which is about a set, and by the existence of a function     *)
(* that obeys the recursion.                                               *)
(***************************************************************************)
EXTENDS Handle, FiniteSetTheorems, SequenceTheorems, WellFoundedInduction, TLAPS

-----------------------------------------------------------------------------
(* Induction over the natural numbers, and division with remainder.        *)
LEMMA Induction ==
    ASSUME NEW P \in SUBSET Nat, 0 \in P, \A n \in P : n + 1 \in P
    PROVE  P = Nat
<1>1. SUFFICES ASSUME Nat \ P # {} PROVE FALSE
  OBVIOUS
<1>2. PICK n \in Nat \ P : \A m \in Nat \ P : ~(<<m, n>> \in OpToRel(<, Nat))
  BY <1>1, WFMin, NatLessThanWellFounded
<1>3. \A m \in Nat \ P : ~(m < n)
  BY <1>2 DEF OpToRel
<1>4. n \in Nat /\ n \notin P /\ n # 0
  BY <1>2
<1>5. n - 1 \in Nat /\ n - 1 < n /\ n - 1 + 1 = n
  BY <1>4
<1>6. n - 1 \in P
  BY <1>3, <1>5
<1>7. n - 1 + 1 \in P
  BY <1>6
<1> QED
  BY <1>4, <1>5, <1>7

LEMMA Quotient ==
    ASSUME NEW a \in Int, NEW n \in Nat \ {0}
    PROVE  \E q \in Int : a = n * q + (a % n)
<1>1. a \div n \in Int /\ a = n * (a \div n) + (a % n)
  OBVIOUS
<1> QED
  BY <1>1, Zenon

LEMMA Remainder ==
    ASSUME NEW n \in Nat \ {0}, NEW a \in Int, NEW q \in Int, NEW r \in 0..(n - 1),
           a = n * q + r
    PROVE  a % n = r
<1>1. PICK p \in Int : a = n * p + (a % n)
  BY Quotient, Zenon
<1>2. PICK s \in 0..(n - 1) : s = a % n
  OBVIOUS
<1>3. n * (q - p) = s - r
  BY <1>1, <1>2
<1>4. CASE q - p >= 1
  <2>1. n * (q - p) >= n
    BY <1>4
  <2> QED
    BY <1>3, <2>1
<1>5. CASE q - p <= -1
  <2>1. n * (q - p) <= -n
    BY <1>5
  <2> QED
    BY <1>3, <2>1
<1>6. CASE q = p
  BY <1>2, <1>3, <1>6
<1> QED
  BY <1>4, <1>5, <1>6

(* The low bits of the low bits.                                           *)
LEMMA LowBits ==
    ASSUME NEW h \in Nat, NEW n \in Nat \ {0}, NEW m \in Nat \ {0}, m = 2 * n
    PROVE  (h % m) % n = h % n /\ h % m \in 0..(m - 1) /\ h % m >= h % n
<1>1. h \in Int
  OBVIOUS
<1>2. PICK q \in Int : h = m * q + (h % m)
  BY <1>1, Quotient, Zenon
<1>3. PICK r \in 0..(m - 1) : r = h % m
  OBVIOUS
<1>4. r \in Int
  OBVIOUS
<1>5. PICK p \in Int : r = n * p + (r % n)
  BY <1>4, Quotient, Zenon
<1>6. PICK s \in 0..(n - 1) : s = r % n
  OBVIOUS
<1>7. m * q = n * (2 * q)
  OBVIOUS
<1>8. n * (2 * q) + n * p = n * (2 * q + p)
  OBVIOUS
<1>9. h = n * (2 * q + p) + s
  BY <1>2, <1>3, <1>5, <1>6, <1>7, <1>8
<1>10. 2 * q + p \in Int
  OBVIOUS
<1>11. h % n = s
  BY <1>9, <1>10, Remainder
<1>12. p >= 0
  <2>1. SUFFICES ASSUME p <= -1 PROVE FALSE
    OBVIOUS
  <2>2. n * p <= -n
    BY <2>1
  <2> QED
    BY <1>5, <1>6, <2>2
<1>13. n * p >= 0
  BY <1>12
<1> QED
  BY <1>3, <1>5, <1>6, <1>11, <1>13

(* Of n numbers in a row one has a given remainder.                        *)
LEMMA InARow ==
    ASSUME NEW n \in Nat \ {0}, NEW a \in Nat, NEW r \in 0..(n - 1)
    PROVE  \E i \in 0..(n - 1) : (a + i) % n = r
<1>1. r - a \in Int
  OBVIOUS
<1>2. PICK q \in Int : r - a = n * q + ((r - a) % n)
  BY <1>1, Quotient, Zenon
<1>3. PICK i \in 0..(n - 1) : i = (r - a) % n
  BY <1>1
<1>4. a + i = n * (-q) + r /\ -q \in Int /\ a + i \in Int
  BY <1>2, <1>3
<1>5. (a + i) % n = r
  BY <1>4, Remainder
<1> QED
  BY <1>5
-----------------------------------------------------------------------------
(* The binary search.  Probed is one round of its loop, on the range that  *)
(* is left; the search is a function that obeys it, and there is one: it   *)
(* is built for longer and longer ranges.                                  *)
Ranges == (1..(Len(names) + 1)) \X (0..Len(names))
Result == [found : BOOLEAN, at : 1..(Len(names) + 1)]
Mid(be) == (be[1] + be[2]) \div 2
Probed(g, name, be) ==
    IF be[1] > be[2] THEN [found |-> FALSE, at |-> be[1]]
    ELSE IF names[Mid(be)].name = name THEN [found |-> TRUE, at |-> Mid(be)]
    ELSE IF names[Mid(be)].name < name THEN g[<<Mid(be) + 1, be[2]>>]
    ELSE g[<<be[1], Mid(be) - 1>>]
Searching(g, name) == g = [be \in Ranges |-> Probed(g, name, be)]

LEMMA Halves ==
    ASSUME names \in Seq(Named), NEW be \in Ranges, be[1] <= be[2]
    PROVE  /\ Mid(be) \in 1..Len(names) /\ be[1] <= Mid(be) /\ Mid(be) <= be[2]
           /\ <<Mid(be) + 1, be[2]>> \in Ranges /\ <<be[1], Mid(be) - 1>> \in Ranges
<1>1. Len(names) \in Nat /\ be[1] \in 1..(Len(names) + 1) /\ be[2] \in 0..Len(names)
  BY DEF Ranges
<1>2. be[1] <= Mid(be) /\ Mid(be) <= be[2] /\ Mid(be) \in Int
  BY <1>1 DEF Mid
<1>3. Mid(be) + 1 \in 1..(Len(names) + 1) /\ Mid(be) - 1 \in 0..Len(names)
  BY <1>1, <1>2
<1> QED
  BY <1>1, <1>2, <1>3 DEF Ranges

LEMMA SearchExists ==
    ASSUME names \in Seq(Named), NEW name
    PROVE  \E g : Searching(g, name)
<1> DEFINE Short(k) == {be \in Ranges : be[2] - be[1] < k}
           Obeys(g, k) == \A be \in Short(k) : g[be] = Probed(g, name, be)
           P == {k \in Nat : \E g : g = [be \in Ranges |-> g[be]] /\ Obeys(g, k)}
<1>1. 0 \in P
  <2> DEFINE g == [be \in Ranges |-> [found |-> FALSE, at |-> be[1]]]
  <2>1. \A be \in Short(0) : be[1] > be[2] /\ be \in Ranges
    BY DEF Ranges
  <2>2. g = [be \in Ranges |-> g[be]] /\ Obeys(g, 0)
    BY <2>1 DEF Probed
  <2> QED
    BY <2>2
<1>2. ASSUME NEW k \in P PROVE k + 1 \in P
  <2>1. PICK g : g = [be \in Ranges |-> g[be]] /\ Obeys(g, k)
    OBVIOUS
  <2> DEFINE h == [be \in Ranges |-> Probed(g, name, be)]
  <2>2. \A be \in Short(k) : h[be] = g[be]
    BY <2>1
  <2>3. ASSUME NEW be \in Short(k + 1) PROVE h[be] = Probed(h, name, be)
    <3>1. be \in Ranges /\ h[be] = Probed(g, name, be) /\ be[2] - be[1] < k + 1
      OBVIOUS
    <3>2. be[1] \in Nat /\ be[2] \in Nat /\ k \in Nat
      BY DEF Ranges
    <3>3. CASE be[1] > be[2]
      BY <3>1, <3>3 DEF Probed
    <3>4. CASE be[1] <= be[2]
      <4>1. /\ Mid(be) \in Nat /\ be[1] <= Mid(be) /\ Mid(be) <= be[2]
            /\ <<Mid(be) + 1, be[2]>> \in Ranges /\ <<be[1], Mid(be) - 1>> \in Ranges
        BY <3>1, <3>4, Halves
      <4>2. <<Mid(be) + 1, be[2]>> \in Short(k) /\ <<be[1], Mid(be) - 1>> \in Short(k)
        BY <3>1, <3>2, <4>1
      <4> HIDE DEF h, Short
      <4>3. Probed(h, name, be) = Probed(g, name, be)
        BY <2>2, <4>2 DEF Probed
      <4> QED
        BY <3>1, <4>3
    <3> QED
      BY <3>2, <3>3, <3>4
  <2>4. h = [be \in Ranges |-> h[be]] /\ Obeys(h, k + 1)
    BY <2>3
  <2>5. \E f : f = [be \in Ranges |-> f[be]] /\ Obeys(f, k + 1)
    <3> HIDE DEF h, Obeys
    <3> QED
      BY <2>4
  <2>6. k + 1 \in Nat
    OBVIOUS
  <2> HIDE DEF Obeys
  <2> QED
    BY <2>5, <2>6
<1>3. P = Nat
  <2> HIDE DEF P
  <2>1. P \in SUBSET Nat
    BY DEF P
  <2> QED
    BY <1>1, <1>2, <2>1, Induction
<1>4. Len(names) + 1 \in P
  <2> HIDE DEF P
  <2>1. Len(names) + 1 \in Nat
    OBVIOUS
  <2> QED
    BY <1>3, <2>1
<1>5. PICK g : g = [be \in Ranges |-> g[be]] /\ Obeys(g, Len(names) + 1)
  BY <1>4
<1>6. \A be \in Ranges : be \in Short(Len(names) + 1)
  BY DEF Ranges
<1>7. Searching(g, name)
  BY <1>5, <1>6 DEF Searching
<1> QED
  BY <1>7

LEMMA SearchObeys ==
    ASSUME names \in Seq(Named), NEW name
    PROVE  \E g : Searching(g, name) /\ Search(name) = g[<<1, Len(names)>>]
<1> DEFINE s == CHOOSE g : Searching(g, name)
<1>1. Searching(s, name)
  BY SearchExists
<1>2. Search(name) = s[<<1, Len(names)>>]
  BY DEF Search, Searching, Probed, Mid, Ranges
<1> QED
  BY <1>1, <1>2

(* What the search returns: the place of the name, or the place before     *)
(* which every name is less and from which every name is greater.          *)
Sorted == \A i, j \in 1..Len(names) : i < j => names[i].name < names[j].name
Less(p, name) == \A i \in 1..Len(names) : i < p => names[i].name < name
Greater(p, name) == \A i \in 1..Len(names) : i > p => name < names[i].name
Right(r, name) ==
    /\ r.found \in BOOLEAN
    /\ r.found => r.at \in 1..Len(names) /\ names[r.at].name = name
    /\ ~r.found => /\ r.at \in 1..(Len(names) + 1)
                   /\ Less(r.at, name) /\ Greater(r.at - 1, name)

LEMMA NamedItems ==
    ASSUME names \in Seq(Named), Names \subseteq Nat, NEW i \in 1..Len(names)
    PROVE  /\ names[i] \in Named /\ names[i].name \in Names /\ names[i].name \in Nat
           /\ names[i].handle \in 1..HandleMask /\ names[i].late \in BOOLEAN
<1>1. names[i] \in Named
  <2> HIDE DEF Named
  <2> QED
    OBVIOUS
<1>2. /\ names[i].name \in Names /\ names[i].handle \in 1..HandleMask
      /\ names[i].late \in BOOLEAN
  BY <1>1 DEF Named
<1> QED
  BY <1>1, <1>2

LEMMA SearchIsRight ==
    ASSUME names \in Seq(Named), Names \subseteq Nat, Sorted, NEW name \in Names
    PROVE  Right(Search(name), name)
<1>1. PICK g : Searching(g, name) /\ Search(name) = g[<<1, Len(names)>>]
  BY SearchObeys
<1>2. \A be \in Ranges : g[be] = Probed(g, name, be)
  BY <1>1, Zenon DEF Searching
<1> DEFINE P == {k \in Nat : \A be \in Ranges :
                    be[2] - be[1] < k /\ Less(be[1], name) /\ Greater(be[2], name)
                       => Right(g[be], name)}
<1>3. ASSUME NEW be \in Ranges, be[1] > be[2], Less(be[1], name), Greater(be[2], name)
      PROVE  Right(g[be], name)
  <2>1. g[be] = [found |-> FALSE, at |-> be[1]]
    BY <1>2, <1>3 DEF Probed
  <2>2. be[1] \in 1..(Len(names) + 1) /\ be[2] \in 0..Len(names) /\ Len(names) \in Nat
    BY DEF Ranges
  <2>3. Greater(be[1] - 1, name)
    BY <1>3, <2>2 DEF Greater
  <2> QED
    BY <1>3, <2>1, <2>2, <2>3 DEF Right
<1>4. 0 \in P
  <2>1. \A be \in Ranges : be[2] - be[1] < 0 => be[1] > be[2]
    BY DEF Ranges
  <2> QED
    BY <1>3, <2>1
<1>5. ASSUME NEW k \in P PROVE k + 1 \in P
  <2>1. SUFFICES ASSUME NEW be \in Ranges, be[2] - be[1] < k + 1,
                        Less(be[1], name), Greater(be[2], name)
                 PROVE  Right(g[be], name)
    OBVIOUS
  <2>2. CASE be[1] > be[2]
    BY <1>3, <2>1, <2>2
  <2>3. CASE be[1] <= be[2]
    <3> DEFINE m == Mid(be)
    <3>1. /\ m \in 1..Len(names) /\ be[1] <= m /\ m <= be[2]
          /\ <<m + 1, be[2]>> \in Ranges /\ <<be[1], m - 1>> \in Ranges
      BY <2>3, Halves
    <3>2. /\ g[be] = IF names[m].name = name THEN [found |-> TRUE, at |-> m]
                     ELSE IF names[m].name < name THEN g[<<m + 1, be[2]>>]
                     ELSE g[<<be[1], m - 1>>]
      <4>1. ~(be[1] > be[2])
        BY <2>3 DEF Ranges
      <4> QED
        BY <1>2, <4>1, Zenon DEF Probed
    <3>3. be[1] \in Nat /\ be[2] \in Nat /\ Len(names) \in Nat /\ k \in Nat
      BY DEF Ranges
    <3>4. names[m].name \in Nat /\ name \in Nat
      BY <3>1, NamedItems
    <3> HIDE DEF m
    <3>5. CASE names[m].name = name
      BY <3>1, <3>2, <3>5 DEF Right
    <3>6. CASE names[m].name < name
      <4>1. Less(m + 1, name)
        <5>1. SUFFICES ASSUME NEW i \in 1..Len(names), i < m + 1
                       PROVE  names[i].name < name
          BY DEF Less
        <5>2. i = m \/ (i < m /\ names[i].name < names[m].name)
          BY <3>1, <5>1, SMTT(60) DEF Sorted
        <5>3. names[i].name \in Nat
          BY NamedItems
        <5> QED
          BY <3>4, <3>6, <5>2, <5>3
      <4>2. be[2] - (m + 1) < k
        BY <2>1, <3>1, <3>3
      <4>3. <<m + 1, be[2]>>[1] = m + 1 /\ <<m + 1, be[2]>>[2] = be[2]
        OBVIOUS
      <4>4. Right(g[<<m + 1, be[2]>>], name)
        BY <2>1, <3>1, <4>1, <4>2, <4>3
      <4> QED
        BY <3>2, <3>4, <3>6, <4>4
    <3>7. CASE name < names[m].name
      <4>1. Greater(m - 1, name)
        <5>1. SUFFICES ASSUME NEW i \in 1..Len(names), i > m - 1
                       PROVE  name < names[i].name
          BY DEF Greater
        <5>2. i = m \/ (m < i /\ names[m].name < names[i].name)
          BY <3>1, <5>1 DEF Sorted
        <5>3. names[i].name \in Nat
          BY NamedItems
        <5> QED
          BY <3>4, <3>7, <5>2, <5>3
      <4>2. (m - 1) - be[1] < k
        BY <2>1, <3>1, <3>3
      <4>3. <<be[1], m - 1>>[1] = be[1] /\ <<be[1], m - 1>>[2] = m - 1
        OBVIOUS
      <4>4. Right(g[<<be[1], m - 1>>], name)
        BY <2>1, <3>1, <4>1, <4>2, <4>3
      <4> QED
        BY <3>2, <3>4, <3>7, <4>4
    <3> QED
      BY <3>4, <3>5, <3>6, <3>7
  <2> QED
    BY <2>2, <2>3 DEF Ranges
<1>6. P = Nat
  <2> HIDE DEF P
  <2>1. P \in SUBSET Nat
    BY DEF P
  <2> QED
    BY <1>4, <1>5, <2>1, Induction
<1>7. Len(names) + 1 \in P
  <2> HIDE DEF P
  <2>1. Len(names) + 1 \in Nat
    OBVIOUS
  <2> QED
    BY <1>6, <2>1
<1>8. <<1, Len(names)>> \in Ranges
  BY DEF Ranges
<1>9. Less(1, name) /\ Greater(Len(names), name)
  BY DEF Less, Greater
<1> QED
  BY <1>1, <1>7, <1>8, <1>9

LEMMA SearchFinds ==
    ASSUME names \in Seq(Named), Names \subseteq Nat, Sorted, NEW n \in DOMAIN names
    PROVE  Search(names[n].name).at = n
<1> DEFINE r == Search(names[n].name)
<1>1. n \in 1..Len(names) /\ names[n].name \in Names /\ Len(names) \in Nat
  BY NamedItems
<1>2. \A i \in 1..Len(names) : names[i].name \in Nat
  BY NamedItems
<1>3. Right(r, names[n].name)
  BY <1>1, SearchIsRight
<1> HIDE DEF r
<1>4. CASE r.found
  <2>1. r.at \in 1..Len(names) /\ names[r.at].name = names[n].name
    BY <1>3, <1>4 DEF Right
  <2> QED
    BY <1>1, <1>2, <2>1 DEF Sorted, r
<1>5. CASE ~r.found
  <2>1. r.at \in 1..(Len(names) + 1) /\ Less(r.at, names[n].name) /\ Greater(r.at - 1, names[n].name)
    BY <1>3, <1>5 DEF Right
  <2> QED
    BY <1>1, <1>2, <2>1 DEF Less, Greater
<1> QED
  BY <1>3, <1>4, <1>5 DEF Right
-----------------------------------------------------------------------------
(* The names that are left: Left is one round of the loop, and what it has *)
(* kept of the first i names is some of them, in their order, and none of  *)
(* the handle.                                                             *)
Left(k, h, i) ==
    IF i = 0 THEN <<>>
    ELSE IF names[i].handle = h THEN k[i - 1]
    ELSE Append(k[i - 1], names[i])
Leaving(k, h) == k = [i \in 0..Len(names) |-> Left(k, h, i)]
OfFirst(s, h, i) ==
    /\ s \in Seq(Named)
    /\ \A n \in 1..Len(s) : \E j \in 1..Len(names) :
           j <= i /\ s[n] = names[j] /\ names[j].handle # h
    /\ \A n, m \in 1..Len(s) : n < m => s[n].name < s[m].name

LEMMA LeavingExists ==
    ASSUME names \in Seq(Named), NEW h
    PROVE  \E k : Leaving(k, h)
<1> DEFINE Obeys(f, k) == \A i \in 0..Len(names) : i < k => f[i] = Left(f, h, i)
           P == {k \in Nat : \E f : f = [i \in 0..Len(names) |-> f[i]] /\ Obeys(f, k)}
<1>1. 0 \in P
  <2> DEFINE f == [i \in 0..Len(names) |-> <<>>]
  <2>1. f = [i \in 0..Len(names) |-> f[i]] /\ Obeys(f, 0)
    OBVIOUS
  <2> HIDE DEF f, Obeys
  <2> QED
    BY <2>1
<1>2. ASSUME NEW k \in P PROVE k + 1 \in P
  <2>1. PICK f : f = [i \in 0..Len(names) |-> f[i]] /\ Obeys(f, k)
    OBVIOUS
  <2> DEFINE e == [i \in 0..Len(names) |-> Left(f, h, i)]
  <2>2. k \in Nat /\ Len(names) \in Nat
    OBVIOUS
  <2>3. \A i \in 0..Len(names) : i < k => e[i] = f[i]
    BY <2>1
  <2>4. ASSUME NEW i \in 0..Len(names), i < k + 1 PROVE e[i] = Left(e, h, i)
    <3>1. e[i] = Left(f, h, i)
      OBVIOUS
    <3>2. i = 0 \/ (i - 1 \in 0..Len(names) /\ i - 1 < k)
      BY <2>2, <2>4
    <3>3. Left(e, h, i) = Left(f, h, i)
      <4> HIDE DEF e
      <4> QED
        BY <2>3, <3>2 DEF Left
    <3> QED
      BY <3>1, <3>3
  <2>5. e = [i \in 0..Len(names) |-> e[i]] /\ Obeys(e, k + 1)
    BY <2>4
  <2>6. \E d : d = [i \in 0..Len(names) |-> d[i]] /\ Obeys(d, k + 1)
    <3> HIDE DEF e, Obeys
    <3> QED
      BY <2>5
  <2>7. k + 1 \in Nat
    BY <2>2
  <2> HIDE DEF Obeys
  <2> QED
    BY <2>6, <2>7
<1>3. P = Nat
  <2> HIDE DEF P
  <2>1. P \in SUBSET Nat
    BY DEF P
  <2> QED
    BY <1>1, <1>2, <2>1, Induction
<1>4. Len(names) + 1 \in P
  <2> HIDE DEF P
  <2>1. Len(names) + 1 \in Nat
    OBVIOUS
  <2> QED
    BY <1>3, <2>1
<1>5. PICK f : f = [i \in 0..Len(names) |-> f[i]] /\ Obeys(f, Len(names) + 1)
  BY <1>4
<1>6. \A i \in 0..Len(names) : f[i] = Left(f, h, i)
  BY <1>5
<1>7. Leaving(f, h)
  BY <1>5, <1>6 DEF Leaving
<1> QED
  BY <1>7

LEMMA CompactedLeaves ==
    ASSUME names \in Seq(Named), NEW h
    PROVE  \E k : Leaving(k, h) /\ Compacted(h) = k[Len(names)]
<1> DEFINE k == CHOOSE f : Leaving(f, h)
<1>1. Leaving(k, h)
  BY LeavingExists
<1>2. Compacted(h) = k[Len(names)]
  BY DEF Compacted, Leaving, Left
<1> QED
  BY <1>1, <1>2

LEMMA CompactedKeeps ==
    ASSUME names \in Seq(Named), Names \subseteq Nat, Sorted, NEW h
    PROVE  OfFirst(Compacted(h), h, Len(names))
<1>1. PICK k : Leaving(k, h) /\ Compacted(h) = k[Len(names)]
  BY CompactedLeaves
<1>2. \A i \in 0..Len(names) : k[i] = Left(k, h, i)
  BY <1>1, Zenon DEF Leaving
<1>3. Len(names) \in Nat
  OBVIOUS
<1> DEFINE P == {n \in Nat : n <= Len(names) => OfFirst(k[n], h, n)}
<1>4. 0 \in P
  <2>1. k[0] = <<>>
    BY <1>2, <1>3 DEF Left
  <2> DEFINE e == k[0]
  <2>2. e \in Seq(Named) /\ Len(e) = 0
    BY <2>1
  <2>3. \A i \in 1..Len(e) : FALSE
    BY <2>2
  <2> HIDE DEF e
  <2>4. OfFirst(e, h, 0)
    BY <2>2, <2>3 DEF OfFirst
  <2> QED
    BY <2>4 DEF e
<1>5. ASSUME NEW n \in P PROVE n + 1 \in P
  <2>1. n \in Nat
    OBVIOUS
  <2> SUFFICES ASSUME n + 1 <= Len(names) PROVE OfFirst(k[n + 1], h, n + 1)
    BY <2>1
  <2>2. OfFirst(k[n], h, n)
    BY <1>3, <2>1
  <2>3. n + 1 \in 1..Len(names) /\ n + 1 \in 0..Len(names) /\ (n + 1) - 1 = n
    BY <1>3, <2>1
  <2>4. k[n + 1] = IF names[n + 1].handle = h THEN k[n] ELSE Append(k[n], names[n + 1])
    BY <1>2, <2>3 DEF Left
  <2> DEFINE s == k[n]
             t == names[n + 1]
  <2>5. s \in Seq(Named) /\ t \in Named
    BY <2>2, <2>3, NamedItems DEF OfFirst
  <2>6. ASSUME NEW m \in 1..Len(s)
        PROVE  /\ \E j \in 1..Len(names) : j <= n + 1 /\ s[m] = names[j] /\ names[j].handle # h
               /\ s[m].name < t.name
    <3>1. PICK j \in 1..Len(names) : j <= n /\ s[m] = names[j] /\ names[j].handle # h
      BY <2>2 DEF OfFirst
    <3>2. j < n + 1 /\ j <= n + 1
      BY <2>1, <3>1
    <3>3. names[j].name < names[n + 1].name
      BY <2>3, <3>2 DEF Sorted
    <3> QED
      BY <3>1, <3>2, <3>3
  <2>7. \A i, m \in 1..Len(s) : i < m => s[i].name < s[m].name
    BY <2>2 DEF OfFirst
  <2> HIDE DEF s
  <2>8. CASE t.handle = h
    BY <2>4, <2>5, <2>6, <2>7, <2>8 DEF OfFirst, s
  <2>9. CASE t.handle # h
    <3> DEFINE u == Append(s, t)
    <3>1. /\ u \in Seq(Named) /\ Len(u) = Len(s) + 1 /\ u[Len(s) + 1] = t
          /\ \A m \in 1..Len(s) : u[m] = s[m]
      <4> HIDE DEF Named
      <4> QED
        BY <2>5
    <3>2. Len(s) \in Nat
      BY <2>5
    <3>3. k[n + 1] = u
      BY <2>4, <2>9 DEF s
    <3> HIDE DEF u, t
    <3>4. \A m \in 1..Len(u) : m \in 1..Len(s) \/ m = Len(s) + 1
      BY <3>1, <3>2
    <3>5. \A m \in 1..Len(u) : \E j \in 1..Len(names) :
              j <= n + 1 /\ u[m] = names[j] /\ names[j].handle # h
      BY <2>1, <2>3, <2>6, <2>9, <3>1, <3>4 DEF t
    <3>6. ASSUME NEW i \in 1..Len(u), NEW m \in 1..Len(u), i < m
          PROVE  u[i].name < u[m].name
      <4>1. i \in 1..Len(s)
        BY <3>1, <3>2, <3>6
      <4> QED
        BY <2>6, <2>7, <3>1, <3>4, <3>6, <4>1
    <3> QED
      BY <3>1, <3>3, <3>5, <3>6 DEF OfFirst
  <2> QED
    BY <2>8, <2>9
<1>6. P = Nat
  <2> HIDE DEF P
  <2>1. P \in SUBSET Nat
    BY DEF P
  <2> QED
    BY <1>4, <1>5, <2>1, Induction
<1> QED
  BY <1>1, <1>3, <1>6
-----------------------------------------------------------------------------
(* The inductive invariant.                                                *)
SlotOf(c) == Hash(given[c], Size)

(* A context that is registered is in the slot of its handle, and nobody   *)
(* else is in a slot, whatever the size of the table.                      *)
Placed(slots, size, g) ==
    /\ slots \in [0..(size - 1) -> Contexts \cup {None}]
    /\ \A c \in Contexts : g[c] # 0 => slots[Hash(g[c], size)] = c
    /\ \A n \in 0..(size - 1) :
           slots[n] # None => g[slots[n]] # 0 /\ n = Hash(g[slots[n]], size)

(* skynet_context_new assigns what skynet_handle_register has given, and   *)
(* one context at most waits for it.                                       *)
Assigned ==
    /\ \A c \in Contexts : handle[c] # 0 => handle[c] = given[c]
    /\ \A c, d \in InFlight : c = d

NamesInv ==
    /\ Sorted
    /\ \A n \in 1..Len(names) : (\E c \in Contexts : handle[c] = names[n].handle) \/ names[n].late

(* Who is still to be retired is ahead of the scan, unless this pass will  *)
(* be followed by another; it is not passed over when the scan stands at   *)
(* its slot.                                                               *)
Ahead(t) ==
    \/ hits > 0
    \/ SlotOf(t) > pos
    \/ SlotOf(t) = pos /\ (pass = "exit" => handle[t] = exiting)
AbortInv ==
    /\ hits <= pos /\ (pass = "exit" => pos < Size /\ exiting # 0)
    /\ pass = "no" => targets = {}
    /\ \A t \in targets : handle[t] # 0 /\ Ahead(t)

IInv ==
    /\ TypeOK
    /\ Placed(slot, Size, given)
    /\ Assigned
    /\ NamesInv
    /\ AbortInv

LEMMA Sizes ==
    ASSUME NEW n \in Nat \ {0}, NEW S, NEW f \in [0..(n - 1) -> S]
    PROVE  Cardinality(DOMAIN f) = n
<1>1. DOMAIN f = 0..(n - 1)
  OBVIOUS
<1>2. Cardinality(0..(n - 1)) = n
  BY FS_Interval
<1> QED
  BY <1>1, <1>2

LEMMA Table ==
    ASSUME TypeOK, HandleAssumption
    PROVE  /\ Size \in Nat \ {0} /\ Size \in 1..(HandleMask + 1)
           /\ slot \in [0..(Size - 1) -> Contexts \cup {None}]
           /\ DOMAIN slot = 0..(Size - 1)
<1>1. PICK n \in 1..(HandleMask + 1) : slot \in [0..(n - 1) -> Contexts \cup {None}]
  BY DEF TypeOK
<1>2. n \in Nat \ {0} /\ HandleMask \in Nat
  BY DEF HandleAssumption
<1>3. Size = n
  BY <1>1, <1>2, Sizes DEF Size
<1> QED
  BY <1>1, <1>2, <1>3

(* The hash of a handle is a slot of the table.                            *)
LEMMA Hashes ==
    ASSUME NEW h \in Nat, NEW n \in Nat \ {0}
    PROVE  Hash(h, n) \in 0..(n - 1)
BY DEF Hash

(* What skynet_handle_grab finds: the context that has the handle.         *)
LEMMA GrabIff ==
    ASSUME TypeOK, HandleAssumption, Placed(slot, Size, given), Assigned,
           NEW h \in 1..HandleMask
    PROVE  /\ Grab(h) \in Contexts \cup {None}
           /\ \A c \in Contexts : Grab(h) = c <=> handle[c] = h
<1>1. Size \in Nat \ {0} /\ slot \in [0..(Size - 1) -> Contexts \cup {None}]
  BY Table
<1>2. h \in Nat /\ h # 0 /\ None \notin Contexts
  BY DEF HandleAssumption
<1>3. Hash(h, Size) \in 0..(Size - 1)
  BY <1>1, <1>2, Hashes
<1>4. Grab(h) \in Contexts \cup {None}
  BY <1>1, <1>3 DEF Grab
<1>5. ASSUME NEW c \in Contexts, Grab(h) = c PROVE handle[c] = h
  BY <1>2, <1>5, Zenon DEF Grab
<1>6. ASSUME NEW c \in Contexts, handle[c] = h PROVE Grab(h) = c
  <2>1. given[c] = h
    BY <1>2, <1>6 DEF Assigned
  <2>2. slot[Hash(h, Size)] = c
    BY <1>2, <2>1 DEF Placed
  <2> QED
    BY <1>2, <1>6, <2>2 DEF Grab
<1> QED
  BY <1>4, <1>5, <1>6
-----------------------------------------------------------------------------
(* The handles that skynet_handle_register tries.                          *)
LEMMA Tries ==
    ASSUME TypeOK, HandleAssumption, NEW i \in Nat
    PROVE  /\ Try(i) \in 1..HandleMask
           /\ index + i <= HandleMask => Try(i) = index + i
<1>1. index \in Nat /\ index >= 1 /\ HandleMask \in Nat \ {0}
  BY DEF TypeOK, HandleAssumption
<1>2. index + i - 1 \in Nat
  BY <1>1
<1>3. (index + i - 1) % HandleMask \in 0..(HandleMask - 1)
  BY <1>1, <1>2
<1>4. index + i <= HandleMask => (index + i - 1) % HandleMask = index + i - 1
  <2> SUFFICES ASSUME index + i <= HandleMask
               PROVE  (index + i - 1) % HandleMask = index + i - 1
    OBVIOUS
  <2>1. index + i - 1 \in 0..(HandleMask - 1) /\ index + i - 1 \in Int
    BY <1>1, <1>2
  <2>2. index + i - 1 = HandleMask * 0 + (index + i - 1)
    BY <1>1, <1>2
  <2> DEFINE a == index + i - 1
  <2> HIDE DEF a
  <2>3. a \in Int /\ a \in 0..(HandleMask - 1) /\ a = HandleMask * 0 + a
    BY <2>1, <2>2 DEF a
  <2>4. a % HandleMask = a
    BY <1>1, <2>3, Remainder
  <2> QED
    BY <2>4 DEF a
<1> QED
  BY <1>1, <1>3, <1>4 DEF Try

LEMMA Least ==
    ASSUME NEW S \in SUBSET Nat, S # {}
    PROVE  \E k \in S : \A l \in S : k <= l
<1>1. PICK k \in S : \A l \in S : ~(<<l, k>> \in OpToRel(<, Nat))
  BY WFMin, NatLessThanWellFounded
<1>2. \A l \in S : ~(l < k)
  BY <1>1 DEF OpToRel
<1> QED
  BY <1>2

(* As long as the handles have not come to their end, the search is for    *)
(* every slot once: it misses none that is empty.                          *)
LEMMA SearchesAll ==
    ASSUME TypeOK, HandleAssumption, Free(slot, Size) = {}, index + Size - 1 <= HandleMask,
           NEW n \in DOMAIN slot
    PROVE  slot[n] # None
<1>1. /\ Size \in Nat \ {0} /\ n \in 0..(Size - 1)
      /\ index \in Nat /\ HandleMask \in Nat
  BY Table DEF TypeOK, HandleAssumption
<1>2. PICK i \in 0..(Size - 1) : (index + i) % Size = n
  BY <1>1, InARow
<1>3. i \in Nat /\ index + i <= HandleMask
  BY <1>1
<1>4. Hash(Try(i), Size) = n
  BY <1>2, <1>3, Tries DEF Hash
<1> QED
  BY <1>4 DEF Free

(* What skynet_handle_register does with the slots it has found.           *)
LEMMA PutPlaces ==
    ASSUME TypeOK, HandleAssumption, NEW c \in Contexts, given[c] = 0,
           NEW slots, NEW size \in Nat \ {0}, Placed(slots, size, given), Put(c, slots, size)
    PROVE  /\ Placed(slot', size, given') /\ Size' = size
           /\ index' \in 1..(HandleMask + 1)
           /\ \E h \in 1..HandleMask : /\ given' = [given EXCEPT ![c] = h]
                                        /\ issued' = issued \cup {h}
<1> DEFINE i == CHOOSE k \in Free(slots, size) : \A l \in Free(slots, size) : k <= l
           h == Try(i)
           p == Hash(h, size)
<1>1. i \in Free(slots, size)
  <2>1. Free(slots, size) \in SUBSET Nat /\ Free(slots, size) # {}
    BY DEF Free, Put
  <2>2. \E k \in Free(slots, size) : \A l \in Free(slots, size) : k <= l
    BY <2>1, Least
  <2> QED
    BY <2>2
<1>2. /\ slot' = [slots EXCEPT ![p] = c] /\ given' = [given EXCEPT ![c] = h]
      /\ index' = h + 1 /\ issued' = issued \cup {h}
  BY DEF Put
<1>3. i \in Nat /\ slots[p] = None
  BY <1>1 DEF Free
<1> HIDE DEF i
<1>4. h \in 1..HandleMask /\ HandleMask \in Nat
  BY <1>3, Tries DEF HandleAssumption
<1> HIDE DEF h
<1>5. p \in 0..(size - 1)
  BY <1>4, Hashes
<1>6. given \in [Contexts -> 0..HandleMask] /\ None \notin Contexts
  BY DEF TypeOK, HandleAssumption
<1>7. slots \in [0..(size - 1) -> Contexts \cup {None}]
  BY DEF Placed
<1>8. slot' \in [0..(size - 1) -> Contexts \cup {None}]
  BY <1>2, <1>5, <1>7
<1>9. Size' = size
  BY <1>8, Sizes DEF Size
<1>10. ASSUME NEW d \in Contexts, given'[d] # 0 PROVE slot'[Hash(given'[d], size)] = d
  <2>1. CASE d = c
    BY <1>2, <1>5, <1>6, <1>7, <2>1
  <2>2. CASE d # c
    <3>1. given'[d] = given[d] /\ given[d] \in Nat
      BY <1>2, <1>4, <1>6, <2>2
    <3>2. slots[Hash(given[d], size)] = d /\ Hash(given[d], size) \in 0..(size - 1)
      BY <1>10, <3>1, Hashes DEF Placed
    <3> QED
      BY <1>2, <1>3, <1>6, <1>7, <3>1, <3>2
  <2> QED
    BY <2>1, <2>2
<1>11. ASSUME NEW n \in 0..(size - 1), slot'[n] # None
       PROVE  given'[slot'[n]] # 0 /\ n = Hash(given'[slot'[n]], size)
  <2>1. CASE n = p
    <3>1. slot'[n] = c /\ given'[c] = h
      BY <1>2, <1>6, <1>7, <2>1
    <3> QED
      BY <1>4, <2>1, <3>1
  <2>2. CASE n # p
    <3>1. slot'[n] = slots[n] /\ slots[n] \in Contexts
      BY <1>2, <1>7, <1>11, <2>2
    <3>2. given[slots[n]] # 0 /\ n = Hash(given[slots[n]], size)
      BY <1>11, <3>1 DEF Placed
    <3>3. given'[slots[n]] = given[slots[n]]
      BY <1>2, <1>6, <3>1, <3>2
    <3> QED
      BY <3>1, <3>2, <3>3
  <2> QED
    BY <2>1, <2>2
<1>12. index' \in 1..(HandleMask + 1)
  BY <1>2, <1>4
<1> QED
  BY <1>2, <1>4, <1>8, <1>9, <1>10, <1>11, <1>12, Zenon DEF Placed
-----------------------------------------------------------------------------
(* The expansion.                                                          *)
LEMMA NoneInFlight ==
    ASSUME Assigned, Launchers = 1, Cardinality(InFlight) < Launchers
    PROVE  InFlight = {}
<1> SUFFICES ASSUME InFlight # {} PROVE FALSE
  OBVIOUS
<1>1. PICK c \in InFlight : InFlight = {c}
  BY DEF Assigned
<1>2. Cardinality({c}) = 1
  BY FS_Singleton
<1> QED
  BY <1>1, <1>2

(* A handle's low bits are its slot: the slots of a table that is full go  *)
(* to slots of their own, and none goes down.                              *)
LEMMA Moves ==
    ASSUME TypeOK, HandleAssumption, NEW h \in Nat
    PROVE  /\ Hash(h, 2 * Size) \in 0..(2 * Size - 1)
           /\ Hash(h, 2 * Size) % Size = Hash(h, Size)
           /\ Hash(h, 2 * Size) >= Hash(h, Size)
<1> DEFINE n == Size
           m == 2 * Size
<1>1. n \in Nat \ {0} /\ m \in Nat \ {0} /\ m = 2 * n
  BY Table
<1> HIDE DEF n, m
<1>2. (h % m) % n = h % n /\ h % m \in 0..(m - 1) /\ h % m >= h % n
  BY <1>1, LowBits
<1> QED
  BY <1>2 DEF Hash, n, m

LEMMA ExpansionPlaces ==
    ASSUME TypeOK, HandleAssumption, Placed(slot, Size, given), Assigned, InFlight = {},
           \A n \in DOMAIN slot : slot[n] # None
    PROVE  ~Collides /\ Placed(Expanded, 2 * Size, given)
<1>1. /\ Size \in Nat \ {0} /\ slot \in [0..(Size - 1) -> Contexts \cup {None}]
      /\ DOMAIN slot = 0..(Size - 1) /\ given \in [Contexts -> 0..HandleMask]
      /\ HandleMask \in Nat /\ None \notin Contexts
  BY Table DEF TypeOK, HandleAssumption
<1>2. ASSUME NEW n \in DOMAIN slot
      PROVE  /\ slot[n] \in Contexts /\ given[slot[n]] \in Nat /\ given[slot[n]] # 0
             /\ n = Hash(given[slot[n]], Size)
             /\ Moved(n) = Hash(given[slot[n]], 2 * Size)
             /\ Moved(n) % Size = n
  <2>1. slot[n] \in Contexts /\ given[slot[n]] \in Nat /\ given[slot[n]] # 0
    BY <1>1 DEF Placed
  <2>2. n = Hash(given[slot[n]], Size)
    BY <1>1 DEF Placed
  <2>3. handle[slot[n]] = given[slot[n]]
    BY <2>1 DEF Assigned, InFlight, Registered
  <2>4. Moved(n) = Hash(given[slot[n]], 2 * Size)
    BY <2>3 DEF Moved
  <2> QED
    BY <2>1, <2>2, <2>4, Moves
<1>3. \A n, m \in DOMAIN slot : Moved(n) = Moved(m) => n = m
  BY <1>2
<1>4. ~Collides
  BY <1>3 DEF Collides
<1> DEFINE From(h) == {n \in DOMAIN slot : Moved(n) = h}
<1>5. ASSUME NEW n \in DOMAIN slot
      PROVE  Moved(n) \in 0..(2 * Size - 1) /\ Expanded[Moved(n)] = slot[n]
  <2>1. Moved(n) \in 0..(2 * Size - 1)
    BY <1>2, Moves
  <2>2. From(Moved(n)) = {n}
    BY <1>3
  <2>3. Expanded[Moved(n)] = slot[CHOOSE k \in From(Moved(n)) : TRUE]
    BY <2>1, <2>2 DEF Expanded
  <2> HIDE DEF From
  <2>4. (CHOOSE k \in {n} : TRUE) = n
    OBVIOUS
  <2> QED
    BY <2>1, <2>2, <2>3, <2>4
<1>6. ASSUME NEW h \in 0..(2 * Size - 1)
      PROVE  Expanded[h] = None \/ \E n \in DOMAIN slot : Moved(n) = h /\ Expanded[h] = slot[n]
  <2>1. CASE From(h) = {}
    BY <2>1 DEF Expanded
  <2>2. CASE From(h) # {}
    BY <1>5, <2>2
  <2> QED
    BY <2>1, <2>2
<1>7. Expanded = [h \in 0..(2 * Size - 1) |-> Expanded[h]]
  BY DEF Expanded
<1>8. \A h \in 0..(2 * Size - 1) : Expanded[h] \in Contexts \cup {None}
  BY <1>2, <1>6
<1> HIDE DEF From
<1>9. Expanded \in [0..(2 * Size - 1) -> Contexts \cup {None}]
  BY <1>7, <1>8, Zenon
<1>10. ASSUME NEW c \in Contexts, given[c] # 0 PROVE Expanded[Hash(given[c], 2 * Size)] = c
  <2> DEFINE n == Hash(given[c], Size)
  <2>1. n \in DOMAIN slot /\ slot[n] = c
    BY <1>1, <1>10, Hashes DEF Placed
  <2> QED
    BY <1>2, <1>5, <2>1
<1>11. ASSUME NEW h \in 0..(2 * Size - 1), Expanded[h] # None
       PROVE  given[Expanded[h]] # 0 /\ h = Hash(given[Expanded[h]], 2 * Size)
  BY <1>2, <1>6, <1>11
<1> QED
  BY <1>4, <1>9, <1>10, <1>11 DEF Placed
-----------------------------------------------------------------------------
(* skynet_handle_retire.                                                   *)
LEMMA RetiresNames ==
    ASSUME HandleAssumption, names \in Seq(Named), NamesInv, NEW h, NEW c \in Contexts,
           handle[c] = h, \A d \in Contexts : d # c => handle'[d] = handle[d],
           names' = Compacted(h)
    PROVE  names' \in Seq(Named) /\ NamesInv'
<1>1. Names \subseteq Nat
  BY DEF HandleAssumption
<1>2. OfFirst(names', h, Len(names))
  BY <1>1, CompactedKeeps DEF NamesInv
<1>3. names' \in Seq(Named) /\ Sorted'
  BY <1>2 DEF OfFirst, Sorted
<1>4. ASSUME NEW n \in 1..Len(names')
      PROVE  (\E d \in Contexts : handle'[d] = names'[n].handle) \/ names'[n].late
  <2>1. PICK j \in 1..Len(names) : names'[n] = names[j] /\ names[j].handle # h
    BY <1>2 DEF OfFirst
  <2>2. CASE names[j].late
    BY <2>1, <2>2
  <2>3. CASE ~names[j].late
    <3>1. PICK d \in Contexts : handle[d] = names[j].handle
      BY <2>3 DEF NamesInv
    <3>2. d # c
      BY <2>1, <3>1
    <3> QED
      BY <2>1, <3>1, <3>2
  <2> QED
    BY <2>2, <2>3
<1> QED
  BY <1>3, <1>4 DEF NamesInv

LEMMA Retires ==
    ASSUME TypeOK, HandleAssumption, Placed(slot, Size, given), Assigned, NamesInv,
           NEW h \in 1..HandleMask, Retired(h)
    PROVE  /\ Placed(slot', Size, given') /\ Size' = Size
           /\ handle' \in [Contexts -> 0..HandleMask] /\ given' \in [Contexts -> 0..HandleMask]
           /\ names' \in Seq(Named) /\ Assigned' /\ NamesInv'
           /\ \A d \in Contexts : d # Grab(h) => handle'[d] = handle[d] /\ given'[d] = given[d]
<1>1. /\ Size \in Nat \ {0} /\ slot \in [0..(Size - 1) -> Contexts \cup {None}]
      /\ handle \in [Contexts -> 0..HandleMask] /\ given \in [Contexts -> 0..HandleMask]
      /\ names \in Seq(Named) /\ HandleMask \in Nat /\ None \notin Contexts
  BY Table DEF TypeOK, HandleAssumption
<1>2. CASE Grab(h) = None
  <2>1. UNCHANGED <<slot, handle, given, names>>
    BY <1>2 DEF Retired
  <2>2. Size' = Size
    BY <2>1 DEF Size
  <2>3. Assigned'
    BY <2>1 DEF Assigned, InFlight, Registered
  <2>4. NamesInv'
    BY <2>1 DEF NamesInv, Sorted
  <2> QED
    BY <1>1, <2>1, <2>2, <2>3, <2>4
<1>3. CASE Grab(h) # None
  <2> DEFINE c == Grab(h)
             p == Hash(h, Size)
  <2>1. c \in Contexts /\ handle[c] = h /\ given[c] = h
    BY <1>3, GrabIff DEF Assigned
  <2>2. /\ slot' = [slot EXCEPT ![p] = None]
        /\ handle' = [handle EXCEPT ![c] = 0] /\ given' = [given EXCEPT ![c] = 0]
        /\ names' = Compacted(h)
    BY <1>3 DEF Retired
  <2> HIDE DEF c
  <2>3. p \in 0..(Size - 1) /\ slot[p] = c
    <3>1. h \in Nat /\ h # 0
      BY <1>1
    <3>2. p \in 0..(Size - 1)
      BY <1>1, <3>1, Hashes
    <3>3. slot[Hash(given[c], Size)] = c
      BY <2>1, <3>1 DEF Placed
    <3> QED
      BY <2>1, <3>2, <3>3
  <2> HIDE DEF p
  <2>4. slot' \in [0..(Size - 1) -> Contexts \cup {None}]
    BY <1>1, <2>2, <2>3
  <2>5. Size' = Size
    BY <1>1, <2>4, Sizes DEF Size
  <2>6. /\ handle' \in [Contexts -> 0..HandleMask] /\ given' \in [Contexts -> 0..HandleMask]
        /\ handle'[c] = 0 /\ given'[c] = 0
        /\ \A d \in Contexts : d # c => handle'[d] = handle[d] /\ given'[d] = given[d]
    BY <1>1, <2>1, <2>2
  <2>7. ASSUME NEW d \in Contexts, given'[d] # 0 PROVE slot'[Hash(given'[d], Size)] = d
    <3>1. d # c /\ given'[d] = given[d] /\ given[d] \in Nat
      BY <1>1, <2>6, <2>7
    <3>2. slot[Hash(given[d], Size)] = d /\ Hash(given[d], Size) \in 0..(Size - 1)
      BY <1>1, <2>7, <3>1, Hashes DEF Placed
    <3>3. Hash(given[d], Size) # p
      BY <2>3, <3>1, <3>2
    <3> QED
      BY <1>1, <2>2, <3>1, <3>2, <3>3
  <2>8. ASSUME NEW n \in 0..(Size - 1), slot'[n] # None
        PROVE  given'[slot'[n]] # 0 /\ n = Hash(given'[slot'[n]], Size)
    <3>1. n # p /\ slot'[n] = slot[n] /\ slot[n] \in Contexts
      BY <1>1, <2>2, <2>3, <2>8
    <3>2. given[slot[n]] # 0 /\ n = Hash(given[slot[n]], Size)
      BY <2>8, <3>1 DEF Placed
    <3>3. slot[n] # c
      <4>1. p = Hash(given[c], Size)
        BY <2>1 DEF p
      <4> QED
        BY <3>1, <3>2, <4>1
    <3> QED
      BY <2>6, <3>1, <3>2, <3>3
  <2>9. Placed(slot', Size, given')
    BY <2>4, <2>7, <2>8 DEF Placed
  <2>10. Assigned'
    <3>1. \A d \in Contexts : handle'[d] # 0 => handle'[d] = given'[d]
      BY <2>6 DEF Assigned
    <3>2. InFlight' \subseteq InFlight
      BY <2>6 DEF InFlight, Registered
    <3> QED
      BY <3>1, <3>2 DEF Assigned
  <2>11. names' \in Seq(Named) /\ NamesInv'
    BY <1>1, <2>1, <2>2, <2>6, RetiresNames
  <2> QED
    BY <2>5, <2>6, <2>9, <2>10, <2>11 DEF c
<1> QED
  BY <1>2, <1>3
-----------------------------------------------------------------------------
(* The steps.  What the scan has ahead of it stays there while others      *)
(* register and retire: a slot number never becomes less.                  *)
LEMMA AheadStays ==
    ASSUME AbortInv, TypeOK, HandleAssumption, UNCHANGED <<pass, pos, hits, exiting>>,
           Size' \in Nat, Size' >= Size, targets' \subseteq targets,
           \A t \in targets' : /\ handle'[t] = handle[t]
                               /\ SlotOf(t)' \in Nat /\ SlotOf(t)' >= SlotOf(t)
    PROVE  AbortInv'
<1>1. Size \in Nat /\ pos \in Nat
  <2>1. Size \in Nat
    BY Table
  <2>2. pos \in 0..Size
    BY DEF TypeOK
  <2> QED
    BY <2>1, <2>2
<1>2. ASSUME NEW t \in targets' PROVE handle'[t] # 0 /\ Ahead(t)'
  <2>1. t \in targets /\ handle[t] # 0 /\ Ahead(t) /\ handle'[t] = handle[t]
    BY DEF AbortInv
  <2>2. SlotOf(t) \in Nat
    <3>1. t \in Contexts /\ given[t] \in Nat /\ Size \in Nat \ {0}
      BY <2>1, Table, SMTT(60) DEF TypeOK, HandleAssumption
    <3> QED
      BY <3>1, Hashes DEF SlotOf
  <2>3. Ahead(t)'
    BY <1>1, <1>2, <2>1, <2>2 DEF Ahead
  <2> QED
    BY <2>1, <2>3
<1>3. hits' <= pos' /\ (pass' = "exit" => pos' < Size')
  BY <1>1 DEF AbortInv
<1>4. pass' = "no" => targets' = {}
  BY DEF AbortInv
<1> QED
  BY <1>2, <1>3, <1>4 DEF AbortInv

LEMMA PutStep ==
    ASSUME IInv, HandleAssumption, NEW c \in Contexts, given[c] = 0, InFlight = {},
           NEW slots, NEW size \in 1..(HandleMask + 1), size >= Size,
           \A h \in Nat : Hash(h, size) >= Hash(h, Size),
           Placed(slots, size, given), Put(c, slots, size),
           UNCHANGED <<handle, names, abort, broken>>, broken = "no"
    PROVE  IInv'
<1>1. /\ Size \in Nat \ {0} /\ HandleMask \in Nat /\ pos \in 0..Size /\ hits \in 0..Size
      /\ handle \in [Contexts -> 0..HandleMask] /\ given \in [Contexts -> 0..HandleMask]
      /\ targets \in SUBSET Contexts
  BY Table DEF IInv, TypeOK, HandleAssumption
<1>2. size \in Nat \ {0}
  BY <1>1
<1>3. /\ Placed(slot', size, given') /\ Size' = size
      /\ index' \in 1..(HandleMask + 1)
  BY <1>2, PutPlaces DEF IInv
<1>4. PICK h \in 1..HandleMask : given' = [given EXCEPT ![c] = h] /\ issued' = issued \cup {h}
  BY <1>2, PutPlaces DEF IInv
<1>5. /\ given' \in [Contexts -> 0..HandleMask] /\ given'[c] = h
      /\ \A d \in Contexts : d # c => given'[d] = given[d]
  BY <1>1, <1>4
<1>6. handle[c] = 0 /\ \A d \in Contexts : given[d] # 0 => handle[d] = given[d]
  BY <1>1 DEF IInv, Assigned, InFlight, Registered
<1>7. TypeOK'
  <2>1. slot' \in [0..(size - 1) -> Contexts \cup {None}]
    BY <1>3 DEF Placed
  <2>2. pos' \in 0..Size' /\ hits' \in 0..Size'
    BY <1>1, <1>2, <1>3 DEF abort
  <2> QED
    BY <1>3, <1>4, <1>5, <2>1, <2>2 DEF IInv, TypeOK, abort
<1>8. Assigned'
  <2>1. InFlight' = {c}
    BY <1>1, <1>5, <1>6 DEF InFlight, Registered
  <2>2. \A d \in Contexts : handle'[d] # 0 => handle'[d] = given'[d]
    BY <1>5, <1>6 DEF IInv, Assigned
  <2> QED
    BY <2>1, <2>2 DEF Assigned
<1>9. NamesInv'
  BY DEF IInv, NamesInv, Sorted
<1>10. AbortInv'
  <2>1. ASSUME NEW t \in targets'
        PROVE  /\ handle'[t] = handle[t]
               /\ SlotOf(t)' \in Nat /\ SlotOf(t)' >= SlotOf(t)
    <3>1. t \in Contexts /\ handle[t] # 0 /\ t # c
      BY <1>1, <1>6 DEF IInv, AbortInv, abort
    <3>2. given'[t] = given[t] /\ given[t] \in Nat
      BY <1>1, <1>5, <3>1
    <3>3. SlotOf(t)' = Hash(given[t], size) /\ SlotOf(t) = Hash(given[t], Size)
      BY <1>3, <3>2 DEF SlotOf
    <3>4. Hash(given[t], size) \in 0..(size - 1)
      BY <1>2, <3>2, Hashes
    <3>5. handle'[t] = handle[t]
      OBVIOUS
    <3>6. SlotOf(t)' \in Nat /\ SlotOf(t)' >= SlotOf(t)
      BY <1>2, <3>2, <3>3, <3>4
    <3> QED
      BY <3>5, <3>6
  <2> QED
    BY <1>2, <1>3, <2>1, AheadStays DEF IInv, abort
<1>11. Placed(slot', Size', given')
  BY <1>3
<1> QED
  BY <1>7, <1>8, <1>9, <1>10, <1>11 DEF IInv

LEMMA RegisterStep ==
    ASSUME IInv, HandleAssumption, Launchers = 1, NEW c \in Contexts, Register(c)
    PROVE  IInv'
<1>1. /\ Size \in Nat \ {0} /\ Size \in 1..(HandleMask + 1) /\ HandleMask \in Nat
      /\ DOMAIN slot = 0..(Size - 1) /\ given \in [Contexts -> 0..HandleMask]
  BY Table DEF IInv, TypeOK, HandleAssumption
<1>2. InFlight = {} /\ given[c] = 0 /\ broken = "no"
  BY NoneInFlight DEF Register, IInv, Registered
<1>3. UNCHANGED <<handle, names, abort>>
  BY DEF Register
<1>4. CASE Free(slot, Size) # {}
  <2>1. Put(c, slot, Size) /\ UNCHANGED broken
    BY <1>4 DEF Register
  <2>2. \A h \in Nat : Hash(h, Size) >= Hash(h, Size)
    BY <1>1, Hashes
  <2>3. Placed(slot, Size, given)
    BY DEF IInv
  <2> QED
    BY <1>1, <1>2, <1>3, <2>1, <2>2, <2>3, PutStep
<1>5. CASE Free(slot, Size) = {}
  <2>1. /\ 2 * Size - 1 <= HandleMask
        /\ broken' = IF None \in {slot[n] : n \in DOMAIN slot} THEN "null"
                     ELSE IF Collides THEN "assertion" ELSE "no"
        /\ IF broken' = "no" THEN Put(c, Expanded, 2 * Size)
           ELSE UNCHANGED <<slot, given, index, issued>>
    BY <1>5 DEF Register
  <2>2. CASE None \in {slot[n] : n \in DOMAIN slot}
    <3>1. broken' = "null" /\ UNCHANGED <<slot, given, index, issued>>
      BY <2>1, <2>2
    <3>2. Size' = Size
      BY <3>1 DEF Size
    <3>3. TypeOK' /\ Placed(slot', Size', given')
      BY <1>3, <3>1, <3>2 DEF IInv, TypeOK, abort
    <3>4. Assigned' /\ NamesInv'
      BY <1>3, <3>1 DEF IInv, Assigned, InFlight, Registered, NamesInv, Sorted
    <3>5. AbortInv'
      BY <1>3, <3>1, <3>2 DEF IInv, AbortInv, Ahead, SlotOf, abort
    <3> QED
      BY <3>3, <3>4, <3>5 DEF IInv
  <2>3. CASE None \notin {slot[n] : n \in DOMAIN slot}
    <3>1. ~Collides /\ Placed(Expanded, 2 * Size, given)
      BY <1>2, <2>3, ExpansionPlaces DEF IInv
    <3>2. broken' = "no" /\ Put(c, Expanded, 2 * Size)
      BY <2>1, <2>3, <3>1
    <3>3. \A h \in Nat : Hash(h, 2 * Size) >= Hash(h, Size)
      BY Moves DEF IInv
    <3>4. 2 * Size \in 1..(HandleMask + 1) /\ 2 * Size >= Size
      BY <1>1, <2>1
    <3> QED
      BY <1>2, <1>3, <3>1, <3>2, <3>3, <3>4, PutStep
  <2> QED
    BY <2>2, <2>3
<1> QED
  BY <1>4, <1>5

LEMMA AssignStep ==
    ASSUME IInv, HandleAssumption, NEW c \in Contexts, Assign(c)
    PROVE  IInv'
<1>1. /\ handle' = [handle EXCEPT ![c] = given[c]] /\ c \in InFlight
      /\ UNCHANGED <<slot, index, given, issued, names, abort, broken>>
  BY DEF Assign
<1>2. /\ handle \in [Contexts -> 0..HandleMask] /\ given \in [Contexts -> 0..HandleMask]
      /\ targets \in SUBSET Contexts /\ names \in Seq(Named) /\ Names \subseteq Nat
      /\ Size \in Nat
  BY Table DEF IInv, TypeOK, HandleAssumption
<1>3. /\ handle' \in [Contexts -> 0..HandleMask] /\ handle'[c] = given[c] /\ given[c] # 0
      /\ handle[c] = 0 /\ \A d \in Contexts : d # c => handle'[d] = handle[d]
  BY <1>1, <1>2 DEF InFlight, Registered
<1>4. Size' = Size
  BY <1>1 DEF Size
<1>5. TypeOK' /\ Placed(slot', Size', given')
  BY <1>1, <1>3, <1>4 DEF IInv, TypeOK, abort
<1>6. Assigned'
  <2>1. \A d \in Contexts : handle'[d] # 0 => handle'[d] = given'[d]
    BY <1>1, <1>3 DEF IInv, Assigned
  <2>2. InFlight' \subseteq InFlight
    BY <1>1, <1>3 DEF InFlight, Registered
  <2> QED
    BY <2>1, <2>2 DEF IInv, Assigned
<1>7. NamesInv'
  <2>1. ASSUME NEW n \in 1..Len(names), ~names[n].late
        PROVE  \E d \in Contexts : handle'[d] = names[n].handle
    <3>1. PICK d \in Contexts : handle[d] = names[n].handle
      BY <2>1 DEF IInv, NamesInv
    <3>2. names[n].handle \in 1..HandleMask /\ HandleMask \in Nat
      BY <1>2, NamedItems DEF HandleAssumption
    <3>3. d # c
      BY <1>3, <3>1, <3>2
    <3> QED
      BY <1>3, <3>1, <3>3
  <2> QED
    BY <1>1, <2>1 DEF IInv, NamesInv, Sorted
<1>8. AbortInv'
  <2>1. ASSUME NEW t \in targets'
        PROVE  /\ handle'[t] = handle[t]
               /\ SlotOf(t)' \in Nat /\ SlotOf(t)' >= SlotOf(t)
    <3>1. t \in Contexts /\ handle[t] # 0
      BY <1>1, <1>2, <2>1 DEF IInv, AbortInv, abort
    <3>2. SlotOf(t)' = SlotOf(t) /\ SlotOf(t) = Hash(given[t], Size)
      BY <1>1, <1>4 DEF SlotOf
    <3>3. Hash(given[t], Size) \in Nat
      <4>1. given[t] \in Nat /\ Size \in Nat \ {0}
        BY <1>2, <3>1, Table DEF IInv, HandleAssumption
      <4> QED
        BY <4>1, Hashes
    <3> QED
      BY <1>3, <3>1, <3>2, <3>3
  <2> QED
    BY <1>1, <1>2, <1>4, <2>1, AheadStays DEF IInv, abort
<1> QED
  BY <1>5, <1>6, <1>7, <1>8 DEF IInv

(* What both uses of skynet_handle_retire leave of the invariant.          *)
LEMMA RetireStep ==
    ASSUME IInv, HandleAssumption, NEW h \in 1..HandleMask, Retired(h),
           UNCHANGED <<index, issued, broken>>, broken = "no",
           pass' \in {"no", "scan", "exit"}, pos' \in 0..Size, hits' \in 0..Size,
           exiting' \in 0..HandleMask, targets' \subseteq targets, AbortInv'
    PROVE  IInv'
<1>1. /\ Placed(slot', Size, given') /\ Size' = Size
      /\ handle' \in [Contexts -> 0..HandleMask] /\ given' \in [Contexts -> 0..HandleMask]
      /\ names' \in Seq(Named) /\ Assigned' /\ NamesInv'
  BY Retires DEF IInv
<1>2. Size \in 1..(HandleMask + 1)
  BY Table DEF IInv
<1>3. TypeOK'
  <2>1. slot' \in [0..(Size - 1) -> Contexts \cup {None}]
    BY <1>1 DEF Placed
  <2> QED
    BY <1>1, <1>2, <2>1 DEF IInv, TypeOK
<1> QED
  BY <1>1, <1>3 DEF IInv

LEMMA KillStep ==
    ASSUME IInv, HandleAssumption, NEW h \in 1..HandleMask, Kill(h)
    PROVE  IInv'
<1>1. /\ Retired(h) /\ targets' = targets \ {Grab(h)} /\ broken = "no"
      /\ UNCHANGED <<index, issued, pass, pos, hits, exiting, broken>>
  BY DEF Kill
<1>2. /\ Size' = Size
      /\ \A d \in Contexts : d # Grab(h) => handle'[d] = handle[d] /\ given'[d] = given[d]
  BY <1>1, Retires DEF IInv
<1>3. /\ Size \in Nat \ {0} /\ given \in [Contexts -> 0..HandleMask] /\ HandleMask \in Nat
      /\ targets \in SUBSET Contexts
  BY Table DEF IInv, TypeOK, HandleAssumption
<1>4. ASSUME NEW t \in targets'
      PROVE  /\ handle'[t] = handle[t]
             /\ SlotOf(t)' \in Nat /\ SlotOf(t)' >= SlotOf(t)
  <2>1. t \in Contexts /\ handle'[t] = handle[t] /\ given'[t] = given[t] /\ given[t] \in Nat
    BY <1>1, <1>2, <1>3
  <2>2. SlotOf(t)' = SlotOf(t) /\ SlotOf(t) = Hash(given[t], Size)
    BY <1>2, <2>1 DEF SlotOf
  <2>3. Hash(given[t], Size) \in Nat
    BY <1>3, <2>1, Hashes
  <2> QED
    BY <2>1, <2>2, <2>3
<1>5. AbortInv'
  BY <1>1, <1>2, <1>3, <1>4, AheadStays DEF IInv
<1> QED
  BY <1>1, <1>5, RetireStep DEF IInv, TypeOK

(* _insert_name_before keeps the order when the name comes to the place    *)
(* that the search has found.                                              *)
LEMMA Inserts ==
    ASSUME names \in Seq(Named), Names \subseteq Nat, Sorted, NEW r \in Named,
           NEW p \in 1..(Len(names) + 1), Less(p, r.name), Greater(p - 1, r.name),
           names' = SubSeq(names, 1, p - 1) \o <<r>> \o SubSeq(names, p, Len(names))
    PROVE  /\ names' \in Seq(Named) /\ Sorted'
           /\ \A n \in 1..Len(names') : names'[n] = r \/ \E j \in 1..Len(names) : names'[n] = names[j]
<1> DEFINE a == SubSeq(names, 1, p - 1)
           b == SubSeq(names, p, Len(names))
           m == Len(names)
<1>1. m \in Nat /\ p \in Nat /\ 1 <= p /\ p <= m + 1
  OBVIOUS
<1>2. a \in Seq(Named) /\ Len(a) = p - 1 /\ \A i \in 1..(p - 1) : a[i] = names[i]
  <2> HIDE DEF Named
  <2> QED
    BY <1>1
<1>3. b \in Seq(Named) /\ Len(b) = m - p + 1 /\ \A i \in 1..(m - p + 1) : b[i] = names[p + i - 1]
  <2> HIDE DEF Named
  <2> QED
    BY <1>1
<1> HIDE DEF a, b
<1> DEFINE s == a \o <<r>> \o b
<1>4. names' = s
  BY DEF a, b
<1>5. /\ s \in Seq(Named) /\ Len(s) = m + 1
      /\ \A i \in 1..(p - 1) : s[i] = a[i]
      /\ s[p] = r
      /\ \A i \in (p + 1)..(m + 1) : s[i] = b[i - p]
  <2> HIDE DEF Named
  <2>1. a \o <<r>> \in Seq(Named) /\ Len(a \o <<r>>) = p
    BY <1>1, <1>2
  <2>2. \A i \in 1..p : (a \o <<r>>)[i] = IF i = p THEN r ELSE a[i]
    BY <1>1, <1>2
  <2> DEFINE q == a \o <<r>>
  <2>3. q \in Seq(Named) /\ Len(q) = p /\ \A i \in 1..p : q[i] = IF i = p THEN r ELSE a[i]
    BY <2>1, <2>2
  <2>4. s = q \o b
    OBVIOUS
  <2> HIDE DEF q, s
  <2>5. s \in Seq(Named) /\ Len(s) = m + 1
    <3>1. s \in Seq(Named) /\ Len(s) = Len(q) + Len(b)
      BY <1>3, <2>3, <2>4, ConcatProperties
    <3>2. p + (m - p + 1) = m + 1
      BY <1>1
    <3> QED
      BY <1>3, <2>3, <3>1, <3>2
  <2>6. \A i \in 1..p : s[i] = q[i]
    BY <1>1, <1>3, <2>3, <2>4
  <2>7. \A i \in (p + 1)..(m + 1) : s[i] = b[i - p]
    BY <1>1, <1>3, <2>3, <2>4
  <2> QED
    <3>1. \A i \in 1..(p - 1) : i \in 1..p /\ i # p
      BY <1>1
    <3>2. p \in 1..p
      BY <1>1
    <3> QED
      BY <2>3, <2>5, <2>6, <2>7, <3>1, <3>2
<1> HIDE DEF s
<1>6. ASSUME NEW i \in 1..(m + 1)
      PROVE  s[i] = IF i < p THEN names[i] ELSE IF i = p THEN r ELSE names[i - 1]
  <2>1. CASE i < p
    BY <1>1, <1>2, <1>5, <2>1
  <2>2. CASE i = p
    BY <1>5, <2>2
  <2>3. CASE i > p
    <3>1. i \in (p + 1)..(m + 1) /\ i - p \in 1..(m - p + 1) /\ p + (i - p) - 1 = i - 1
      BY <1>1, <2>3
    <3> QED
      BY <1>1, <1>3, <1>5, <2>3, <3>1
  <2> QED
    BY <1>1, <2>1, <2>2, <2>3
<1>7. ASSUME NEW i \in 1..(m + 1), NEW j \in 1..(m + 1), i < j PROVE s[i].name < s[j].name
  <2>1. CASE j < p
    BY <1>1, <1>6, <1>7, <2>1 DEF Sorted
  <2>2. CASE j = p
    <3>1. i \in 1..m /\ i < p
      BY <1>1, <1>7, <2>2
    <3>2. s[i] = names[i] /\ s[j] = r /\ names[i].name < r.name
      BY <1>1, <1>6, <2>2, <3>1 DEF Less
    <3> QED
      BY <3>2
  <2>3. CASE j > p
    <3>1. j - 1 \in 1..m /\ j - 1 > p - 1 /\ s[j] = names[j - 1]
      BY <1>1, <1>6, <2>3
    <3>2. r.name < names[j - 1].name
      BY <3>1 DEF Greater
    <3>3. CASE i < p
      BY <1>1, <1>6, <2>3, <3>1, <3>3 DEF Sorted
    <3>4. CASE i = p
      BY <1>1, <1>6, <3>1, <3>2, <3>4
    <3>5. CASE i > p
      <4>1. i - 1 \in 1..m /\ i - 1 < j - 1 /\ s[i] = names[i - 1]
        BY <1>1, <1>6, <1>7, <3>5
      <4> QED
        BY <3>1, <4>1 DEF Sorted
    <3> QED
      BY <1>1, <3>3, <3>4, <3>5
  <2> QED
    BY <1>1, <2>1, <2>2, <2>3
<1>8. Sorted'
  BY <1>4, <1>5, <1>7 DEF Sorted
<1>9. \A n \in 1..(m + 1) : s[n] = r \/ \E j \in 1..m : s[n] = names[j]
  <2>1. ASSUME NEW n \in 1..(m + 1) PROVE s[n] = r \/ \E j \in 1..m : s[n] = names[j]
    <3>1. (n < p /\ n \in 1..m) \/ n = p \/ (n > p /\ n - 1 \in 1..m)
      BY <1>1
    <3> QED
      BY <1>1, <1>6, <3>1
  <2> QED
    BY <2>1
<1> QED
  BY <1>4, <1>5, <1>8, <1>9

LEMMA NameStep ==
    ASSUME IInv, HandleAssumption, NEW h \in 1..HandleMask, NEW name \in Names,
           NameHandle(h, name)
    PROVE  IInv'
<1> DEFINE p == Search(name).at
           r == [name |-> name, handle |-> h, late |-> Grab(h) = None]
<1>1. /\ broken = "no" /\ ~Search(name).found
      /\ names' = SubSeq(names, 1, p - 1) \o <<r>> \o SubSeq(names, p, Len(names))
      /\ UNCHANGED <<table, abort, broken>>
  BY DEF NameHandle
<1>2. names \in Seq(Named) /\ Names \subseteq Nat /\ Sorted
  BY DEF IInv, TypeOK, NamesInv, HandleAssumption
<1>3. p \in 1..(Len(names) + 1) /\ Less(p, name) /\ Greater(p - 1, name)
  BY <1>1, <1>2, SearchIsRight DEF Right
<1>4. r \in Named /\ r.name = name /\ r.handle = h /\ r.late = (Grab(h) = None)
  BY DEF Named
<1> HIDE DEF p, r
<1>5. /\ names' \in Seq(Named) /\ Sorted'
      /\ \A n \in 1..Len(names') : names'[n] = r \/ \E j \in 1..Len(names) : names'[n] = names[j]
  BY <1>1, <1>2, <1>3, <1>4, Inserts
<1>6. NamesInv'
  <2>1. ASSUME NEW n \in 1..Len(names')
        PROVE  (\E c \in Contexts : handle'[c] = names'[n].handle) \/ names'[n].late
    <3>1. CASE names'[n] = r
      <4>1. Grab(h) = None \/ (handle[Grab(h)] = h /\ Grab(h) \in Contexts)
        <5>1. Grab(h) \in Contexts \cup {None} /\ \A c \in Contexts : Grab(h) = c <=> handle[c] = h
          BY GrabIff DEF IInv
        <5> QED
          BY <5>1
      <4> QED
        BY <1>1, <1>4, <3>1, <4>1 DEF table
    <3>2. CASE \E j \in 1..Len(names) : names'[n] = names[j]
      BY <1>1, <3>2 DEF IInv, NamesInv, table
    <3> QED
      BY <1>5, <3>1, <3>2
  <2> QED
    BY <1>5, <2>1 DEF NamesInv
<1>7. Size' = Size
  BY <1>1 DEF Size, table
<1>8. TypeOK' /\ Placed(slot', Size', given')
  BY <1>1, <1>5, <1>7 DEF IInv, TypeOK, table, abort
<1>9. Assigned'
  BY <1>1, <1>7 DEF IInv, Assigned, InFlight, Registered, table
<1>10. AbortInv'
  BY <1>1, <1>7 DEF IInv, AbortInv, Ahead, SlotOf, table, abort
<1> QED
  BY <1>6, <1>8, <1>9, <1>10 DEF IInv

(* The scan itself.                                                        *)
LEMMA ScanStep ==
    ASSUME IInv, HandleAssumption, UNCHANGED <<table, names, broken>>,
           pass' \in {"no", "scan", "exit"}, pos' \in 0..Size, hits' \in 0..Size,
           exiting' \in 0..HandleMask, targets' \in SUBSET Contexts, AbortInv'
    PROVE  IInv'
<1>1. Size' = Size
  BY DEF Size, table
<1>2. TypeOK' /\ Placed(slot', Size', given')
  BY <1>1 DEF IInv, TypeOK, table
<1>3. Assigned' /\ NamesInv'
  BY <1>1 DEF IInv, Assigned, InFlight, Registered, NamesInv, Sorted, table
<1> QED
  BY <1>2, <1>3 DEF IInv

LEMMA ScanFacts ==
    ASSUME IInv, HandleAssumption
    PROVE  /\ Size \in Nat \ {0} /\ HandleMask \in Nat /\ pos \in 0..Size /\ hits \in 0..Size
           /\ handle \in [Contexts -> 0..HandleMask] /\ given \in [Contexts -> 0..HandleMask]
           /\ targets \in SUBSET Contexts /\ exiting \in 0..HandleMask /\ hits <= pos
           /\ \A t \in Contexts : SlotOf(t) \in 0..(Size - 1)
           /\ \A t \in targets : handle[t] # 0 /\ Ahead(t)
           /\ \A t \in Contexts : handle[t] # 0 => given[t] = handle[t] /\ slot[SlotOf(t)] = t
<1>1. /\ Size \in Nat \ {0} /\ HandleMask \in Nat /\ pos \in 0..Size /\ hits \in 0..Size
      /\ handle \in [Contexts -> 0..HandleMask] /\ given \in [Contexts -> 0..HandleMask]
      /\ targets \in SUBSET Contexts /\ exiting \in 0..HandleMask
  BY Table DEF IInv, TypeOK, HandleAssumption
<1>2. hits <= pos /\ \A t \in targets : handle[t] # 0 /\ Ahead(t)
  BY DEF IInv, AbortInv
<1>3. ASSUME NEW t \in Contexts PROVE SlotOf(t) \in 0..(Size - 1)
  <2>1. given[t] \in Nat
    BY <1>1
  <2> QED
    BY <1>1, <2>1, Hashes DEF SlotOf
<1>4. ASSUME NEW t \in Contexts, handle[t] # 0
      PROVE  given[t] = handle[t] /\ slot[SlotOf(t)] = t
  BY <1>4 DEF IInv, Assigned, Placed, SlotOf
<1> QED
  BY <1>1, <1>2, <1>3, <1>4

LEMMA AbortBeginsStep ==
    ASSUME IInv, HandleAssumption, AbortBegins
    PROVE  IInv'
<1>1. /\ pass' = "scan" /\ pos' = 0 /\ hits' = 0 /\ exiting' = 0
      /\ targets' = Registered \ InFlight /\ UNCHANGED <<table, names, broken>>
  BY DEF AbortBegins
<1>2. /\ Size \in Nat \ {0} /\ HandleMask \in Nat
      /\ \A t \in Contexts : SlotOf(t) \in 0..(Size - 1)
  BY ScanFacts
<1>3. \A t \in targets' : t \in Contexts /\ handle[t] # 0
  BY <1>1 DEF Registered, InFlight
<1>4. Size' = Size /\ \A t \in Contexts : SlotOf(t)' = SlotOf(t) /\ handle'[t] = handle[t]
  BY <1>1 DEF Size, SlotOf, table
<1>5. \A t \in targets' : Ahead(t)'
  BY <1>1, <1>2, <1>3, <1>4 DEF Ahead
<1>6. AbortInv'
  BY <1>1, <1>3, <1>4, <1>5 DEF AbortInv
<1> QED
  BY <1>1, <1>2, <1>3, <1>6, ScanStep

LEMMA AbortReadsStep ==
    ASSUME IInv, HandleAssumption, AbortReads
    PROVE  IInv'
<1> DEFINE c == slot[pos]
<1>1. /\ pass = "scan" /\ pos < Size /\ UNCHANGED <<table, names, hits, targets, broken>>
      /\ IF c = None \/ (c # None /\ handle[c] = 0)
         THEN pos' = pos + 1 /\ UNCHANGED <<pass, exiting>>
         ELSE pass' = "exit" /\ exiting' = handle[c] /\ UNCHANGED pos
  BY DEF AbortReads
<1>2. /\ Size \in Nat \ {0} /\ HandleMask \in Nat /\ pos \in 0..Size /\ hits \in 0..Size
      /\ handle \in [Contexts -> 0..HandleMask]
      /\ targets \in SUBSET Contexts /\ exiting \in 0..HandleMask /\ hits <= pos
      /\ \A t \in Contexts : SlotOf(t) \in 0..(Size - 1)
      /\ \A t \in targets : handle[t] # 0 /\ Ahead(t)
      /\ \A t \in Contexts : handle[t] # 0 => slot[SlotOf(t)] = t
  BY ScanFacts
<1>3. Size' = Size /\ \A t \in Contexts : SlotOf(t)' = SlotOf(t) /\ handle'[t] = handle[t]
  BY <1>1 DEF Size, SlotOf, table
<1>4. c \in Contexts \cup {None} /\ None \notin Contexts
  BY <1>1, <1>2, Table DEF IInv, HandleAssumption
<1>5. CASE c = None \/ handle[c] = 0
  <2>1. pos' = pos + 1 /\ pass' = "scan" /\ exiting' = exiting /\ hits' = hits
    BY <1>1, <1>5
  <2>2. \A t \in targets : SlotOf(t) # pos
    BY <1>2, <1>4, <1>5
  <2>3. \A t \in targets' : Ahead(t)'
    BY <1>1, <1>2, <1>3, <2>1, <2>2 DEF Ahead
  <2>4. AbortInv'
    BY <1>1, <1>2, <1>3, <2>1, <2>3 DEF AbortInv
  <2> QED
    BY <1>1, <1>2, <2>1, <2>4, ScanStep
<1>6. CASE ~(c = None \/ handle[c] = 0)
  <2>1. pass' = "exit" /\ exiting' = handle[c] /\ pos' = pos /\ hits' = hits
    BY <1>1, <1>6
  <2>2. \A t \in targets' : Ahead(t)'
    BY <1>1, <1>2, <1>3, <2>1 DEF Ahead
  <2>3. AbortInv'
    BY <1>1, <1>2, <1>3, <2>1, <2>2 DEF AbortInv
  <2>4. exiting' \in 0..HandleMask
    BY <1>2, <1>4, <1>6, <2>1
  <2> QED
    BY <1>1, <1>2, <2>1, <2>3, <2>4, ScanStep
<1> QED
  BY <1>5, <1>6

LEMMA AbortEndsStep ==
    ASSUME IInv, HandleAssumption, AbortEnds
    PROVE  IInv'
<1>1. /\ pass = "scan" /\ pos = Size /\ pos' = 0 /\ hits' = 0
      /\ pass' = IF hits = 0 THEN "no" ELSE "scan"
      /\ UNCHANGED <<table, names, exiting, targets, broken>>
  BY DEF AbortEnds
<1>2. /\ Size \in Nat \ {0} /\ HandleMask \in Nat /\ hits \in 0..Size
      /\ targets \in SUBSET Contexts /\ exiting \in 0..HandleMask
      /\ \A t \in Contexts : SlotOf(t) \in 0..(Size - 1)
      /\ \A t \in targets : handle[t] # 0 /\ Ahead(t)
  BY ScanFacts
<1>3. Size' = Size /\ \A t \in Contexts : SlotOf(t)' = SlotOf(t) /\ handle'[t] = handle[t]
  BY <1>1 DEF Size, SlotOf, table
<1>4. hits = 0 => targets = {}
  BY <1>1, <1>2 DEF Ahead
<1>5. \A t \in targets' : Ahead(t)'
  BY <1>1, <1>2, <1>3 DEF Ahead
<1>6. AbortInv'
  BY <1>1, <1>2, <1>3, <1>4, <1>5 DEF AbortInv
<1> QED
  BY <1>1, <1>2, <1>6, ScanStep

LEMMA AbortExitsStep ==
    ASSUME IInv, HandleAssumption, AbortExits
    PROVE  IInv'
<1>1. /\ broken = "no" /\ pass = "exit" /\ Retired(exiting)
      /\ targets' = targets \ {Grab(exiting)}
      /\ hits' = IF Grab(exiting) # None THEN hits + 1 ELSE hits
      /\ pass' = "scan" /\ pos' = pos + 1 /\ exiting' = 0 /\ UNCHANGED <<index, issued, broken>>
  BY DEF AbortExits
<1>2. /\ Size \in Nat \ {0} /\ HandleMask \in Nat /\ pos \in 0..Size /\ hits \in 0..Size
      /\ given \in [Contexts -> 0..HandleMask]
      /\ targets \in SUBSET Contexts /\ exiting \in 0..HandleMask /\ hits <= pos
      /\ \A t \in Contexts : SlotOf(t) \in 0..(Size - 1)
      /\ \A t \in targets : handle[t] # 0 /\ Ahead(t)
  BY ScanFacts
<1>3. pos < Size /\ exiting # 0
  BY <1>1 DEF IInv, AbortInv
<1>4. exiting \in 1..HandleMask
  BY <1>2, <1>3
<1>5. /\ Size' = Size
      /\ \A d \in Contexts : d # Grab(exiting) => handle'[d] = handle[d] /\ given'[d] = given[d]
  BY <1>1, <1>4, Retires DEF IInv
<1>6. \A t \in targets : handle[t] = exiting => Grab(exiting) = t
  BY <1>2, <1>4, GrabIff DEF IInv
<1>7. ASSUME NEW t \in targets' PROVE handle'[t] # 0 /\ Ahead(t)'
  <2>1. /\ t \in targets /\ t \in Contexts /\ handle'[t] = handle[t]
        /\ SlotOf(t)' = SlotOf(t) /\ handle[t] # exiting
    BY <1>1, <1>2, <1>5, <1>6 DEF SlotOf
  <2>2. hits' >= hits
    BY <1>1, <1>2
  <2>3. Ahead(t)'
    BY <1>1, <1>2, <2>1, <2>2 DEF Ahead
  <2> QED
    BY <1>2, <2>1, <2>3
<1>8. hits' <= pos' /\ hits' \in 0..Size /\ pos' \in 0..Size
  BY <1>1, <1>2, <1>3
<1>9. AbortInv'
  BY <1>1, <1>7, <1>8 DEF AbortInv
<1> QED
  BY <1>1, <1>2, <1>4, <1>8, <1>9, RetireStep

LEMMA InitInv ==
    ASSUME HandleAssumption, Init
    PROVE  IInv
<1>1. /\ DefaultSize \in Nat \ {0} /\ HandleMask \in Nat \ {0} /\ DefaultSize <= HandleMask
      /\ None \notin Contexts
  BY DEF HandleAssumption
<1>2. /\ slot = [n \in 0..(DefaultSize - 1) |-> None] /\ index = 1
      /\ handle = [c \in Contexts |-> 0] /\ given = [c \in Contexts |-> 0] /\ issued = {}
      /\ names = <<>> /\ pass = "no" /\ pos = 0 /\ hits = 0 /\ exiting = 0 /\ targets = {}
      /\ broken = "no"
  BY DEF Init
<1>3. DefaultSize \in 1..(HandleMask + 1) /\ slot \in [0..(DefaultSize - 1) -> Contexts \cup {None}]
  BY <1>1, <1>2
<1>4. Size = DefaultSize
  BY <1>1, <1>3, Sizes DEF Size
<1>5. names \in Seq(Named) /\ \A n \in 1..Len(names) : FALSE
  <2>1. names \in Seq(Named) /\ Len(names) = 0
    BY <1>2
  <2> QED
    BY <2>1
<1>6. TypeOK
  BY <1>1, <1>2, <1>3, <1>4, <1>5 DEF TypeOK
<1>7. Placed(slot, Size, given)
  BY <1>2, <1>3, <1>4 DEF Placed
<1>8. Assigned
  BY <1>2 DEF Assigned, InFlight, Registered
<1>9. NamesInv
  BY <1>5 DEF NamesInv, Sorted
<1>10. AbortInv
  BY <1>1, <1>2, <1>4 DEF AbortInv
<1> QED
  BY <1>6, <1>7, <1>8, <1>9, <1>10 DEF IInv

LEMMA StepInv ==
    ASSUME IInv, HandleAssumption, Launchers = 1, [Next]_vars
    PROVE  IInv'
<1>1. CASE \E c \in Contexts : Register(c) \/ Assign(c)
  BY <1>1, RegisterStep, AssignStep
<1>2. CASE \E h \in 1..HandleMask : Kill(h) \/ \E name \in Names : NameHandle(h, name)
  BY <1>2, KillStep, NameStep
<1>3. CASE AbortBegins
  BY <1>3, AbortBeginsStep
<1>4. CASE AbortReads
  BY <1>4, AbortReadsStep
<1>5. CASE AbortExits
  BY <1>5, AbortExitsStep
<1>6. CASE AbortEnds
  BY <1>6, AbortEndsStep
<1>7. CASE UNCHANGED vars
  <2>1. Size' = Size
    BY <1>7 DEF vars, table, Size
  <2>2. AbortInv'
    BY <1>7, <2>1 DEF vars, table, abort, IInv, AbortInv, Ahead, SlotOf
  <2> QED
    BY <1>7, <2>2, ScanStep, ScanFacts DEF vars, abort, IInv, TypeOK
<1> QED
  BY <1>1, <1>2, <1>3, <1>4, <1>5, <1>6, <1>7 DEF Next

(* The invariants that the run checks follow from it.                      *)
LEMMA InvReachable ==
    ASSUME IInv, HandleAssumption
    PROVE  Reachable
<1>1. given \in [Contexts -> 0..HandleMask] /\ HandleMask \in Nat
  BY DEF IInv, TypeOK, HandleAssumption
<1>2. ASSUME NEW c \in Registered \ InFlight PROVE Grab(given[c]) = c
  <2>1. c \in Contexts /\ given[c] # 0 /\ handle[c] = given[c]
    BY <1>2 DEF Registered, InFlight, IInv, Assigned
  <2>2. given[c] \in 1..HandleMask
    BY <1>1, <2>1
  <2> QED
    BY <2>1, <2>2, GrabIff DEF IInv
<1>3. \A c \in InFlight : slot[Hash(given[c], Size)] = c
  BY DEF InFlight, Registered, IInv, Placed
<1> QED
  BY <1>2, <1>3 DEF Reachable, IInv

LEMMA InvNames ==
    ASSUME IInv, HandleAssumption
    PROVE  NamesAreAlive
<1>1. names \in Seq(Named) /\ Names \subseteq Nat /\ Sorted /\ None \notin Contexts
  BY DEF IInv, TypeOK, NamesInv, HandleAssumption
<1>2. ASSUME NEW n \in DOMAIN names
      PROVE  /\ Grab(names[n].handle) # None \/ names[n].late
             /\ Search(names[n].name).at = n
  <2>1. n \in 1..Len(names)
    BY <1>1
  <2>2. names[n].handle \in 1..HandleMask
    BY <1>1, <2>1, NamedItems
  <2>3. (\E c \in Contexts : handle[c] = names[n].handle) \/ names[n].late
    BY <2>1 DEF IInv, NamesInv
  <2>4. Grab(names[n].handle) # None \/ names[n].late
    BY <1>1, <2>2, <2>3, GrabIff DEF IInv
  <2> QED
    BY <1>1, <2>4, SearchFinds
<1> QED
  BY <1>2 DEF NamesAreAlive
-----------------------------------------------------------------------------
(* As long as one thread at a time launches contexts, the invariant holds. *)
THEOREM Invariance == Launchers = 1 => (Spec => []IInv)
<1>1. HandleAssumption
  BY HandleAssumption
<1> SUFFICES ASSUME Launchers = 1 PROVE Spec => []IInv
  OBVIOUS
<1>2. Init => IInv
  BY <1>1, InitInv
<1>3. IInv /\ [Next]_vars => IInv'
  BY <1>1, StepInv
<1> QED
  BY <1>2, <1>3, PTL DEF Spec

(* A context is found under its handle, whatever expansions moved it: a    *)
(* message sent to it arrives, and it can be retired.                      *)
THEOREM HandleReachable == Launchers = 1 => (Spec => []Reachable)
<1>1. IInv => Reachable
  BY InvReachable, HandleAssumption
<1> QED
  BY <1>1, Invariance, PTL

(* A name leads to a context that is up, unless it was given too late; and *)
(* the binary search finds it at its place.                                *)
THEOREM HandleNamesAreAlive == Launchers = 1 => (Spec => []NamesAreAlive)
<1>1. IInv => NamesAreAlive
  BY InvNames, HandleAssumption
<1> QED
  BY <1>1, Invariance, PTL

(* skynet_handle_retireall passes over nobody who was up when it began.    *)
THEOREM HandleAbortMissesNone == Launchers = 1 => (Spec => []AbortMissesNone)
<1>1. IInv => AbortMissesNone
  BY DEF IInv, AbortInv, AbortMissesNone
<1> QED
  BY <1>1, Invariance, PTL
=============================================================================
