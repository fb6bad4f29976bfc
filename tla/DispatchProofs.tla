--------------------------- MODULE DispatchProofs ---------------------------
(***************************************************************************)
(* Proofs about Dispatch, for any number of services, workers and          *)
(* messages: that the queue of a service is in one place, that the count   *)
(* of a context is the number of those who may use it, that none is freed  *)
(* while somebody has a reference, that the assertions of the code hold,   *)
(* that no worker sleeps on when the runtime ends, and that all this is    *)
(* the system of actors that Services describes.                           *)
(*                                                                         *)
(* All of them are about numbers: of the places of a queue, and of the     *)
(* references to a context.  A step moves one worker, one end of the       *)
(* global queue and the first operations of one thread, and the lemmas of  *)
(* the first part say by how much each number changes then.                *)
(***************************************************************************)
EXTENDS Dispatch, FiniteSetTheorems, FunctionTheorems, SequenceTheorems, TLAPS

-----------------------------------------------------------------------------
(* What is counted.                                                        *)
Bit(b) == IF b THEN 1 ELSE 0
At1(q, R) == {n \in DOMAIN q : q[n] \in R}
Many(q, R) == Cardinality(At1(q, R))
Spread(f, R) == UNION {{t} \X At1(f[t], R) : t \in Threads}
Count(f, R) == Cardinality(Spread(f, R))
With(h, s) == {w \in Workers : h[w] = s}
Busy == {"first", "pop", "call", "turn", "requeue"}
Serving(h, p, s) == {w \in Workers : h[w] = s /\ p[w] \in Busy}

Of(s, ops) == {a \in Op : a.s = s /\ a.op \in ops}
Weighs(a, s, ops) == Bit(a.s = s /\ a.op \in ops)
Carriers(s) == Count(todo, Of(s, Carries))
Owers(s) == Count(todo, Of(s, Owes))
Deleters(s) == Count(todo, Of(s, {"delete"}))
Servers(s) == Cardinality(Serving(hold, pc, s))
InQ(s) == Many(global, {s})
Held(s) == Cardinality(With(hold, s))
Nexts(s) == Cardinality(With(next, s))

(* The references to a context.                                            *)
Counted(s) == ref[s] = Bit(s \in alive) + Servers(s) + Owers(s)

(* Where the queue is.                                                     *)
Wanted(s) == s \notin gone /\ (queue[s] # <<>> \/ release[s] \/ inGlobal[s])
Located(s) == InQ(s) + Held(s) + Nexts(s) + Carriers(s) = Bit(Wanted(s))

(* The last reference has been given up: one thread is about to delete the *)
(* context, or has done so.                                                *)
Dying(s) == Deleters(s) = Bit(s \in created /\ ref[s] = 0 /\ s \notin freed)

Life(s) ==
    /\ s \in freed => ref[s] = 0
    /\ release[s] <=> s \in freed
    /\ s \notin created => ref[s] = 0 /\ queue[s] = <<>> /\ ~inGlobal[s]
    /\ s \notin freed /\ queue[s] # <<>> => inGlobal[s]

(* A context that may be found and is not initialised is with its launch.  *)
Launched(s) == s \in alive /\ ~inited[s] => Carriers(s) >= 1
ServedInited == \A w \in Workers : hold[w] # None /\ pc[w] \in Busy => inited[hold[w]]

(* Contexts that may be found before they are initialised.                 *)
Raw == {s \in alive : ~inited[s]}

(* What a thread knows of the operations it has yet to do: A are the       *)
(* contexts that may be found before they are initialised, F the freed.    *)
Fine(q, A, F) ==
    \A n \in DOMAIN q :
        /\ q[n].op = "push" => /\ n + 1 \in DOMAIN q
                               /\ q[n + 1].op = "unref" /\ q[n + 1].s = q[n].s
        /\ q[n].op = "drop" => q[n].s \in F
        /\ q[n].op = "publish" => q[n].s \notin A
        /\ q[n].op = "giveup" => \/ q[n].s \notin A
                                 \/ n > 1 /\ q[n - 1].op = "retire" /\ q[n - 1].s = q[n].s
OpsOK == \A t \in Threads : Fine(todo[t], Raw, freed)

(* What a worker holds at its steps.                                       *)
WorkersOK ==
    \A w \in Workers :
        /\ pc[w] \in {"pick", "drowsy", "doze", "asleep", "waking"} => hold[w] = None
        /\ pc[w] \in Busy \cup {"grab"} => hold[w] \in Services
        /\ pc[w] = "requeue" <=> next[w] # None
        /\ pc[w] = "pop" => left[w] > 0

Nested == gone \subseteq freed /\ failed = {}

Sound(s) == Counted(s) /\ Located(s) /\ Dying(s) /\ Life(s) /\ Launched(s)
Quiet == /\ quit => \A w \in Workers : pc[w] # "asleep"
         /\ tpc = "over" => quit

IInv ==
    /\ TypeOK
    /\ \A s \in Services : Sound(s)
    /\ OpsOK /\ ServedInited /\ WorkersOK /\ Nested /\ Quiet
-----------------------------------------------------------------------------
(* Counting.                                                               *)
LEMMA Bits == ASSUME NEW b \in BOOLEAN
              PROVE  Bit(b) \in {0, 1} /\ (b => Bit(b) = 1) /\ (~b => Bit(b) = 0)
BY DEF Bit

(* Two sets that differ in one element at most.                            *)
LEMMA Moved ==
    ASSUME NEW A, NEW B, NEW x, IsFiniteSet(A), IsFiniteSet(B), A \ {x} = B \ {x}
    PROVE  /\ Cardinality(A) \in Nat /\ Cardinality(B) \in Nat
           /\ Cardinality(B) = Cardinality(A) - Bit(x \in A) + Bit(x \in B)
<1>1. Cardinality(A) \in Nat /\ Cardinality(B) \in Nat
  BY FS_CardinalityType
<1>2. /\ Cardinality(A \ {x}) = IF x \in A THEN Cardinality(A) - 1 ELSE Cardinality(A)
      /\ Cardinality(B \ {x}) = IF x \in B THEN Cardinality(B) - 1 ELSE Cardinality(B)
  BY FS_RemoveElement
<1> QED
  BY <1>1, <1>2 DEF Bit

LEMMA Apart ==
    ASSUME NEW A, NEW B, IsFiniteSet(A), IsFiniteSet(B), A \cap B = {}
    PROVE  /\ IsFiniteSet(A \cup B) /\ Cardinality(A) \in Nat /\ Cardinality(B) \in Nat
           /\ Cardinality(A \cup B) = Cardinality(A) + Cardinality(B)
<1>1. /\ IsFiniteSet(A \cup B)
      /\ Cardinality(A \cup B) = Cardinality(A) + Cardinality(B) - Cardinality({})
  BY FS_Union
<1>2. Cardinality(A) \in Nat /\ Cardinality(B) \in Nat /\ Cardinality({}) = 0
  BY FS_CardinalityType, FS_EmptySet
<1> QED
  BY <1>1, <1>2

(* The places of a sequence with an element of R.                          *)
LEMMA ManyType ==
    ASSUME NEW S, NEW q \in Seq(S), NEW R
    PROVE  /\ IsFiniteSet(At1(q, R)) /\ Many(q, R) \in Nat
           /\ Many(q, R) = 0 <=> \A n \in DOMAIN q : q[n] \notin R
<1>1. DOMAIN q = 1..Len(q) /\ Len(q) \in Nat
  OBVIOUS
<1>2. IsFiniteSet(1..Len(q))
  BY <1>1, FS_Interval
<1>3. At1(q, R) \in SUBSET (1..Len(q))
  BY <1>1 DEF At1
<1>4. IsFiniteSet(At1(q, R))
  BY <1>2, <1>3, FS_Subset
<1>5. Many(q, R) \in Nat /\ (Many(q, R) = 0 <=> At1(q, R) = {})
  BY <1>4, FS_CardinalityType, FS_EmptySet DEF Many
<1> QED
  BY <1>4, <1>5 DEF At1

LEMMA ManyNone == ASSUME NEW R PROVE Many(<<>>, R) = 0
<1>1. At1(<<>>, R) = {}
  BY DEF At1
<1> QED
  BY <1>1, FS_EmptySet DEF Many

LEMMA ManyOne == ASSUME NEW a, NEW R PROVE Many(<<a>>, R) = Bit(a \in R)
<1>1. CASE a \in R
  <2>1. At1(<<a>>, R) = {1}
    BY <1>1 DEF At1
  <2> QED
    BY <1>1, <2>1, FS_Singleton DEF Many, Bit
<1>2. CASE a \notin R
  <2>1. At1(<<a>>, R) = {}
    BY <1>2 DEF At1
  <2> QED
    BY <1>2, <2>1, FS_EmptySet DEF Many, Bit
<1> QED
  BY <1>1, <1>2

LEMMA ManyConcat ==
    ASSUME NEW S, NEW p \in Seq(S), NEW q \in Seq(S), NEW R
    PROVE  Many(p \o q, R) = Many(p, R) + Many(q, R)
<1> DEFINE k == Len(p)
           A == At1(p, R)
           B == At1(q, R)
           C == {n + k : n \in B}
<1>1. k \in Nat /\ DOMAIN p = 1..k /\ DOMAIN q = 1..Len(q) /\ Len(q) \in Nat
  OBVIOUS
<1>2. p \o q \in Seq(S) /\ Len(p \o q) = k + Len(q)
      /\ \A i \in 1..(k + Len(q)) : (p \o q)[i] = IF i <= k THEN p[i] ELSE q[i - k]
  BY ConcatProperties
<1>3. At1(p \o q, R) = A \cup C
  <2>1. DOMAIN (p \o q) = 1..(k + Len(q))
    BY <1>1, <1>2
  <2>2. ASSUME NEW i \in At1(p \o q, R) PROVE i \in A \cup C
    <3>1. i \in 1..(k + Len(q)) /\ (p \o q)[i] \in R
      BY <2>1 DEF At1
    <3>2. CASE i <= k
      BY <1>1, <1>2, <3>1, <3>2 DEF At1
    <3>3. CASE ~(i <= k)
      <4>1. i - k \in 1..Len(q) /\ q[i - k] \in R /\ i = (i - k) + k
        BY <1>1, <1>2, <3>1, <3>3
      <4> QED
        BY <1>1, <4>1 DEF At1
    <3> QED
      BY <3>2, <3>3
  <2>3. ASSUME NEW i \in A PROVE i \in At1(p \o q, R)
    BY <1>1, <1>2, <2>1 DEF At1
  <2>4. ASSUME NEW n \in B PROVE n + k \in At1(p \o q, R)
    <3>1. n \in 1..Len(q) /\ q[n] \in R
      BY <1>1 DEF At1
    <3>2. n + k \in 1..(k + Len(q)) /\ ~(n + k <= k) /\ (n + k) - k = n
      BY <1>1, <3>1
    <3> QED
      BY <1>2, <2>1, <3>1, <3>2 DEF At1
  <2> QED
    BY <2>2, <2>3, <2>4
<1>4. IsFiniteSet(A) /\ IsFiniteSet(B)
  BY ManyType
<1>5. IsFiniteSet(C) /\ Cardinality(C) = Cardinality(B)
  <2> DEFINE f == [n \in B |-> n + k]
  <2>1. B \subseteq Nat
    BY <1>1 DEF At1
  <2>2. f \in Bijection(B, C)
    <3>1. \A a, b \in B : f[a] = f[b] => a = b
      BY <1>1, <2>1
    <3>2. f \in [B -> C] /\ \A c \in C : \E n \in B : f[n] = c
      OBVIOUS
    <3> QED
      BY <3>1, <3>2, Fun_IsBij
  <2>3. ExistsBijection(B, C)
    BY <2>2, Fun_ExistsBij
  <2> QED
    BY <1>4, <2>3, FS_Bijection
<1>6. A \cap C = {}
  BY <1>1 DEF At1
<1> QED
  BY <1>3, <1>4, <1>5, <1>6, Apart DEF Many

LEMMA ManyAppend ==
    ASSUME NEW S, NEW q \in Seq(S), NEW a \in S, NEW R
    PROVE  Many(Append(q, a), R) = Many(q, R) + Bit(a \in R)
<1>1. Append(q, a) = q \o <<a>> /\ <<a>> \in Seq(S)
  BY AppendIsConcat
<1>2. Many(q \o <<a>>, R) = Many(q, R) + Many(<<a>>, R)
  BY <1>1, ManyConcat
<1>3. Many(<<a>>, R) = Bit(a \in R)
  BY ManyOne
<1> QED
  BY <1>1, <1>2, <1>3

LEMMA ManyTail ==
    ASSUME NEW S, NEW q \in Seq(S), q # <<>>, NEW R
    PROVE  Many(q, R) = Bit(Head(q) \in R) + Many(Tail(q), R)
<1>1. Head(q) \in S /\ Tail(q) \in Seq(S) /\ <<Head(q)>> \in Seq(S)
  OBVIOUS
<1>2. q = <<Head(q)>> \o Tail(q)
  OBVIOUS
<1>3. Many(<<Head(q)>> \o Tail(q), R) = Many(<<Head(q)>>, R) + Many(Tail(q), R)
  BY <1>1, ManyConcat
<1>4. Many(<<Head(q)>>, R) = Bit(Head(q) \in R)
  BY ManyOne
<1> QED
  BY <1>2, <1>3, <1>4

LEMMA ThreadsFinite == IsFiniteSet(Threads) /\ None \notin Services
<1>1. IsFiniteSet({TimerThread, SocketThread})
  <2>1. IsFiniteSet({TimerThread}) /\ IsFiniteSet({SocketThread})
    BY FS_Singleton
  <2>2. {TimerThread, SocketThread} = {TimerThread} \cup {SocketThread}
    OBVIOUS
  <2> QED
    BY <2>1, <2>2, FS_Union
<1>2. IsFiniteSet(Workers) /\ None \notin Services
  BY WorkersAssumption
<1> QED
  BY <1>1, <1>2, FS_Union DEF Threads

(* The places of the lists of all threads.                                 *)
LEMMA SpreadFinite ==
    ASSUME NEW f \in [Threads -> Seq(Op)], NEW R
    PROVE  IsFiniteSet(Spread(f, R)) /\ Count(f, R) \in Nat
<1> DEFINE part == [t \in Threads |-> {t} \X At1(f[t], R)]
           Parts == {{t} \X At1(f[t], R) : t \in Threads}
<1>1. IsFiniteSet(Parts)
  <2>1. part \in Surjection(Threads, Parts)
    <3>1. part \in [Threads -> Parts] /\ \A c \in Parts : \E t \in Threads : part[t] = c
      OBVIOUS
    <3> QED
      BY <3>1, Fun_IsSurj
  <2> QED
    BY <2>1, FS_Surjection, ThreadsFinite
<1>2. ASSUME NEW c \in Parts PROVE IsFiniteSet(c)
  <2>1. PICK t \in Threads : c = {t} \X At1(f[t], R)
    OBVIOUS
  <2>2. IsFiniteSet(At1(f[t], R)) /\ IsFiniteSet({t})
    BY ManyType, FS_Singleton
  <2> QED
    BY <2>1, <2>2, FS_Product
<1>3. IsFiniteSet(UNION Parts)
  BY <1>1, <1>2, FS_UNION
<1> QED
  BY <1>3, FS_CardinalityType DEF Spread, Count

(* One thread goes on to another list.                                     *)
LEMMA CountChange ==
    ASSUME NEW f \in [Threads -> Seq(Op)], NEW t \in Threads, NEW q \in Seq(Op), NEW R
    PROVE  Count([f EXCEPT ![t] = q], R) = Count(f, R) - Many(f[t], R) + Many(q, R)
<1> DEFINE g == [f EXCEPT ![t] = q]
           Rest == UNION {{u} \X At1(f[u], R) : u \in Threads \ {t}}
           Old == {t} \X At1(f[t], R)
           New == {t} \X At1(q, R)
<1>1. g \in [Threads -> Seq(Op)]
  OBVIOUS
<1>2. Spread(f, R) = Rest \cup Old
  BY DEF Spread
<1>3. Spread(g, R) = Rest \cup New
  BY DEF Spread
<1>4. Rest \cap Old = {} /\ Rest \cap New = {}
  OBVIOUS
<1>5. IsFiniteSet(Rest) /\ IsFiniteSet(Old) /\ IsFiniteSet(New)
  BY <1>1, <1>2, <1>3, SpreadFinite, FS_Subset
<1>6. /\ Cardinality(Old) = Many(f[t], R) /\ Cardinality(New) = Many(q, R)
  <2>1. ASSUME NEW A, IsFiniteSet(A) PROVE Cardinality({t} \X A) = Cardinality(A)
    <3>1. /\ IsFiniteSet({t}) /\ Cardinality({t}) = 1
          /\ Cardinality({t} \X A) = Cardinality({t}) * Cardinality(A)
      BY <2>1, FS_Product, FS_Singleton
    <3>2. Cardinality(A) \in Nat
      BY <2>1, FS_CardinalityType
    <3> QED
      BY <3>1, <3>2
  <2>2. IsFiniteSet(At1(f[t], R)) /\ IsFiniteSet(At1(q, R))
    BY ManyType
  <2> QED
    BY <2>1, <2>2 DEF Many
<1>7. /\ Cardinality(Rest \cup Old) = Cardinality(Rest) + Cardinality(Old)
      /\ Cardinality(Rest) \in Nat /\ Cardinality(Old) \in Nat
  BY <1>4, <1>5, Apart
<1>8. /\ Cardinality(Rest \cup New) = Cardinality(Rest) + Cardinality(New)
      /\ Cardinality(New) \in Nat
  BY <1>4, <1>5, Apart
<1> HIDE DEF g, Rest, Old, New
<1>9. Count(g, R) = Cardinality(Rest) + Many(q, R) /\ Count(f, R) = Cardinality(Rest) + Many(f[t], R)
  BY <1>2, <1>3, <1>6, <1>7, <1>8 DEF Count
<1> QED
  BY <1>6, <1>7, <1>8, <1>9 DEF g

(* Whoever has such an operation before him is counted.                    *)
LEMMA CountPositive ==
    ASSUME NEW f \in [Threads -> Seq(Op)], NEW R, NEW t \in Threads, NEW n \in DOMAIN f[t],
           f[t][n] \in R
    PROVE  Count(f, R) >= 1
<1>1. <<t, n>> \in Spread(f, R)
  BY DEF Spread, At1
<1>2. IsFiniteSet(Spread(f, R))
  BY SpreadFinite
<1>3. Count(f, R) \in Nat /\ Count(f, R) # 0
  BY <1>1, <1>2, FS_CardinalityType, FS_EmptySet DEF Count
<1> QED
  BY <1>3

-----------------------------------------------------------------------------
(* The operations of a thread.                                             *)
LEMMA Called ==
    ASSUME NEW op \in Ops, NEW s \in Services
    PROVE  /\ Calls(op, s) \in Op /\ Calls(op, s).op = op /\ Calls(op, s).s = s
           /\ \A r, ops : Calls(op, s) \in Of(r, ops) <=> s = r /\ op \in ops
<1>1. NoMessage \in Message
  BY BoundsAssumption DEF NoMessage, Message
<1> QED
  BY <1>1 DEF Calls, Op, Of

LEMMA Sent ==
    ASSUME NEW s \in Services, NEW m \in Message
    PROVE  /\ Sends(s, m) \in Op /\ Sends(s, m).op = "grab" /\ Sends(s, m).s = s
           /\ \A r, ops : "grab" \notin ops => Sends(s, m) \notin Of(r, ops)
BY DEF Sends, Op, Of, Ops

LEMMA Done ==
    ASSUME todo \in [Threads -> Seq(Op)], NEW t \in Threads, todo[t] # <<>>,
           NEW a, a = Head(todo[t])
    PROVE  /\ a \in Op /\ a.op \in Ops /\ a.s \in Services /\ a.m \in Message
           /\ Tail(todo[t]) \in Seq(Op) /\ todo[t][1] = a /\ 1 \in DOMAIN todo[t]
           /\ \A r, ops : a \in Of(r, ops) <=> a.s = r /\ a.op \in ops
<1>1. todo[t] \in Seq(Op)
  OBVIOUS
<1>2. a \in Op /\ Tail(todo[t]) \in Seq(Op) /\ todo[t][1] = a /\ 1 \in DOMAIN todo[t]
  BY <1>1
<1> QED
  BY <1>2 DEF Op, Of

LEMMA CountType ==
    ASSUME todo \in [Threads -> Seq(Op)], NEW R
    PROVE  Count(todo, R) \in Nat
BY SpreadFinite

(* The first operation of t is done and leads to ops.                      *)
LEMMA ReturnsCount ==
    ASSUME todo \in [Threads -> Seq(Op)], NEW t \in Threads, todo[t] # <<>>,
           NEW ops \in Seq(Op), Returns(t, ops), NEW R
    PROVE  /\ todo' \in [Threads -> Seq(Op)]
           /\ Count(todo', R) = Count(todo, R) - Bit(Head(todo[t]) \in R) + Many(ops, R)
<1> DEFINE rest == Tail(todo[t])
           q == ops \o rest
<1>1. todo[t] \in Seq(Op) /\ rest \in Seq(Op) /\ q \in Seq(Op)
  BY ConcatProperties
<1>2. todo' = [todo EXCEPT ![t] = q]
  BY DEF Returns
<1>3. Many(todo[t], R) = Bit(Head(todo[t]) \in R) + Many(rest, R)
  BY <1>1, ManyTail
<1>4. Many(q, R) = Many(ops, R) + Many(rest, R)
  BY <1>1, ManyConcat
<1>5. Count([todo EXCEPT ![t] = q], R) = Count(todo, R) - Many(todo[t], R) + Many(q, R)
  BY <1>1, CountChange, ZenonT(60)
<1>6. Count(todo, R) \in Nat /\ Many(rest, R) \in Nat /\ Many(ops, R) \in Nat
  BY <1>1, CountType, ManyType
<1>7. Bit(Head(todo[t]) \in R) \in {0, 1}
  BY DEF Bit
<1>8. todo' \in [Threads -> Seq(Op)]
  BY <1>1, <1>2
<1> HIDE DEF q, rest
<1> QED
  BY <1>2, <1>3, <1>4, <1>5, <1>6, <1>7, <1>8

(* t begins a call, before what it has yet to do.                          *)
LEMMA BeginsCount ==
    ASSUME todo \in [Threads -> Seq(Op)], NEW t \in Threads, NEW a \in Op,
           todo' = [todo EXCEPT ![t] = <<a>> \o @], NEW R
    PROVE  /\ todo' \in [Threads -> Seq(Op)]
           /\ Count(todo', R) = Count(todo, R) + Bit(a \in R)
<1> DEFINE q == <<a>> \o todo[t]
<1>1. todo[t] \in Seq(Op) /\ <<a>> \in Seq(Op)
  OBVIOUS
<1>2. q \in Seq(Op)
  BY <1>1, ConcatProperties
<1>3. todo' = [todo EXCEPT ![t] = q]
  OBVIOUS
<1>4. Many(q, R) = Many(<<a>>, R) + Many(todo[t], R)
  BY <1>1, ManyConcat
<1>5. Count([todo EXCEPT ![t] = q], R) = Count(todo, R) - Many(todo[t], R) + Many(q, R)
  BY <1>2, CountChange
<1>6. Count(todo, R) \in Nat /\ Many(todo[t], R) \in Nat
  BY <1>1, CountType, ManyType
<1>7. Bit(a \in R) \in {0, 1} /\ Many(<<a>>, R) = Bit(a \in R)
  BY ManyOne DEF Bit
<1>8. todo' \in [Threads -> Seq(Op)]
  BY <1>2, <1>3
<1> HIDE DEF q
<1>9. Count(todo', R) = Count(todo, R) - Many(todo[t], R) + Many(q, R)
  BY <1>3, <1>5
<1>10. Many(q, R) = Bit(a \in R) + Many(todo[t], R)
  BY <1>4, <1>7
<1> QED
  BY <1>6, <1>7, <1>8, <1>9, <1>10

LEMMA StartsCount ==
    ASSUME todo \in [Threads -> Seq(Op)], NEW t \in Threads, NEW a \in Op, todo[t] = <<>>,
           todo' = [todo EXCEPT ![t] = <<a>>], NEW R
    PROVE  /\ todo' \in [Threads -> Seq(Op)]
           /\ Count(todo', R) = Count(todo, R) + Bit(a \in R)
<1>1. <<a>> \o <<>> = <<a>>
  OBVIOUS
<1>2. todo' = [todo EXCEPT ![t] = <<a>> \o @]
  BY <1>1
<1> QED
  BY <1>2, BeginsCount

-----------------------------------------------------------------------------
(* Lists of operations that fit together.                                  *)
LEMMA FineTail ==
    ASSUME NEW A, NEW F, NEW q \in Seq(Op), q # <<>>, Fine(q, A, F),
           Head(q).op = "retire" => Head(q).s \notin A
    PROVE  Fine(Tail(q), A, F)
<1> DEFINE p == Tail(q)
<1>1. /\ DOMAIN q = 1..Len(q) /\ Len(q) \in Nat /\ Head(q) = q[1]
      /\ DOMAIN p = 1..(Len(q) - 1) /\ \A n \in DOMAIN p : n + 1 \in DOMAIN q /\ p[n] = q[n + 1]
  OBVIOUS
<1> SUFFICES ASSUME NEW n \in DOMAIN p
             PROVE  /\ p[n].op = "push" => /\ n + 1 \in DOMAIN p
                                           /\ p[n + 1].op = "unref" /\ p[n + 1].s = p[n].s
                    /\ p[n].op = "drop" => p[n].s \in F
                    /\ p[n].op = "publish" => p[n].s \notin A
                    /\ p[n].op = "giveup" =>
                          \/ p[n].s \notin A
                          \/ n > 1 /\ p[n - 1].op = "retire" /\ p[n - 1].s = p[n].s
  BY DEF Fine
<1>2. n + 1 \in DOMAIN q /\ p[n] = q[n + 1] /\ n \in 1..(Len(q) - 1)
  BY <1>1
<1> HIDE DEF p
<1>3. p[n].op = "drop" => p[n].s \in F
  BY <1>2 DEF Fine
<1>4. p[n].op = "publish" => p[n].s \notin A
  BY <1>2 DEF Fine
<1>5. ASSUME p[n].op = "push"
      PROVE  n + 1 \in DOMAIN p /\ p[n + 1].op = "unref" /\ p[n + 1].s = p[n].s
  <2>1. (n + 1) + 1 \in DOMAIN q /\ q[(n + 1) + 1].op = "unref" /\ q[(n + 1) + 1].s = p[n].s
    BY <1>2, <1>5 DEF Fine
  <2>2. n + 1 \in DOMAIN p
    BY <1>1, <2>1
  <2> QED
    BY <1>1, <2>1, <2>2
<1>6. ASSUME p[n].op = "giveup", p[n].s \in A
      PROVE  n > 1 /\ p[n - 1].op = "retire" /\ p[n - 1].s = p[n].s
  <2>1. q[(n + 1) - 1].op = "retire" /\ q[(n + 1) - 1].s = p[n].s /\ (n + 1) - 1 = n
    BY <1>2, <1>6 DEF Fine
  <2>2. n # 1
    BY <1>1, <1>6, <2>1
  <2>3. n - 1 \in DOMAIN p /\ (n - 1) + 1 = n
    BY <1>1, <1>2, <2>2
  <2> QED
    BY <1>1, <2>1, <2>3
<1> QED
  BY <1>3, <1>4, <1>5, <1>6

LEMMA FineConcat ==
    ASSUME NEW A, NEW F, NEW p \in Seq(Op), NEW q \in Seq(Op), Fine(p, A, F), Fine(q, A, F)
    PROVE  Fine(p \o q, A, F)
<1> DEFINE k == Len(p)
           r == p \o q
<1>1. k \in Nat /\ DOMAIN p = 1..k /\ DOMAIN q = 1..Len(q) /\ Len(q) \in Nat
  OBVIOUS
<1>2. r \in Seq(Op) /\ Len(r) = k + Len(q)
      /\ \A i \in 1..(k + Len(q)) : r[i] = IF i <= k THEN p[i] ELSE q[i - k]
  BY ConcatProperties
<1>3. DOMAIN r = 1..(k + Len(q))
  BY <1>2
<1> SUFFICES ASSUME NEW n \in DOMAIN r
             PROVE  /\ r[n].op = "push" => /\ n + 1 \in DOMAIN r
                                           /\ r[n + 1].op = "unref" /\ r[n + 1].s = r[n].s
                    /\ r[n].op = "drop" => r[n].s \in F
                    /\ r[n].op = "publish" => r[n].s \notin A
                    /\ r[n].op = "giveup" =>
                          \/ r[n].s \notin A
                          \/ n > 1 /\ r[n - 1].op = "retire" /\ r[n - 1].s = r[n].s
  BY DEF Fine
<1> HIDE DEF r
<1>4. CASE n <= k
  <2>1. n \in DOMAIN p /\ r[n] = p[n] /\ (n > 1 => r[n - 1] = p[n - 1])
    BY <1>1, <1>2, <1>3, <1>4
  <2>2. n + 1 \in DOMAIN p => n + 1 \in DOMAIN r /\ r[n + 1] = p[n + 1]
    BY <1>1, <1>2, <1>3
  <2> HIDE DEF k
  <2> QED
    BY <2>1, <2>2 DEF Fine
<1>5. CASE ~(n <= k)
  <2> DEFINE i == n - k
  <2>1. /\ i \in DOMAIN q /\ r[n] = q[i] /\ i \in Int /\ n \in Int
        /\ i > 1 => r[n - 1] = q[i - 1] /\ n > 1
    BY <1>1, <1>2, <1>3, <1>5
  <2>2. i + 1 \in DOMAIN q => n + 1 \in DOMAIN r /\ r[n + 1] = q[i + 1]
    BY <1>1, <1>2, <1>3, <1>5
  <2> HIDE DEF i, k
  <2> QED
    BY <2>1, <2>2 DEF Fine
<1> QED
  BY <1>1, <1>3, <1>4, <1>5

(* Less can be found and more is freed: what fitted still does.            *)
LEMMA FineLater ==
    ASSUME NEW A, NEW F, NEW B, NEW G, NEW q \in Seq(Op), Fine(q, A, F),
           \A n \in DOMAIN q : q[n].op \in {"publish", "giveup"} /\ q[n].s \in B => q[n].s \in A,
           F \subseteq G
    PROVE  Fine(q, B, G)
BY DEF Fine

LEMMA FineNone == ASSUME NEW A, NEW F PROVE Fine(<<>>, A, F)
BY DEF Fine

(* The first operation is done, and leads to operations that fit.          *)
LEMMA ReturnsFine ==
    ASSUME todo \in [Threads -> Seq(Op)], OpsOK, NEW t \in Threads, todo[t] # <<>>,
           Head(todo[t]).op = "retire" => Head(todo[t]).s \notin alive',
           alive' \subseteq alive, UNCHANGED inited, freed \subseteq freed',
           NEW ops \in Seq(Op), Fine(ops, Raw', freed'), Returns(t, ops)
    PROVE  OpsOK'
<1>0. Raw' \subseteq Raw /\ (Head(todo[t]).op = "retire" => Head(todo[t]).s \notin Raw')
  BY DEF Raw
<1>1. ASSUME NEW u \in Threads PROVE todo[u] \in Seq(Op) /\ Fine(todo[u], Raw', freed')
  <2>1. todo[u] \in Seq(Op) /\ Fine(todo[u], Raw, freed)
    BY DEF OpsOK
  <2> QED
    BY <1>0, <2>1, FineLater
<1>2. Tail(todo[t]) \in Seq(Op) /\ Fine(Tail(todo[t]), Raw', freed')
  <2>1. todo[t] \in Seq(Op) /\ Fine(todo[t], Raw', freed')
    BY <1>1
  <2> QED
    BY <1>0, <2>1, FineTail
<1>3. Fine(ops \o Tail(todo[t]), Raw', freed')
  BY <1>2, FineConcat
<1> SUFFICES ASSUME NEW u \in Threads PROVE Fine(todo'[u], Raw', freed')
  BY DEF OpsOK
<1>4. CASE u = t
  BY <1>3, <1>4 DEF Returns
<1>5. CASE u # t
  BY <1>1, <1>5 DEF Returns
<1> QED
  BY <1>4, <1>5

(* Operations are put before, and nothing else changes.                    *)
LEMMA BeginsFine ==
    ASSUME todo \in [Threads -> Seq(Op)], OpsOK, NEW t \in Threads, NEW p \in Seq(Op),
           NEW q \in Seq(Op), q = p \o todo[t], todo' = [todo EXCEPT ![t] = q],
           UNCHANGED <<alive, inited, freed>>, Fine(p, Raw, freed)
    PROVE  OpsOK'
<1>1. \A u \in Threads : todo[u] \in Seq(Op) /\ Fine(todo[u], Raw, freed)
  BY DEF OpsOK
<1>2. Fine(q, Raw, freed)
  BY <1>1, FineConcat
<1>3. Raw' = Raw /\ freed' = freed
  BY DEF Raw
<1> QED
  BY <1>1, <1>2, <1>3 DEF OpsOK

(* A single operation that asks for nothing.                               *)
LEMMA FineOne ==
    ASSUME NEW A, NEW F, NEW a \in Op, a.op \notin {"push", "drop", "publish", "giveup"}
    PROVE  <<a>> \in Seq(Op) /\ Fine(<<a>>, A, F)
BY DEF Fine

-----------------------------------------------------------------------------
(* How the numbers of a service change.                                    *)
LEMMA WorkerSetsFinite ==
    ASSUME NEW h, NEW p, NEW s
    PROVE  IsFiniteSet(With(h, s)) /\ IsFiniteSet(Serving(h, p, s))
<1>1. With(h, s) \in SUBSET Workers /\ Serving(h, p, s) \in SUBSET Workers
  BY DEF With, Serving
<1> QED
  BY <1>1, WorkersAssumption, FS_Subset

LEMMA NumbersType ==
    ASSUME TypeOK, NEW s \in Services
    PROVE  /\ Carriers(s) \in Nat /\ Owers(s) \in Nat /\ Deleters(s) \in Nat
           /\ Servers(s) \in Nat /\ InQ(s) \in Nat /\ Held(s) \in Nat /\ Nexts(s) \in Nat
           /\ ref[s] \in Int
<1>1. todo \in [Threads -> Seq(Op)] /\ global \in Seq(Services) /\ ref[s] \in Int
  BY DEF TypeOK
<1>2. Carriers(s) \in Nat /\ Owers(s) \in Nat /\ Deleters(s) \in Nat
  BY <1>1, CountType DEF Carriers, Owers, Deleters
<1>3. InQ(s) \in Nat
  BY <1>1, ManyType DEF InQ
<1>4. Servers(s) \in Nat /\ Held(s) \in Nat /\ Nexts(s) \in Nat
  BY WorkerSetsFinite, FS_CardinalityType DEF Servers, Held, Nexts
<1> QED
  BY <1>1, <1>2, <1>3, <1>4

(* Only w moves.                                                           *)
LEMMA WorkerMoves ==
    ASSUME NEW w \in Workers, NEW s \in Services,
           \A v \in Workers \ {w} : hold'[v] = hold[v] /\ pc'[v] = pc[v]
    PROVE  /\ Held(s)' = Held(s) - Bit(hold[w] = s) + Bit(hold'[w] = s)
           /\ Servers(s)' = Servers(s) - Bit(hold[w] = s /\ pc[w] \in Busy)
                                       + Bit(hold'[w] = s /\ pc'[w] \in Busy)
<1> DEFINE A == With(hold, s)
           B == With(hold', s)
           C == Serving(hold, pc, s)
           D == Serving(hold', pc', s)
<1>1. IsFiniteSet(A) /\ IsFiniteSet(B) /\ IsFiniteSet(C) /\ IsFiniteSet(D)
  BY WorkerSetsFinite
<1>2. A \ {w} = B \ {w} /\ C \ {w} = D \ {w}
  BY DEF With, Serving
<1>3. /\ (w \in A) = (hold[w] = s) /\ (w \in B) = (hold'[w] = s)
      /\ (w \in C) = (hold[w] = s /\ pc[w] \in Busy)
      /\ (w \in D) = (hold'[w] = s /\ pc'[w] \in Busy)
  BY DEF With, Serving
<1> HIDE DEF A, B, C, D
<1>4. Cardinality(B) = Cardinality(A) - Bit(w \in A) + Bit(w \in B)
  BY <1>1, <1>2, Moved
<1>5. Cardinality(D) = Cardinality(C) - Bit(w \in C) + Bit(w \in D)
  BY <1>1, <1>2, Moved
<1>6. /\ Held(s) = Cardinality(A) /\ Held(s)' = Cardinality(B)
      /\ Servers(s) = Cardinality(C) /\ Servers(s)' = Cardinality(D)
  BY DEF Held, Servers, A, B, C, D
<1> QED
  BY <1>3, <1>4, <1>5, <1>6

LEMMA NextMoves ==
    ASSUME NEW w \in Workers, NEW s \in Services, \A v \in Workers \ {w} : next'[v] = next[v]
    PROVE  Nexts(s)' = Nexts(s) - Bit(next[w] = s) + Bit(next'[w] = s)
<1> DEFINE A == With(next, s)
           B == With(next', s)
<1>1. IsFiniteSet(A) /\ IsFiniteSet(B)
  BY WorkerSetsFinite
<1>2. A \ {w} = B \ {w} /\ (w \in A) = (next[w] = s) /\ (w \in B) = (next'[w] = s)
  BY DEF With
<1> HIDE DEF A, B
<1>3. Cardinality(B) = Cardinality(A) - Bit(w \in A) + Bit(w \in B)
  BY <1>1, <1>2, Moved
<1>4. Nexts(s) = Cardinality(A) /\ Nexts(s)' = Cardinality(B)
  BY DEF Nexts, A, B
<1> QED
  BY <1>2, <1>3, <1>4

LEMMA Holding ==
    ASSUME TypeOK, NEW w \in Workers, NEW s \in Services
    PROVE  /\ hold[w] = s => Held(s) >= 1
           /\ hold[w] = s /\ pc[w] \in Busy => Servers(s) >= 1
           /\ next[w] = s => Nexts(s) >= 1
<1>1. /\ IsFiniteSet(With(hold, s)) /\ IsFiniteSet(With(next, s))
      /\ IsFiniteSet(Serving(hold, pc, s))
  BY WorkerSetsFinite
<1>2. /\ Held(s) \in Nat /\ (Held(s) = 0 <=> With(hold, s) = {})
      /\ Nexts(s) \in Nat /\ (Nexts(s) = 0 <=> With(next, s) = {})
      /\ Servers(s) \in Nat /\ (Servers(s) = 0 <=> Serving(hold, pc, s) = {})
  BY <1>1, FS_CardinalityType, FS_EmptySet DEF Held, Nexts, Servers
<1> QED
  BY <1>2 DEF With, Serving

LEMMA Pushed ==
    ASSUME TypeOK, NEW s \in Services, NEW r \in Services, GlobalPush(s)
    PROVE  InQ(r)' = InQ(r) + Bit(s = r) /\ global' \in Seq(Services)
<1>1. global \in Seq(Services)
  BY DEF TypeOK
<1>2. Many(Append(global, s), {r}) = Many(global, {r}) + Bit(s \in {r})
  BY <1>1, ManyAppend
<1>3. (s \in {r}) = (s = r)
  OBVIOUS
<1> QED
  BY <1>1, <1>2, <1>3 DEF InQ, GlobalPush

LEMMA Popped ==
    ASSUME TypeOK, NEW r \in Services, global # <<>>, global' = Tail(global)
    PROVE  /\ InQ(r)' = InQ(r) - Bit(Head(global) = r) /\ Head(global) \in Services
           /\ global' \in Seq(Services)
<1>1. global \in Seq(Services)
  BY DEF TypeOK
<1>2. Many(global, {r}) = Bit(Head(global) \in {r}) + Many(Tail(global), {r})
  BY <1>1, ManyTail
<1>3. (Head(global) \in {r}) = (Head(global) = r)
  OBVIOUS
<1>4. Many(global, {r}) \in Nat /\ Tail(global) \in Seq(Services)
  BY <1>1, ManyType
<1>5. Many(Tail(global), {r}) \in Nat /\ Bit(Head(global) = r) \in {0, 1}
  BY <1>4, ManyType DEF Bit
<1>6. Many(Tail(global), {r}) = Many(global, {r}) - Bit(Head(global) = r)
  BY <1>2, <1>3, <1>4, <1>5
<1> QED
  BY <1>1, <1>4, <1>6 DEF InQ

(* What the other services see of a step.                                  *)
LEMMA Untouched ==
    ASSUME NEW r \in Services, Sound(r),
           ref'[r] = ref[r], inited'[r] = inited[r], queue'[r] = queue[r],
           inGlobal'[r] = inGlobal[r], release'[r] = release[r],
           r \in alive' <=> r \in alive, r \in created' <=> r \in created,
           r \in freed' <=> r \in freed, r \in gone' <=> r \in gone,
           Carriers(r)' = Carriers(r), Owers(r)' = Owers(r), Deleters(r)' = Deleters(r),
           Servers(r)' = Servers(r),
           InQ(r)' + Held(r)' + Nexts(r)' = InQ(r) + Held(r) + Nexts(r)
    PROVE  Sound(r)'
<1>1. Counted(r)' /\ Dying(r)' /\ Life(r)' /\ Launched(r)'
  BY DEF Sound, Counted, Dying, Life, Launched, Bit
<1>2. Located(r)'
  BY DEF Sound, Located, Wanted, Bit
<1> QED
  BY <1>1, <1>2 DEF Sound

(* The steps of a call leave the workers where they are.                   *)
LEMMA WorkersStay ==
    ASSUME IInv, UNCHANGED <<working, waiting, feeding, inited>>
    PROVE  /\ ServedInited' /\ WorkersOK' /\ Quiet'
           /\ \A r \in Services : /\ Servers(r)' = Servers(r) /\ Held(r)' = Held(r)
                                   /\ Nexts(r)' = Nexts(r)
<1>1. ServedInited' /\ WorkersOK' /\ Quiet'
  BY DEF IInv, ServedInited, WorkersOK, Quiet, working, waiting, feeding
<1>2. ASSUME NEW r \in Services
      PROVE  Servers(r)' = Servers(r) /\ Held(r)' = Held(r) /\ Nexts(r)' = Nexts(r)
  BY DEF Servers, Held, Nexts, working
<1> QED
  BY <1>1, <1>2

LEMMA QueueStays ==
    ASSUME UNCHANGED global, NEW r \in Services
    PROVE  InQ(r)' = InQ(r)
BY DEF InQ

(* An operation that t has yet to do counts.                               *)
LEMMA Under ==
    ASSUME TypeOK, NEW t \in Threads, NEW n \in DOMAIN todo[t]
    PROVE  /\ todo[t][n].op \in Carries => Carriers(todo[t][n].s) >= 1
           /\ todo[t][n].op \in Owes => Owers(todo[t][n].s) >= 1
           /\ todo[t][n].op = "delete" => Deleters(todo[t][n].s) >= 1
<1>1. todo \in [Threads -> Seq(Op)] /\ todo[t][n] \in Op
  BY DEF TypeOK
<1>2. \A ops : todo[t][n].op \in ops => todo[t][n] \in Of(todo[t][n].s, ops)
  BY <1>1 DEF Of
<1>3. \A ops : todo[t][n].op \in ops => Count(todo, Of(todo[t][n].s, ops)) >= 1
  BY <1>1, <1>2, CountPositive
<1> QED
  BY <1>3 DEF Carriers, Owers, Deleters

LEMMA WeighsType == ASSUME NEW a, NEW r, NEW K PROVE Weighs(a, r, K) \in {0, 1}
BY DEF Weighs, Bit

LEMMA Returned ==
    ASSUME TypeOK, NEW t \in Threads, todo[t] # <<>>, NEW ops \in Seq(Op), Returns(t, ops),
           NEW r \in Services
    PROVE  /\ todo' \in [Threads -> Seq(Op)]
           /\ Carriers(r)' = Carriers(r) - Weighs(Head(todo[t]), r, Carries)
                                         + Many(ops, Of(r, Carries))
           /\ Owers(r)' = Owers(r) - Weighs(Head(todo[t]), r, Owes) + Many(ops, Of(r, Owes))
           /\ Deleters(r)' = Deleters(r) - Weighs(Head(todo[t]), r, {"delete"})
                                         + Many(ops, Of(r, {"delete"}))
<1>1. todo \in [Threads -> Seq(Op)]
  BY DEF TypeOK
<1>2. \A K : Bit(Head(todo[t]) \in Of(r, K)) = Weighs(Head(todo[t]), r, K)
  <2>1. \A K : (Head(todo[t]) \in Of(r, K)) = (Head(todo[t]).s = r /\ Head(todo[t]).op \in K)
    BY <1>1, Done
  <2> QED
    BY <2>1 DEF Weighs
<1>3. todo' \in [Threads -> Seq(Op)]
  BY <1>1, ReturnsCount
<1>4. ASSUME NEW K
      PROVE  Count(todo', Of(r, K)) = Count(todo, Of(r, K)) - Weighs(Head(todo[t]), r, K)
                                      + Many(ops, Of(r, K))
  <2>1. Count(todo', Of(r, K)) = Count(todo, Of(r, K)) - Bit(Head(todo[t]) \in Of(r, K))
                                 + Many(ops, Of(r, K))
    BY <1>1, ReturnsCount
  <2> QED
    BY <1>2, <2>1
<1>5. Carriers(r)' = Carriers(r) - Weighs(Head(todo[t]), r, Carries) + Many(ops, Of(r, Carries))
  BY <1>4 DEF Carriers
<1>6. Owers(r)' = Owers(r) - Weighs(Head(todo[t]), r, Owes) + Many(ops, Of(r, Owes))
  BY <1>4 DEF Owers
<1>7. Deleters(r)' = Deleters(r) - Weighs(Head(todo[t]), r, {"delete"})
                     + Many(ops, Of(r, {"delete"}))
  BY <1>4 DEF Deleters
<1> QED
  BY <1>3, <1>5, <1>6, <1>7

(* t begins an operation, before what it has yet to do or from nothing.    *)
LEMMA Begun ==
    ASSUME TypeOK, NEW t \in Threads, NEW a \in Op, NEW r \in Services,
           \/ todo' = [todo EXCEPT ![t] = <<a>> \o @]
           \/ todo[t] = <<>> /\ todo' = [todo EXCEPT ![t] = <<a>>]
    PROVE  /\ todo' \in [Threads -> Seq(Op)]
           /\ Carriers(r)' = Carriers(r) + Weighs(a, r, Carries)
           /\ Owers(r)' = Owers(r) + Weighs(a, r, Owes)
           /\ Deleters(r)' = Deleters(r) + Weighs(a, r, {"delete"})
<1>1. todo \in [Threads -> Seq(Op)]
  BY DEF TypeOK
<1>2. \A K : Bit(a \in Of(r, K)) = Weighs(a, r, K)
  <2>1. \A K : (a \in Of(r, K)) = (a.s = r /\ a.op \in K)
    BY DEF Of
  <2> QED
    BY <2>1 DEF Weighs
<1>3. /\ todo' \in [Threads -> Seq(Op)]
      /\ \A K : Count(todo', Of(r, K)) = Count(todo, Of(r, K)) + Bit(a \in Of(r, K))
  <2>1. CASE todo' = [todo EXCEPT ![t] = <<a>> \o @]
    BY <1>1, <2>1, BeginsCount
  <2>2. CASE todo[t] = <<>> /\ todo' = [todo EXCEPT ![t] = <<a>>]
    BY <1>1, <2>2, StartsCount
  <2> QED
    BY <2>1, <2>2
<1>4. \A K : Count(todo', Of(r, K)) = Count(todo, Of(r, K)) + Weighs(a, r, K)
  BY <1>2, <1>3
<1>5. /\ Carriers(r) = Count(todo, Of(r, Carries)) /\ Carriers(r)' = Count(todo', Of(r, Carries))
      /\ Owers(r) = Count(todo, Of(r, Owes)) /\ Owers(r)' = Count(todo', Of(r, Owes))
      /\ Deleters(r) = Count(todo, Of(r, {"delete"}))
      /\ Deleters(r)' = Count(todo', Of(r, {"delete"}))
  BY DEF Carriers, Owers, Deleters
<1>6. Carriers(r)' = Carriers(r) + Weighs(a, r, Carries)
  BY <1>4, <1>5
<1>7. Owers(r)' = Owers(r) + Weighs(a, r, Owes)
  BY <1>4, <1>5
<1>8. Deleters(r)' = Deleters(r) + Weighs(a, r, {"delete"})
  BY <1>4, <1>5
<1> QED
  BY <1>3, <1>6, <1>7, <1>8

LEMMA ManyOf ==
    ASSUME NEW a \in Op, NEW r, NEW K
    PROVE  <<a>> \in Seq(Op) /\ Many(<<a>>, Of(r, K)) = Weighs(a, r, K)
<1>1. (a \in Of(r, K)) = (a.s = r /\ a.op \in K)
  BY DEF Of
<1> QED
  BY <1>1, ManyOne DEF Weighs

LEMMA ManyOfTwo ==
    ASSUME NEW a \in Op, NEW b \in Op, NEW r, NEW K
    PROVE  /\ <<a, b>> \in Seq(Op)
           /\ Many(<<a, b>>, Of(r, K)) = Weighs(a, r, K) + Weighs(b, r, K)
<1>1. <<a, b>> \in Seq(Op) /\ <<a>> \in Seq(Op)
  OBVIOUS
<1>2. Many(Append(<<a>>, b), Of(r, K)) = Many(<<a>>, Of(r, K)) + Bit(b \in Of(r, K))
  BY <1>1, ManyAppend
<1>3. Many(<<a>>, Of(r, K)) = Weighs(a, r, K)
  BY ManyOf
<1>4. Bit(b \in Of(r, K)) = Weighs(b, r, K)
  <2>1. (b \in Of(r, K)) = (b.s = r /\ b.op \in K)
    BY DEF Of
  <2> QED
    BY <2>1 DEF Weighs
<1>5. Append(<<a>>, b) = <<a, b>>
  <2>1. /\ Append(<<a>>, b) \in Seq(Op) /\ Len(Append(<<a>>, b)) = 2
        /\ Append(<<a>>, b)[1] = a /\ Append(<<a>>, b)[2] = b
    BY <1>1, AppendProperties
  <2>2. Len(<<a, b>>) = 2 /\ <<a, b>>[1] = a /\ <<a, b>>[2] = b
    OBVIOUS
  <2>3. \A i \in 1..2 : i = 1 \/ i = 2
    OBVIOUS
  <2> QED
    BY <1>1, <2>1, <2>2, <2>3, SeqEqual
<1> QED
  BY <1>1, <1>2, <1>3, <1>4, <1>5

LEMMA ManyOfThree ==
    ASSUME NEW a \in Op, NEW b \in Op, NEW c \in Op, NEW r, NEW K
    PROVE  Many(<<a, b, c>>, Of(r, K)) = Weighs(a, r, K) + Weighs(b, r, K) + Weighs(c, r, K)
<1>1. <<a, b>> \in Seq(Op) /\ <<a, b, c>> \in Seq(Op)
  OBVIOUS
<1>2. Many(Append(<<a, b>>, c), Of(r, K)) = Many(<<a, b>>, Of(r, K)) + Bit(c \in Of(r, K))
  BY <1>1, ManyAppend
<1>3. Many(<<a, b>>, Of(r, K)) = Weighs(a, r, K) + Weighs(b, r, K)
  BY ManyOfTwo
<1>4. Bit(c \in Of(r, K)) = Weighs(c, r, K)
  <2>1. (c \in Of(r, K)) = (c.s = r /\ c.op \in K)
    BY DEF Of
  <2> QED
    BY <2>1 DEF Weighs
<1>5. Append(<<a, b>>, c) = <<a, b, c>>
  <2>1. /\ Append(<<a, b>>, c) \in Seq(Op) /\ Len(Append(<<a, b>>, c)) = 3
        /\ Append(<<a, b>>, c)[1] = a /\ Append(<<a, b>>, c)[2] = b
        /\ Append(<<a, b>>, c)[3] = c
    BY <1>1, AppendProperties
  <2>2. /\ Len(<<a, b, c>>) = 3
        /\ <<a, b, c>>[1] = a /\ <<a, b, c>>[2] = b /\ <<a, b, c>>[3] = c
    OBVIOUS
  <2>3. \A i \in 1..3 : i = 1 \/ i = 2 \/ i = 3
    OBVIOUS
  <2> QED
    BY <1>1, <2>1, <2>2, <2>3, SeqEqual
<1> QED
  BY <1>2, <1>3, <1>4, <1>5

LEMMA ReturnsNone ==
    ASSUME TypeOK, NEW t \in Threads, todo[t] # <<>>, Returns(t, <<>>), NEW r \in Services
    PROVE  /\ todo' \in [Threads -> Seq(Op)]
           /\ Carriers(r)' = Carriers(r) - Weighs(Head(todo[t]), r, Carries)
           /\ Owers(r)' = Owers(r) - Weighs(Head(todo[t]), r, Owes)
           /\ Deleters(r)' = Deleters(r) - Weighs(Head(todo[t]), r, {"delete"})
<1>1. <<>> \in Seq(Op) /\ \A K : Many(<<>>, Of(r, K)) = 0
  BY ManyNone
<1>2. /\ todo' \in [Threads -> Seq(Op)]
      /\ Carriers(r)' = Carriers(r) - Weighs(Head(todo[t]), r, Carries) + 0
      /\ Owers(r)' = Owers(r) - Weighs(Head(todo[t]), r, Owes) + 0
      /\ Deleters(r)' = Deleters(r) - Weighs(Head(todo[t]), r, {"delete"}) + 0
  BY <1>1, Returned, ZenonT(60)
<1> QED
  BY <1>2, WeighsType, NumbersType

LEMMA ReturnsOne ==
    ASSUME TypeOK, NEW t \in Threads, todo[t] # <<>>, NEW a \in Op, Returns(t, <<a>>),
           NEW r \in Services
    PROVE  /\ todo' \in [Threads -> Seq(Op)] /\ <<a>> \in Seq(Op)
           /\ Carriers(r)' = Carriers(r) - Weighs(Head(todo[t]), r, Carries)
                                         + Weighs(a, r, Carries)
           /\ Owers(r)' = Owers(r) - Weighs(Head(todo[t]), r, Owes) + Weighs(a, r, Owes)
           /\ Deleters(r)' = Deleters(r) - Weighs(Head(todo[t]), r, {"delete"})
                                         + Weighs(a, r, {"delete"})
<1>1. <<a>> \in Seq(Op) /\ \A K : Many(<<a>>, Of(r, K)) = Weighs(a, r, K)
  BY ManyOf
<1> QED
  BY <1>1, Returned

LEMMA ReturnsTwo ==
    ASSUME TypeOK, NEW t \in Threads, todo[t] # <<>>, NEW a \in Op, NEW b \in Op,
           Returns(t, <<a, b>>), NEW r \in Services
    PROVE  /\ todo' \in [Threads -> Seq(Op)] /\ <<a, b>> \in Seq(Op)
           /\ Carriers(r)' = Carriers(r) - Weighs(Head(todo[t]), r, Carries)
                                         + (Weighs(a, r, Carries) + Weighs(b, r, Carries))
           /\ Owers(r)' = Owers(r) - Weighs(Head(todo[t]), r, Owes)
                                   + (Weighs(a, r, Owes) + Weighs(b, r, Owes))
           /\ Deleters(r)' = Deleters(r) - Weighs(Head(todo[t]), r, {"delete"})
                                         + (Weighs(a, r, {"delete"}) + Weighs(b, r, {"delete"}))
<1>1. <<a, b>> \in Seq(Op) /\ \A K : Many(<<a, b>>, Of(r, K)) = Weighs(a, r, K) + Weighs(b, r, K)
  BY ManyOfTwo
<1> QED
  BY <1>1, Returned, ZenonT(60)

LEMMA CallType ==
    ASSUME IInv, NEW t \in Threads, todo[t] # <<>>, NEW a, a = Head(todo[t])
    PROVE  /\ a \in Op /\ a.op \in Ops /\ a.s \in Services /\ a.m \in Message
           /\ todo[t][1] = a /\ 1 \in DOMAIN todo[t] /\ todo[t] \in Seq(Op)
           /\ Tail(todo[t]) \in Seq(Op) /\ todo \in [Threads -> Seq(Op)]
           /\ a.op \in Carries => Carriers(a.s) >= 1
           /\ a.op \in Owes => Owers(a.s) >= 1
           /\ a.op = "delete" => Deleters(a.s) >= 1
<1>1. TypeOK /\ todo \in [Threads -> Seq(Op)]
  BY DEF IInv, TypeOK
<1>2. /\ a \in Op /\ a.op \in Ops /\ a.s \in Services /\ a.m \in Message
      /\ Tail(todo[t]) \in Seq(Op) /\ todo[t][1] = a /\ 1 \in DOMAIN todo[t]
  BY <1>1, Done
<1>3. /\ todo[t][1].op \in Carries => Carriers(todo[t][1].s) >= 1
      /\ todo[t][1].op \in Owes => Owers(todo[t][1].s) >= 1
      /\ todo[t][1].op = "delete" => Deleters(todo[t][1].s) >= 1
  BY <1>1, <1>2, Under
<1> QED
  BY <1>1, <1>2, <1>3

(* A step that moves operations only, and none that counts.                *)
LEMMA CountsStay ==
    ASSUME IInv, UNCHANGED <<contexts, queues, working, waiting, feeding, failed>>,
           sent' \in 0..MaxMessages, todo' \in [Threads -> Seq(Op)], OpsOK',
           \A r \in Services : /\ Carriers(r)' = Carriers(r) /\ Owers(r)' = Owers(r)
                               /\ Deleters(r)' = Deleters(r)
    PROVE  IInv'
<1>1. TypeOK /\ Nested /\ \A r \in Services : Sound(r)
  BY DEF IInv
<1>2. TypeOK'
  BY <1>1 DEF TypeOK, contexts, queues, working, waiting, feeding
<1>3. /\ ServedInited' /\ WorkersOK' /\ Quiet'
      /\ \A r \in Services : /\ Servers(r)' = Servers(r) /\ Held(r)' = Held(r)
                             /\ Nexts(r)' = Nexts(r)
  BY WorkersStay DEF contexts
<1>4. Nested'
  BY <1>1 DEF Nested, contexts, queues
<1>5. ASSUME NEW r \in Services PROVE Sound(r)'
  BY <1>1, <1>3, QueueStays, Untouched DEF contexts, queues
<1> QED
  BY <1>2, <1>3, <1>4, <1>5 DEF IInv

(* A call begins with an operation that does not count.                    *)
LEMMA SmallBegins ==
    ASSUME IInv, NEW t \in Threads, NEW b \in Op, b.op \in {"grab", "retire", "abort"},
           \/ todo' = [todo EXCEPT ![t] = <<b>> \o @]
           \/ todo[t] = <<>> /\ todo' = [todo EXCEPT ![t] = <<b>>],
           UNCHANGED <<contexts, queues, working, waiting, feeding, failed>>,
           sent' \in 0..MaxMessages
    PROVE  IInv'
<1>1. TypeOK /\ OpsOK /\ todo \in [Threads -> Seq(Op)] /\ todo[t] \in Seq(Op)
  BY DEF IInv, TypeOK
<1>2. \A r : Weighs(b, r, Carries) = 0 /\ Weighs(b, r, Owes) = 0 /\ Weighs(b, r, {"delete"}) = 0
  BY DEF Weighs, Carries, Owes, Bit
<1>3. \A r \in Services : /\ todo' \in [Threads -> Seq(Op)]
                          /\ Carriers(r)' = Carriers(r) + 0
                          /\ Owers(r)' = Owers(r) + 0
                          /\ Deleters(r)' = Deleters(r) + 0
  BY <1>1, <1>2, Begun
<1>4. \A r \in Services : /\ Carriers(r)' = Carriers(r) /\ Owers(r)' = Owers(r)
                          /\ Deleters(r)' = Deleters(r)
  BY <1>1, <1>3, NumbersType
<1>5. todo' \in [Threads -> Seq(Op)]
  BY <1>3, WorkersAssumption
<1>6. OpsOK'
  <2>1. <<b>> \in Seq(Op) /\ Fine(<<b>>, Raw, freed)
    BY FineOne
  <2>2. <<b>> \o todo[t] \in Seq(Op)
    BY <1>1, <2>1, ConcatProperties
  <2>3. todo[t] = <<>> => <<b>> \o todo[t] = <<b>>
    OBVIOUS
  <2>4. todo' = [todo EXCEPT ![t] = <<b>> \o todo[t]]
    BY <2>3
  <2> QED
    BY <1>1, <2>1, <2>2, <2>4, BeginsFine DEF contexts
<1> QED
  BY <1>4, <1>5, <1>6, CountsStay

(* A call that sends a message begins.                                     *)
LEMMA SendBegins ==
    ASSUME IInv, NEW t \in Threads, NEW s \in Services, NEW m \in Message,
           \/ todo' = [todo EXCEPT ![t] = <<Sends(s, m)>> \o @]
           \/ todo[t] = <<>> /\ todo' = [todo EXCEPT ![t] = <<Sends(s, m)>>],
           UNCHANGED <<contexts, queues, working, waiting, feeding, failed>>,
           sent' \in 0..MaxMessages
    PROVE  IInv'
<1> DEFINE b == Sends(s, m)
<1>1. b \in Op /\ b.op = "grab" /\ b.s = s
  BY Sent
<1>2. TypeOK /\ OpsOK /\ todo \in [Threads -> Seq(Op)] /\ todo[t] \in Seq(Op)
  BY DEF IInv, TypeOK
<1> HIDE DEF b
<1> QED
  BY <1>1, <1>2, SmallBegins DEF b

-----------------------------------------------------------------------------
(* The operations of a call.                                               *)
LEMMA GrabStep ==
    ASSUME IInv, NEW t \in Threads, Grab(t)
    PROVE  IInv'
<1> DEFINE a == Head(todo[t])
           p == [a EXCEPT !.op = "push"]
           u == Calls("unref", a.s)
<1>1. /\ todo[t] # <<>> /\ a.op = "grab"
      /\ UNCHANGED <<created, alive, freed, inited, queues, working, waiting, feeding, sent, failed>>
  BY DEF Grab, Doing
<1>2. a \in Op /\ a.s \in Services /\ todo \in [Threads -> Seq(Op)]
  BY <1>1, CallType
<1>3. p \in Op /\ p.op = "push" /\ p.s = a.s /\ u \in Op /\ u.op = "unref" /\ u.s = a.s
  BY <1>2, Called, SMTT(60) DEF Op, Ops
<1>4. TypeOK /\ OpsOK /\ Nested
  BY DEF IInv
<1>5. /\ ServedInited' /\ WorkersOK' /\ Quiet' /\ Nested'
      /\ \A r \in Services : /\ Servers(r)' = Servers(r) /\ Held(r)' = Held(r)
                             /\ Nexts(r)' = Nexts(r) /\ InQ(r)' = InQ(r)
  BY <1>1, <1>4, WorkersStay, QueueStays DEF Nested, queues
<1>6. \A r : /\ Weighs(a, r, Carries) = 0 /\ Weighs(a, r, Owes) = 0 /\ Weighs(a, r, {"delete"}) = 0
             /\ Weighs(p, r, Carries) = 0 /\ Weighs(p, r, Owes) = 0 /\ Weighs(p, r, {"delete"}) = 0
             /\ Weighs(u, r, Carries) = 0 /\ Weighs(u, r, Owes) = Bit(a.s = r)
             /\ Weighs(u, r, {"delete"}) = 0
  BY <1>1, <1>3 DEF Weighs, Carries, Owes, Bit
<1>7. \A r \in Services : Sound(r)
  BY DEF IInv
<1> HIDE DEF p, u
<1>8. CASE a.s \in alive
  <2>1. Returns(t, <<p, u>>) /\ ref' = [ref EXCEPT ![a.s] = @ + 1]
    BY <1>8 DEF Grab, p, u
  <2>2. \A r \in Services : /\ todo' \in [Threads -> Seq(Op)] /\ <<p, u>> \in Seq(Op)
                            /\ Carriers(r)' = Carriers(r) - 0 + (0 + 0)
                            /\ Owers(r)' = Owers(r) - 0 + (0 + Bit(a.s = r))
                            /\ Deleters(r)' = Deleters(r) - 0 + (0 + 0)
    BY <1>1, <1>3, <1>4, <1>6, <2>1, ReturnsTwo
  <2>3. TypeOK'
    BY <1>1, <1>2, <1>4, <2>1, <2>2 DEF TypeOK, queues, working, waiting, feeding
  <2>4. OpsOK'
    <3>1. Fine(<<p, u>>, Raw', freed')
      BY <1>3 DEF Fine
    <3> QED
      BY <1>1, <1>2, <1>4, <2>1, <2>2, <3>1, ReturnsFine
  <2>5. ASSUME NEW r \in Services PROVE Sound(r)'
    <3>0. /\ Carriers(r) \in Nat /\ Owers(r) \in Nat /\ Deleters(r) \in Nat
          /\ Servers(r) \in Nat /\ ref[r] \in Int
      BY <1>4, NumbersType
    <3>1. ref'[r] = ref[r] + Bit(a.s = r)
      <4>1. ref' = [ref EXCEPT ![a.s] = ref[a.s] + 1] /\ ref \in [Services -> Int]
        BY <1>4, <2>1 DEF TypeOK
      <4>2. CASE a.s = r
        BY <4>1, <4>2 DEF Bit
      <4>3. CASE a.s # r
        BY <3>0, <4>1, <4>3 DEF Bit
      <4> QED
        BY <4>2, <4>3
    <3>2. /\ Carriers(r)' = Carriers(r) /\ Deleters(r)' = Deleters(r)
          /\ Owers(r)' = Owers(r) + Bit(a.s = r)
      BY <2>2, <3>0, <3>1 DEF Bit
    <3>3. Counted(r)'
      BY <1>1, <1>5, <1>7, <3>0, <3>1, <3>2 DEF Sound, Counted, Bit
    <3>4. Located(r)' /\ Launched(r)'
      BY <1>1, <1>5, <1>7, <3>2 DEF Sound, Located, Wanted, Launched, queues
    <3>5. Dying(r)' /\ Life(r)'
      <4>1. a.s = r => ref[r] >= 1 /\ ref'[r] >= 1 /\ r \in created
        BY <1>4, <1>7, <1>8, <3>0, <3>1, SMTT(40) DEF Sound, Counted, Bit, TypeOK
      <4>2. a.s # r => ref'[r] = ref[r]
        BY <3>0, <3>1 DEF Bit
      <4> QED
        BY <1>1, <1>7, <3>0, <3>1, <3>2, <4>1, <4>2 DEF Sound, Dying, Life, Bit, queues
    <3> QED
      BY <3>3, <3>4, <3>5 DEF Sound
  <2> QED
    BY <1>5, <2>3, <2>4, <2>5 DEF IInv
<1>9. CASE a.s \notin alive
  <2>1. Returns(t, <<>>) /\ ref' = ref
    BY <1>9 DEF Grab
  <2>2. \A r \in Services : /\ todo' \in [Threads -> Seq(Op)]
                            /\ Carriers(r)' = Carriers(r) - 0
                            /\ Owers(r)' = Owers(r) - 0
                            /\ Deleters(r)' = Deleters(r) - 0
    BY <1>1, <1>4, <1>6, <2>1, ReturnsNone
  <2>3. TypeOK'
    BY <1>1, <1>2, <1>4, <2>1, <2>2 DEF TypeOK, queues, working, waiting, feeding
  <2>4. OpsOK'
    <3>1. Fine(<<>>, Raw', freed') /\ <<>> \in Seq(Op)
      BY FineNone
    <3> QED
      BY <1>1, <1>2, <1>4, <2>1, <3>1, ReturnsFine
  <2>5. ASSUME NEW r \in Services PROVE Sound(r)'
    <3>1. Carriers(r) \in Nat /\ Owers(r) \in Nat /\ Deleters(r) \in Nat
      BY <1>4, NumbersType
    <3>2. Carriers(r)' = Carriers(r) /\ Owers(r)' = Owers(r) /\ Deleters(r)' = Deleters(r)
      BY <2>2, <3>1
    <3> QED
      BY <1>1, <1>5, <1>7, <2>1, <3>2, Untouched DEF queues
  <2> QED
    BY <1>5, <2>3, <2>4, <2>5 DEF IInv
<1> QED
  BY <1>8, <1>9

LEMMA PushStep ==
    ASSUME IInv, NEW t \in Threads, Push(t)
    PROVE  IInv'
<1> DEFINE a == Head(todo[t])
<1>1. /\ todo[t] # <<>> /\ a.op = "push" /\ Returns(t, <<>>)
      /\ queue' = [queue EXCEPT ![a.s] = Append(@, a.m)]
      /\ inGlobal' = [inGlobal EXCEPT ![a.s] = TRUE]
      /\ IF inGlobal[a.s] THEN UNCHANGED global ELSE GlobalPush(a.s)
      /\ UNCHANGED <<created, alive, ref, freed, inited, release, gone, working, waiting, feeding,
                     sent, failed>>
  BY DEF Push, Doing, contexts
<1>2. /\ a \in Op /\ a.s \in Services /\ a.m \in Message /\ todo \in [Threads -> Seq(Op)]
      /\ todo[t][1] = a /\ 1 \in DOMAIN todo[t]
  BY <1>1, CallType
<1>3. TypeOK /\ OpsOK /\ Nested /\ \A r \in Services : Sound(r)
  BY DEF IInv
<1>4. /\ ServedInited' /\ WorkersOK' /\ Quiet' /\ Nested'
      /\ \A r \in Services : /\ Servers(r)' = Servers(r) /\ Held(r)' = Held(r)
                             /\ Nexts(r)' = Nexts(r)
  BY <1>1, <1>3, WorkersStay DEF Nested
<1>5. \A r : Weighs(a, r, Carries) = 0 /\ Weighs(a, r, Owes) = 0 /\ Weighs(a, r, {"delete"}) = 0
  BY <1>1 DEF Weighs, Carries, Owes, Bit
<1>6. \A r \in Services : /\ todo' \in [Threads -> Seq(Op)]
                          /\ Carriers(r)' = Carriers(r) - 0
                          /\ Owers(r)' = Owers(r) - 0
                          /\ Deleters(r)' = Deleters(r) - 0
  BY <1>1, <1>3, <1>5, ReturnsNone
<1>7. \A r \in Services : /\ Carriers(r)' = Carriers(r) /\ Owers(r)' = Owers(r)
                          /\ Deleters(r)' = Deleters(r)
  BY <1>3, <1>6, NumbersType
(* The reference of the call is still there, and keeps the context.        *)
<1>8. a.s \notin freed /\ a.s \in created /\ ref[a.s] >= 1
  <2>1. 2 \in DOMAIN todo[t] /\ todo[t][2].op = "unref" /\ todo[t][2].s = a.s
    <3>1. Fine(todo[t], Raw, freed)
      BY <1>3 DEF OpsOK
    <3>2. 1 + 1 \in DOMAIN todo[t] /\ todo[t][1 + 1].op = "unref" /\ todo[t][1 + 1].s = a.s
      BY <1>1, <1>2, <3>1 DEF Fine
    <3> QED
      BY <3>2
  <2>2. Owers(a.s) >= 1
    BY <1>3, <2>1, Under DEF Owes
  <2>3. ref[a.s] >= 1
    BY <1>2, <1>3, <2>2, NumbersType DEF Sound, Counted, Bit
  <2> QED
    BY <1>2, <1>3, <2>3 DEF Sound, Life
<1>9. TypeOK'
  <2>1. queue' \in [Services -> Seq(Message)] /\ inGlobal' \in [Services -> BOOLEAN]
    BY <1>1, <1>2, <1>3 DEF TypeOK
  <2>2. global' \in Seq(Services)
    BY <1>1, <1>2, <1>3, Pushed DEF TypeOK
  <2> QED
    BY <1>1, <1>2, <1>3, <1>6, <2>1, <2>2 DEF TypeOK, working, waiting, feeding
<1>10. OpsOK'
  <2>1. Fine(<<>>, Raw', freed') /\ <<>> \in Seq(Op)
    BY FineNone
  <2> QED
    BY <1>1, <1>2, <1>3, <2>1, ReturnsFine
<1>11. ASSUME NEW r \in Services PROVE Sound(r)'
  <2>1. /\ Carriers(r) \in Nat /\ InQ(r) \in Nat /\ Held(r) \in Nat /\ Nexts(r) \in Nat
    BY <1>3, NumbersType
  <2>2. Counted(r)' /\ Dying(r)' /\ Launched(r)'
    BY <1>1, <1>3, <1>4, <1>7 DEF Sound, Counted, Dying, Launched
  <2>3. Life(r)'
    BY <1>1, <1>3, <1>8 DEF Sound, Life, TypeOK
  <2>4. Located(r)'
    <3>1. CASE r = a.s
      <4>1. inGlobal'[r] /\ r \notin gone'
        BY <1>1, <1>3, <1>8, <3>1 DEF Nested, TypeOK
      <4>2. Wanted(r)' /\ Bit(Wanted(r)') = 1
        BY <4>1 DEF Wanted, Bit
      <4>3. CASE inGlobal[r]
        <5>1. InQ(r)' = InQ(r) /\ Bit(Wanted(r)) = 1
          BY <1>1, <1>3, <1>8, <3>1, <4>3, QueueStays DEF Nested, Wanted, Bit
        <5> QED
          BY <1>3, <1>4, <1>7, <2>1, <4>2, <5>1 DEF Sound, Located
      <4>4. CASE ~inGlobal[r]
        <5>1. InQ(r)' = InQ(r) + 1
          BY <1>1, <1>2, <1>3, <3>1, <4>4, Pushed DEF Bit
        <5>2. ~Wanted(r) /\ Bit(Wanted(r)) = 0
          BY <1>3, <1>8, <3>1, <4>4 DEF Sound, Life, Wanted, Bit
        <5>3. InQ(r) + Held(r) + Nexts(r) + Carriers(r) = 0
          BY <1>3, <5>2 DEF Sound, Located
        <5>4. InQ(r)' + Held(r)' + Nexts(r)' + Carriers(r)' = 1
          BY <1>4, <1>7, <2>1, <5>1, <5>3
        <5> QED
          BY <4>2, <5>4 DEF Located
      <4> QED
        BY <4>3, <4>4
    <3>2. CASE r # a.s
      <4>1. InQ(r)' = InQ(r)
        <5>1. CASE inGlobal[a.s]
          BY <1>1, <5>1, QueueStays
        <5>2. CASE ~inGlobal[a.s]
          BY <1>1, <1>2, <1>3, <2>1, <3>2, <5>2, Pushed DEF Bit
        <5> QED
          BY <5>1, <5>2
      <4>2. Wanted(r)' = Wanted(r)
        BY <1>1, <1>3, <3>2 DEF Wanted, TypeOK
      <4> QED
        BY <1>3, <1>4, <1>7, <4>1, <4>2 DEF Sound, Located
    <3> QED
      BY <3>1, <3>2
  <2> QED
    BY <2>2, <2>3, <2>4 DEF Sound
<1> QED
  BY <1>3, <1>4, <1>9, <1>10, <1>11 DEF IInv

LEMMA UnrefStep ==
    ASSUME IInv, NEW t \in Threads, Unref(t)
    PROVE  IInv'
<1> DEFINE a == Head(todo[t])
           s == a.s
           d == Calls("delete", s)
<1>1. /\ todo[t] # <<>> /\ a.op = "unref"
      /\ ref' = [ref EXCEPT ![s] = @ - 1]
      /\ Returns(t, IF ref[s] = 1 THEN <<d>> ELSE <<>>)
      /\ UNCHANGED <<created, alive, freed, inited, queues, working, waiting, feeding, sent, failed>>
  BY DEF Unref, Doing
<1>2. a \in Op /\ s \in Services /\ todo \in [Threads -> Seq(Op)] /\ Owers(s) >= 1
  BY <1>1, CallType DEF Owes
<1>3. TypeOK /\ OpsOK /\ Nested /\ \A r \in Services : Sound(r)
  BY DEF IInv
<1>4. /\ ServedInited' /\ WorkersOK' /\ Quiet' /\ Nested'
      /\ \A r \in Services : /\ Servers(r)' = Servers(r) /\ Held(r)' = Held(r)
                             /\ Nexts(r)' = Nexts(r) /\ InQ(r)' = InQ(r)
  BY <1>1, <1>3, WorkersStay, QueueStays DEF Nested, queues
<1>5. d \in Op /\ d.op = "delete" /\ d.s = s
  BY <1>2, Called DEF Ops
<1>6. \A r : /\ Weighs(a, r, Carries) = 0 /\ Weighs(a, r, Owes) = Bit(s = r)
             /\ Weighs(a, r, {"delete"}) = 0
             /\ Weighs(d, r, Carries) = 0 /\ Weighs(d, r, Owes) = 0
             /\ Weighs(d, r, {"delete"}) = Bit(s = r)
  BY <1>1, <1>5 DEF Weighs, Carries, Owes, Bit
<1>7. \A r \in Services : Bit(s = r) \in {0, 1}
  BY DEF Bit
(* The last reference or not.                                              *)
<1>8. ref[s] \in Int /\ ref[s] >= 1 /\ s \in created /\ s \notin freed /\ Deleters(s) = 0
  <2>1. ref[s] \in Int /\ ref[s] >= 1
    BY <1>2, <1>3, NumbersType DEF Sound, Counted, Bit
  <2> QED
    BY <1>2, <1>3, <2>1 DEF Sound, Life, Dying, Bit
<1> HIDE DEF a, s, d
<1>9. \A r \in Services : /\ todo' \in [Threads -> Seq(Op)]
                          /\ Carriers(r)' = Carriers(r)
                          /\ Owers(r)' = Owers(r) - Bit(s = r)
                          /\ Deleters(r)' = Deleters(r) + Bit(s = r /\ ref[s] = 1)
  <2>1. CASE ref[s] = 1
    <3>1. Returns(t, <<d>>)
      BY <1>1, <2>1
    <3>2. \A r \in Services : /\ todo' \in [Threads -> Seq(Op)]
                              /\ Carriers(r)' = Carriers(r) - 0 + 0
                              /\ Owers(r)' = Owers(r) - Bit(s = r) + 0
                              /\ Deleters(r)' = Deleters(r) - 0 + Bit(s = r)
      BY <1>1, <1>3, <1>5, <1>6, <3>1, ReturnsOne DEF a
    <3> QED
      BY <1>3, <1>7, <2>1, <3>2, NumbersType DEF Bit
  <2>2. CASE ref[s] # 1
    <3>1. Returns(t, <<>>)
      BY <1>1, <2>2
    <3>2. \A r \in Services : /\ todo' \in [Threads -> Seq(Op)]
                              /\ Carriers(r)' = Carriers(r) - 0
                              /\ Owers(r)' = Owers(r) - Bit(s = r)
                              /\ Deleters(r)' = Deleters(r) - 0
      BY <1>1, <1>3, <1>6, <3>1, ReturnsNone DEF a
    <3> QED
      BY <1>3, <1>7, <2>2, <3>2, NumbersType DEF Bit
  <2> QED
    BY <2>1, <2>2
<1>10. TypeOK'
  BY <1>1, <1>2, <1>3, <1>9 DEF TypeOK, queues, working, waiting, feeding
<1>11. OpsOK'
  <2>1. /\ (IF ref[s] = 1 THEN <<d>> ELSE <<>>) \in Seq(Op)
        /\ Fine(IF ref[s] = 1 THEN <<d>> ELSE <<>>, Raw', freed')
    BY <1>5, FineOne, FineNone
  <2> QED
    BY <1>1, <1>2, <1>3, <2>1, ReturnsFine DEF a
<1>12. ASSUME NEW r \in Services PROVE Sound(r)'
  <2>1. /\ Carriers(r) \in Nat /\ Owers(r) \in Nat /\ Deleters(r) \in Nat /\ Servers(r) \in Nat
        /\ ref[r] \in Int
    BY <1>3, NumbersType
  <2>2. CASE r # s
    <3>1. ref'[r] = ref[r] /\ Bit(s = r) = 0 /\ Bit(s = r /\ ref[s] = 1) = 0
      BY <1>1, <1>3, <2>2 DEF TypeOK, Bit
    <3>2. Owers(r)' = Owers(r) /\ Deleters(r)' = Deleters(r)
      BY <1>9, <2>1, <3>1
    <3> QED
      BY <1>1, <1>3, <1>4, <1>9, <3>1, <3>2, Untouched DEF queues
  <2>3. CASE r = s
    <3>1. ref'[r] = ref[r] - 1 /\ Bit(s = r) = 1 /\ ref[r] >= 1 /\ r \in created /\ r \notin freed
      BY <1>1, <1>3, <1>8, <2>3 DEF TypeOK, Bit
    <3>2. Owers(r)' = Owers(r) - 1
      BY <1>9, <3>1
    <3>3. Counted(r)'
      BY <1>1, <1>3, <1>4, <2>1, <3>1, <3>2 DEF Sound, Counted, Bit
    <3>4. Located(r)' /\ Launched(r)' /\ Life(r)'
      BY <1>1, <1>3, <1>4, <1>9, <3>1 DEF Sound, Located, Wanted, Launched, Life, queues
    <3>5. Dying(r)'
      BY <1>1, <1>8, <1>9, <2>1, <2>3, <3>1 DEF Dying, Bit
    <3> QED
      BY <3>3, <3>4, <3>5 DEF Sound
  <2> QED
    BY <2>2, <2>3
<1> QED
  BY <1>3, <1>4, <1>10, <1>11, <1>12 DEF IInv

LEMMA DeleteStep ==
    ASSUME IInv, NEW t \in Threads, Delete(t)
    PROVE  IInv'
<1> DEFINE a == Head(todo[t])
           s == a.s
<1>1. /\ todo[t] # <<>> /\ a.op = "delete" /\ Returns(t, <<>>)
      /\ failed' = IF release[s] THEN failed \cup {"release"} ELSE failed
      /\ release' = [release EXCEPT ![s] = TRUE]
      /\ IF inGlobal[s] THEN UNCHANGED global ELSE GlobalPush(s)
      /\ freed' = freed \cup {s}
      /\ UNCHANGED <<created, alive, ref, inited, queue, inGlobal, gone, working, waiting, feeding,
                     sent>>
  BY DEF Delete, Doing
<1>2. /\ a \in Op /\ s \in Services /\ todo \in [Threads -> Seq(Op)] /\ Deleters(s) >= 1
  BY <1>1, CallType
<1>3. TypeOK /\ OpsOK /\ Nested /\ \A r \in Services : Sound(r)
  BY DEF IInv
<1>4. /\ ServedInited' /\ WorkersOK' /\ Quiet'
      /\ \A r \in Services : /\ Servers(r)' = Servers(r) /\ Held(r)' = Held(r)
                             /\ Nexts(r)' = Nexts(r)
  BY <1>1, WorkersStay
<1>5. \A r : /\ Weighs(a, r, Carries) = 0 /\ Weighs(a, r, Owes) = 0
             /\ Weighs(a, r, {"delete"}) = Bit(s = r)
  BY <1>1 DEF Weighs, Carries, Owes, Bit
<1>6. \A r \in Services : /\ todo' \in [Threads -> Seq(Op)]
                          /\ Carriers(r)' = Carriers(r) - 0
                          /\ Owers(r)' = Owers(r) - 0
                          /\ Deleters(r)' = Deleters(r) - Bit(s = r)
  BY <1>1, <1>3, <1>5, ReturnsNone
<1>7. \A r \in Services : Carriers(r)' = Carriers(r) /\ Owers(r)' = Owers(r)
  BY <1>3, <1>6, NumbersType
(* It was not deleted before, and the table does not map to it.            *)
<1>8. /\ s \in created /\ ref[s] = 0 /\ s \notin freed /\ ~release[s] /\ s \notin alive
      /\ s \notin gone /\ Deleters(s) = 1
  <2>1. s \in created /\ ref[s] = 0 /\ s \notin freed /\ Deleters(s) = 1
    BY <1>2, <1>3, NumbersType DEF Sound, Dying, Bit
  <2>2. s \notin alive
    <3>1. Servers(s) \in Nat /\ Owers(s) \in Nat
      BY <1>2, <1>3, NumbersType
    <3>2. 0 = Bit(s \in alive) + Servers(s) + Owers(s)
      BY <1>2, <1>3, <2>1 DEF Sound, Counted
    <3> QED
      BY <3>1, <3>2, SMTT(40) DEF Bit
  <2> QED
    BY <1>2, <1>3, <2>1, <2>2 DEF Sound, Life, Nested
<1> HIDE DEF a, s
<1>9. Nested'
  BY <1>1, <1>3, <1>8 DEF Nested
<1>10. TypeOK'
  <2>1. release' \in [Services -> BOOLEAN] /\ freed' \in SUBSET created' /\ failed' = failed
    BY <1>1, <1>3, <1>8 DEF TypeOK
  <2>2. global' \in Seq(Services)
    BY <1>1, <1>2, <1>3, Pushed DEF TypeOK
  <2> QED
    BY <1>1, <1>2, <1>3, <1>6, <2>1, <2>2 DEF TypeOK, working, waiting, feeding
<1>11. OpsOK'
  <2>1. Fine(<<>>, Raw', freed') /\ <<>> \in Seq(Op)
    BY FineNone
  <2> QED
    BY <1>1, <1>2, <1>3, <2>1, ReturnsFine DEF a
<1>12. ASSUME NEW r \in Services PROVE Sound(r)'
  <2>1. /\ Carriers(r) \in Nat /\ InQ(r) \in Nat /\ Held(r) \in Nat /\ Nexts(r) \in Nat
        /\ Deleters(r) \in Nat
    BY <1>3, NumbersType
  <2>2. CASE r # s
    <3>1. release'[r] = release[r] /\ (r \in freed' <=> r \in freed) /\ Bit(s = r) = 0
      BY <1>1, <1>3, <2>2 DEF TypeOK, Bit
    <3>2. InQ(r)' = InQ(r)
      <4>1. CASE inGlobal[s]
        BY <1>1, <4>1, QueueStays
      <4>2. CASE ~inGlobal[s]
        BY <1>1, <1>2, <1>3, <2>1, <3>1, <4>2, Pushed
      <4> QED
        BY <4>1, <4>2
    <3>3. Deleters(r)' = Deleters(r)
      BY <1>6, <2>1, <3>1
    <3> QED
      BY <1>1, <1>3, <1>4, <1>7, <3>1, <3>2, <3>3, Untouched
  <2>3. CASE r = s
    <3>1. release'[r] /\ r \in freed' /\ r \notin gone' /\ Bit(s = r) = 1
      BY <1>1, <1>3, <1>8, <2>3 DEF TypeOK, Bit
    <3>2. Counted(r)' /\ Life(r)' /\ Launched(r)'
      BY <1>1, <1>3, <1>4, <1>7, <1>8, <2>3, <3>1 DEF Sound, Counted, Life, Launched
    <3>3. Dying(r)'
      BY <1>6, <1>8, <2>3, <3>1 DEF Dying, Bit
    <3>4. Located(r)'
      <4>1. Wanted(r)' /\ Bit(Wanted(r)') = 1
        BY <3>1 DEF Wanted, Bit
      <4>2. CASE inGlobal[r]
        <5>1. InQ(r)' = InQ(r) /\ Bit(Wanted(r)) = 1
          BY <1>1, <1>8, <2>3, <4>2, QueueStays DEF Wanted, Bit
        <5> QED
          BY <1>3, <1>4, <1>7, <2>1, <4>1, <5>1 DEF Sound, Located
      <4>3. CASE ~inGlobal[r]
        <5>1. InQ(r)' = InQ(r) + 1
          BY <1>1, <1>2, <1>3, <2>3, <3>1, <4>3, Pushed
        <5>2. ~Wanted(r) /\ Bit(Wanted(r)) = 0
          BY <1>3, <1>8, <2>3, <4>3 DEF Sound, Life, Wanted, Bit
        <5>3. InQ(r) + Held(r) + Nexts(r) + Carriers(r) = 0
          BY <1>3, <5>2 DEF Sound, Located
        <5>4. InQ(r)' + Held(r)' + Nexts(r)' + Carriers(r)' = 1
          BY <1>4, <1>7, <2>1, <5>1, <5>3
        <5> QED
          BY <4>1, <5>4 DEF Located
      <4> QED
        BY <4>2, <4>3
    <3> QED
      BY <3>2, <3>3, <3>4 DEF Sound
  <2> QED
    BY <2>2, <2>3
<1> QED
  BY <1>4, <1>9, <1>10, <1>11, <1>12 DEF IInv

LEMMA RetireStep ==
    ASSUME IInv, NEW t \in Threads, Retire(t)
    PROVE  IInv'
<1> DEFINE a == Head(todo[t])
           s == a.s
           u == Calls("unref", s)
<1>1. /\ todo[t] # <<>> /\ a.op = "retire" /\ alive' = alive \ {s}
      /\ Returns(t, IF s \in alive THEN <<u>> ELSE <<>>)
      /\ UNCHANGED <<created, ref, freed, inited, queues, working, waiting, feeding, sent, failed>>
  BY DEF Retire, Doing
<1>2. a \in Op /\ s \in Services /\ todo \in [Threads -> Seq(Op)]
  BY <1>1, CallType
<1>3. TypeOK /\ OpsOK /\ Nested /\ \A r \in Services : Sound(r)
  BY DEF IInv
<1>4. /\ ServedInited' /\ WorkersOK' /\ Quiet' /\ Nested'
      /\ \A r \in Services : /\ Servers(r)' = Servers(r) /\ Held(r)' = Held(r)
                             /\ Nexts(r)' = Nexts(r) /\ InQ(r)' = InQ(r)
  BY <1>1, <1>3, WorkersStay, QueueStays DEF Nested, queues
<1>5. u \in Op /\ u.op = "unref" /\ u.s = s
  BY <1>2, Called DEF Ops
<1>6. \A r : /\ Weighs(a, r, Carries) = 0 /\ Weighs(a, r, Owes) = 0 /\ Weighs(a, r, {"delete"}) = 0
             /\ Weighs(u, r, Carries) = 0 /\ Weighs(u, r, Owes) = Bit(s = r)
             /\ Weighs(u, r, {"delete"}) = 0
  BY <1>1, <1>5 DEF Weighs, Carries, Owes, Bit
<1>7. \A r \in Services : Bit(s = r) \in {0, 1}
  BY DEF Bit
<1> HIDE DEF a, s, u
<1>8. \A r \in Services : /\ todo' \in [Threads -> Seq(Op)]
                          /\ Carriers(r)' = Carriers(r) /\ Deleters(r)' = Deleters(r)
                          /\ Owers(r)' = Owers(r) + Bit(s = r /\ s \in alive)
  <2>1. CASE s \in alive
    <3>1. Returns(t, <<u>>)
      BY <1>1, <2>1
    <3>2. \A r \in Services : /\ todo' \in [Threads -> Seq(Op)]
                              /\ Carriers(r)' = Carriers(r) - 0 + 0
                              /\ Owers(r)' = Owers(r) - 0 + Bit(s = r)
                              /\ Deleters(r)' = Deleters(r) - 0 + 0
      BY <1>1, <1>3, <1>5, <1>6, <3>1, ReturnsOne DEF a
    <3> QED
      BY <1>3, <1>7, <2>1, <3>2, NumbersType DEF Bit
  <2>2. CASE s \notin alive
    <3>1. Returns(t, <<>>)
      BY <1>1, <2>2
    <3>2. \A r \in Services : /\ todo' \in [Threads -> Seq(Op)]
                              /\ Carriers(r)' = Carriers(r) - 0
                              /\ Owers(r)' = Owers(r) - 0
                              /\ Deleters(r)' = Deleters(r) - 0
      BY <1>1, <1>3, <1>6, <3>1, ReturnsNone DEF a
    <3> QED
      BY <1>3, <2>2, <3>2, NumbersType DEF Bit
  <2> QED
    BY <2>1, <2>2
<1>9. TypeOK'
  BY <1>1, <1>2, <1>3, <1>8 DEF TypeOK, queues, working, waiting, feeding
<1>10. OpsOK'
  <2>1. /\ (IF s \in alive THEN <<u>> ELSE <<>>) \in Seq(Op)
        /\ Fine(IF s \in alive THEN <<u>> ELSE <<>>, Raw', freed')
    BY <1>5, FineOne, FineNone
  <2>2. Head(todo[t]).s \notin alive' /\ alive' \subseteq alive /\ freed \subseteq freed'
    BY <1>1 DEF a, s
  <2> QED
    BY <1>1, <1>2, <1>3, <2>1, <2>2, ReturnsFine
<1>11. ASSUME NEW r \in Services PROVE Sound(r)'
  <2>1. Owers(r) \in Nat /\ Servers(r) \in Nat /\ ref[r] \in Int
    BY <1>3, NumbersType
  <2>2. CASE r # s \/ s \notin alive
    <3>1. (r \in alive' <=> r \in alive) /\ Bit(s = r /\ s \in alive) = 0
      BY <1>1, <2>2 DEF Bit
    <3>2. Owers(r)' = Owers(r)
      BY <1>8, <2>1, <3>1
    <3> QED
      BY <1>1, <1>3, <1>4, <1>8, <3>1, <3>2, Untouched DEF queues
  <2>3. CASE r = s /\ s \in alive
    <3>1. r \notin alive' /\ r \in alive /\ Bit(s = r /\ s \in alive) = 1
      BY <1>1, <2>3 DEF Bit
    <3>2. Owers(r)' = Owers(r) + 1
      BY <1>8, <3>1
    <3>3. Counted(r)'
      BY <1>1, <1>3, <1>4, <2>1, <3>1, <3>2 DEF Sound, Counted, Bit
    <3>4. Located(r)' /\ Launched(r)' /\ Life(r)' /\ Dying(r)'
      BY <1>1, <1>3, <1>4, <1>8, <3>1 DEF Sound, Located, Wanted, Launched, Life, Dying, queues
    <3> QED
      BY <3>3, <3>4 DEF Sound
  <2> QED
    BY <2>2, <2>3
<1> QED
  BY <1>3, <1>4, <1>9, <1>10, <1>11 DEF IInv

LEMMA InitSendsStep ==
    ASSUME IInv, NEW t \in Threads, InitSends(t)
    PROVE  IInv'
<1> DEFINE s == Head(todo[t]).s
           m == [from |-> s, id |-> sent']
           b == Sends(s, m)
<1>1. /\ todo[t] # <<>> /\ sent < MaxMessages /\ sent' = sent + 1
      /\ todo' = [todo EXCEPT ![t] = <<b>> \o @]
      /\ UNCHANGED <<contexts, queues, working, waiting, feeding, failed>>
  BY DEF InitSends, Doing
<1>2. s \in Services /\ todo \in [Threads -> Seq(Op)] /\ todo[t] \in Seq(Op)
  BY <1>1, CallType
<1>3. TypeOK /\ OpsOK /\ \A r \in Services : Sound(r)
  BY DEF IInv
<1>4. sent' \in 0..MaxMessages
  BY <1>1, <1>3, BoundsAssumption DEF TypeOK
<1>5. m \in Message
  BY <1>2, <1>4 DEF Message
<1> HIDE DEF s, m
<1> QED
  BY <1>1, <1>2, <1>3, <1>4, <1>5, SendBegins DEF contexts

LEMMA InitEndsStep ==
    ASSUME IInv, NEW t \in Threads, NEW ok \in BOOLEAN, InitEnds(t, ok)
    PROVE  IInv'
<1> DEFINE a == Head(todo[t])
           s == a.s
           c == Calls("settle", s)
           u == Calls("unref", s)
           e == Calls("retire", s)
           g == Calls("giveup", s)
           ops == IF ok THEN <<c>> ELSE <<u, e, g>>
<1>1. /\ todo[t] # <<>> /\ a.op = "init" /\ Returns(t, ops)
      /\ UNCHANGED <<contexts, queues, working, waiting, feeding, sent, failed>>
  BY DEF InitEnds, Doing
<1>2. a \in Op /\ s \in Services /\ todo \in [Threads -> Seq(Op)]
  BY <1>1, CallType
<1>3. TypeOK /\ OpsOK /\ Nested /\ \A r \in Services : Sound(r)
  BY DEF IInv
<1>4. /\ c \in Op /\ c.op = "settle" /\ c.s = s /\ u \in Op /\ u.op = "unref" /\ u.s = s
      /\ e \in Op /\ e.op = "retire" /\ e.s = s /\ g \in Op /\ g.op = "giveup" /\ g.s = s
  BY <1>2, Called DEF Ops
<1> HIDE DEF a, s, c, u, e, g
<1>5. \A r \in Services : /\ Weighs(a, r, Carries) = Bit(s = r) /\ Weighs(a, r, Owes) = Bit(s = r)
                          /\ Weighs(a, r, {"delete"}) = 0
  BY <1>1 DEF Weighs, Carries, Owes, Bit, s
<1>6. /\ ops \in Seq(Op) /\ Fine(ops, Raw', freed')
      /\ \A r \in Services : /\ Many(ops, Of(r, Carries)) = Bit(s = r)
                             /\ Many(ops, Of(r, Owes)) = Bit(s = r)
                             /\ Many(ops, Of(r, {"delete"})) = 0
  <2>1. CASE ok
    <3>1. ops \in Seq(Op) /\ Fine(ops, Raw', freed') /\ ops = <<c>>
      BY <1>4, <2>1, FineOne
    <3>2. \A r, K : Many(<<c>>, Of(r, K)) = Weighs(c, r, K)
      BY <1>4, ManyOf
    <3>3. \A r : /\ Weighs(c, r, Carries) = Bit(s = r) /\ Weighs(c, r, Owes) = Bit(s = r)
                 /\ Weighs(c, r, {"delete"}) = 0
      BY <1>4 DEF Weighs, Carries, Owes, Bit
    <3> QED
      BY <3>1, <3>2, <3>3
  <2>2. CASE ~ok
    <3>1. ops = <<u, e, g>>
      BY <2>2
    <3>2. <<u, e, g>> \in Seq(Op)
      BY <1>4
    <3>3. Fine(<<u, e, g>>, Raw', freed')
      BY <1>4 DEF Fine
    <3>4. ASSUME NEW r, NEW K
          PROVE  Many(<<u, e, g>>, Of(r, K)) = Weighs(u, r, K) + Weighs(e, r, K) + Weighs(g, r, K)
      BY <1>4, ManyOfThree
    <3>5. \A r : /\ Weighs(u, r, Carries) = 0 /\ Weighs(u, r, Owes) = Bit(s = r)
                 /\ Weighs(u, r, {"delete"}) = 0
                 /\ Weighs(e, r, Carries) = 0 /\ Weighs(e, r, Owes) = 0
                 /\ Weighs(e, r, {"delete"}) = 0
                 /\ Weighs(g, r, Carries) = Bit(s = r) /\ Weighs(g, r, Owes) = 0
                 /\ Weighs(g, r, {"delete"}) = 0
      BY <1>4 DEF Weighs, Carries, Owes, Bit
    <3>6. \A r : Bit(s = r) \in {0, 1}
      BY DEF Bit
    <3> HIDE DEF ops
    <3>7. ASSUME NEW r \in Services
          PROVE  /\ Many(ops, Of(r, Carries)) = Bit(s = r)
                 /\ Many(ops, Of(r, Owes)) = Bit(s = r)
                 /\ Many(ops, Of(r, {"delete"})) = 0
      <4>1. Many(ops, Of(r, Carries)) = 0 + 0 + Bit(s = r)
        BY <3>1, <3>4, <3>5
      <4>2. Many(ops, Of(r, Owes)) = Bit(s = r) + 0 + 0
        BY <3>1, <3>4, <3>5
      <4>3. Many(ops, Of(r, {"delete"})) = 0 + 0 + 0
        BY <3>1, <3>4, <3>5
      <4> QED
        BY <3>6, <4>1, <4>2, <4>3
    <3> QED
      BY <3>1, <3>2, <3>3, <3>7
  <2> QED
    BY <2>1, <2>2
<1> HIDE DEF ops
<1>7. ASSUME NEW r \in Services
      PROVE  /\ todo' \in [Threads -> Seq(Op)] /\ Carriers(r)' = Carriers(r)
             /\ Owers(r)' = Owers(r) /\ Deleters(r)' = Deleters(r)
  <2>1. /\ todo' \in [Threads -> Seq(Op)]
        /\ Carriers(r)' = Carriers(r) - Weighs(a, r, Carries) + Many(ops, Of(r, Carries))
        /\ Owers(r)' = Owers(r) - Weighs(a, r, Owes) + Many(ops, Of(r, Owes))
        /\ Deleters(r)' = Deleters(r) - Weighs(a, r, {"delete"}) + Many(ops, Of(r, {"delete"}))
    BY <1>1, <1>3, <1>6, Returned DEF a
  <2>2. Carriers(r) \in Nat /\ Owers(r) \in Nat /\ Deleters(r) \in Nat
    BY <1>3, NumbersType
  <2>3. Bit(s = r) \in {0, 1}
    BY DEF Bit
  <2> QED
    BY <1>5, <1>6, <2>1, <2>2, <2>3
<1>8. OpsOK'
  <2>1. /\ alive' \subseteq alive /\ freed \subseteq freed' /\ UNCHANGED inited
        /\ Head(todo[t]).op # "retire"
    BY <1>1 DEF a, contexts
  <2> QED
    BY <1>1, <1>2, <1>3, <1>6, <2>1, ReturnsFine
<1>9. sent' \in 0..MaxMessages /\ todo' \in [Threads -> Seq(Op)]
  BY <1>1, <1>2, <1>3, <1>7 DEF TypeOK
<1> QED
  BY <1>1, <1>7, <1>8, <1>9, CountsStay

LEMMA SettleStep ==
    ASSUME IInv, NEW t \in Threads, Settle(t)
    PROVE  IInv'
<1> DEFINE a == Head(todo[t])
           s == a.s
           d == Calls("delete", s)
           b == Calls("publish", s)
           l == Calls("launch", s)
<1>1. /\ todo[t] # <<>> /\ a.op = "settle"
      /\ ref' = [ref EXCEPT ![s] = @ - 1]
      /\ Returns(t, IF ref[s] = 1 THEN <<d, b>> ELSE <<l>>)
      /\ UNCHANGED <<created, alive, freed, inited, queues, working, waiting, feeding, sent, failed>>
  BY DEF Settle, Doing
<1>2. /\ a \in Op /\ s \in Services /\ todo \in [Threads -> Seq(Op)] /\ Owers(s) >= 1
      /\ Carriers(s) >= 1
  BY <1>1, CallType DEF Owes, Carries
<1>3. TypeOK /\ OpsOK /\ Nested /\ \A r \in Services : Sound(r)
  BY DEF IInv
<1>4. /\ ServedInited' /\ WorkersOK' /\ Quiet' /\ Nested'
      /\ \A r \in Services : /\ Servers(r)' = Servers(r) /\ Held(r)' = Held(r)
                             /\ Nexts(r)' = Nexts(r) /\ InQ(r)' = InQ(r)
  BY <1>1, <1>3, WorkersStay, QueueStays DEF Nested, queues
<1>5. /\ d \in Op /\ d.op = "delete" /\ d.s = s /\ b \in Op /\ b.op = "publish" /\ b.s = s
      /\ l \in Op /\ l.op = "launch" /\ l.s = s
  BY <1>2, Called DEF Ops
<1>6. \A r : /\ Weighs(a, r, Carries) = Bit(s = r) /\ Weighs(a, r, Owes) = Bit(s = r)
             /\ Weighs(a, r, {"delete"}) = 0
             /\ Weighs(d, r, Carries) = 0 /\ Weighs(d, r, Owes) = 0
             /\ Weighs(d, r, {"delete"}) = Bit(s = r)
  BY <1>1, <1>5 DEF Weighs, Carries, Owes, Bit
<1>7. \A r : /\ Weighs(b, r, Carries) = Bit(s = r) /\ Weighs(b, r, Owes) = 0
             /\ Weighs(b, r, {"delete"}) = 0
             /\ Weighs(l, r, Carries) = Bit(s = r) /\ Weighs(l, r, Owes) = 0
             /\ Weighs(l, r, {"delete"}) = 0
  BY <1>5 DEF Weighs, Carries, Owes, Bit
<1>8. \A r \in Services : Bit(s = r) \in {0, 1}
  BY DEF Bit
(* When it gives up the last reference, nobody can find the context.       *)
<1>9. /\ ref[s] \in Int /\ ref[s] >= 1 /\ s \in created /\ s \notin freed /\ Deleters(s) = 0
      /\ ref[s] = 1 => s \notin alive
  <2>1. /\ ref[s] \in Int /\ Servers(s) \in Nat /\ Owers(s) \in Nat
        /\ ref[s] = Bit(s \in alive) + Servers(s) + Owers(s)
    BY <1>2, <1>3, NumbersType DEF Sound, Counted
  <2>2. ref[s] >= 1 /\ (ref[s] = 1 => s \notin alive)
    BY <1>2, <2>1 DEF Bit
  <2> QED
    BY <1>2, <1>3, <2>1, <2>2 DEF Sound, Life, Dying, Bit
<1> HIDE DEF a, s, d, b, l
<1>10. \A r \in Services : /\ todo' \in [Threads -> Seq(Op)]
                           /\ Carriers(r)' = Carriers(r)
                           /\ Owers(r)' = Owers(r) - Bit(s = r)
                           /\ Deleters(r)' = Deleters(r) + Bit(s = r /\ ref[s] = 1)
  <2>1. CASE ref[s] = 1
    <3>1. Returns(t, <<d, b>>)
      BY <1>1, <2>1
    <3>2. \A r \in Services : /\ todo' \in [Threads -> Seq(Op)]
                              /\ Carriers(r)' = Carriers(r) - Bit(s = r) + (0 + Bit(s = r))
                              /\ Owers(r)' = Owers(r) - Bit(s = r) + (0 + 0)
                              /\ Deleters(r)' = Deleters(r) - 0 + (Bit(s = r) + 0)
      BY <1>1, <1>3, <1>5, <1>6, <1>7, <3>1, ReturnsTwo DEF a
    <3> QED
      BY <1>3, <1>8, <2>1, <3>2, NumbersType DEF Bit
  <2>2. CASE ref[s] # 1
    <3>1. Returns(t, <<l>>)
      BY <1>1, <2>2
    <3>2. \A r \in Services : /\ todo' \in [Threads -> Seq(Op)]
                              /\ Carriers(r)' = Carriers(r) - Bit(s = r) + Bit(s = r)
                              /\ Owers(r)' = Owers(r) - Bit(s = r) + 0
                              /\ Deleters(r)' = Deleters(r) - 0 + 0
      BY <1>1, <1>3, <1>5, <1>6, <1>7, <3>1, ReturnsOne DEF a
    <3> QED
      BY <1>3, <1>8, <2>2, <3>2, NumbersType DEF Bit
  <2> QED
    BY <2>1, <2>2
<1>11. TypeOK'
  BY <1>1, <1>2, <1>3, <1>10 DEF TypeOK, queues, working, waiting, feeding
<1>12. OpsOK'
  <2>1. /\ alive' \subseteq alive /\ freed \subseteq freed' /\ UNCHANGED inited
        /\ Head(todo[t]).op # "retire"
    BY <1>1 DEF a
  <2>2. CASE ref[s] = 1
    <3>1. <<d, b>> \in Seq(Op) /\ Returns(t, <<d, b>>)
      BY <1>1, <1>5, <2>2
    <3>2. Fine(<<d, b>>, Raw', freed')
      BY <1>5, <1>9, <2>1, <2>2 DEF Fine, Raw
    <3> QED
      BY <1>1, <1>2, <1>3, <2>1, <3>1, <3>2, ReturnsFine
  <2>3. CASE ref[s] # 1
    <3>1. <<l>> \in Seq(Op) /\ Returns(t, <<l>>)
      BY <1>1, <1>5, <2>3
    <3>2. Fine(<<l>>, Raw', freed')
      BY <1>5, FineOne
    <3> QED
      BY <1>1, <1>2, <1>3, <2>1, <3>1, <3>2, ReturnsFine
  <2> QED
    BY <2>2, <2>3
<1>13. ASSUME NEW r \in Services PROVE Sound(r)'
  <2>1. /\ Carriers(r) \in Nat /\ Owers(r) \in Nat /\ Deleters(r) \in Nat /\ Servers(r) \in Nat
        /\ ref[r] \in Int
    BY <1>3, NumbersType
  <2>2. CASE r # s
    <3>1. ref'[r] = ref[r] /\ Bit(s = r) = 0 /\ Bit(s = r /\ ref[s] = 1) = 0
      BY <1>1, <1>3, <2>2 DEF TypeOK, Bit
    <3>2. Owers(r)' = Owers(r) /\ Deleters(r)' = Deleters(r)
      BY <1>10, <2>1, <3>1
    <3> QED
      BY <1>1, <1>3, <1>4, <1>10, <3>1, <3>2, Untouched DEF queues
  <2>3. CASE r = s
    <3>1. ref'[r] = ref[r] - 1 /\ Bit(s = r) = 1 /\ ref[r] >= 1 /\ r \in created /\ r \notin freed
      BY <1>1, <1>3, <1>9, <2>3 DEF TypeOK, Bit
    <3>2. Owers(r)' = Owers(r) - 1
      BY <1>10, <3>1
    <3>3. Counted(r)'
      BY <1>1, <1>3, <1>4, <2>1, <3>1, <3>2, SMTT(40) DEF Sound, Counted, Bit
    <3>4. Located(r)' /\ Launched(r)' /\ Life(r)'
      BY <1>1, <1>3, <1>4, <1>10, <3>1 DEF Sound, Located, Wanted, Launched, Life, queues
    <3>5. Dying(r)'
      BY <1>1, <1>9, <1>10, <2>1, <2>3, <3>1 DEF Dying, Bit
    <3> QED
      BY <3>3, <3>4, <3>5 DEF Sound
  <2> QED
    BY <2>2, <2>3
<1> QED
  BY <1>3, <1>4, <1>11, <1>12, <1>13 DEF IInv

LEMMA LaunchStep ==
    ASSUME IInv, NEW t \in Threads, Launch(t)
    PROVE  IInv'
<1> DEFINE a == Head(todo[t])
           s == a.s
           b == Calls("publish", s)
           c == Calls("report", s)
<1>1. /\ todo[t] # <<>> /\ a.op = "launch" /\ Returns(t, <<b, c>>)
      /\ inited' = [inited EXCEPT ![s] = TRUE]
      /\ UNCHANGED <<created, alive, ref, freed, queues, working, waiting, feeding, sent, failed>>
  BY DEF Launch, Doing
<1>2. /\ a \in Op /\ s \in Services /\ todo \in [Threads -> Seq(Op)] /\ todo[t] \in Seq(Op)
  BY <1>1, CallType
<1>3. TypeOK /\ OpsOK /\ Nested /\ ServedInited /\ WorkersOK /\ Quiet /\ \A r \in Services : Sound(r)
  BY DEF IInv
<1>4. \A r : /\ Weighs(a, r, Carries) = Bit(s = r) /\ Weighs(a, r, Owes) = 0
             /\ Weighs(a, r, {"delete"}) = 0
  BY <1>1 DEF Weighs, Carries, Owes, Bit
<1>5. /\ b \in Op /\ b.op = "publish" /\ b.s = s /\ c \in Op /\ c.op = "report" /\ c.s = s
  BY <1>2, Called DEF Ops
<1>6. \A r : /\ Weighs(b, r, Carries) = Bit(s = r) /\ Weighs(b, r, Owes) = 0
             /\ Weighs(b, r, {"delete"}) = 0
             /\ Weighs(c, r, Carries) = 0 /\ Weighs(c, r, Owes) = 0
             /\ Weighs(c, r, {"delete"}) = 0
  BY <1>5 DEF Weighs, Carries, Owes, Bit
<1> HIDE DEF a, s, b, c
<1>7. \A r \in Services : /\ todo' \in [Threads -> Seq(Op)]
                          /\ Carriers(r)' = Carriers(r) - Bit(s = r) + (Bit(s = r) + 0)
                          /\ Owers(r)' = Owers(r) - 0 + (0 + 0)
                          /\ Deleters(r)' = Deleters(r) - 0 + (0 + 0)
  BY <1>1, <1>3, <1>4, <1>5, <1>6, ReturnsTwo DEF a
<1>8. \A r \in Services : /\ Carriers(r)' = Carriers(r) /\ Owers(r)' = Owers(r)
                          /\ Deleters(r)' = Deleters(r)
  BY <1>3, <1>7, NumbersType DEF Bit
<1>9. ServedInited' /\ WorkersOK' /\ Quiet' /\ Nested'
  <2>1. \A r \in Services : inited[r] => inited'[r]
    BY <1>1, <1>2, <1>3 DEF TypeOK
  <2>2. \A w \in Workers : hold[w] # None => hold[w] \in Services
    BY <1>3 DEF TypeOK
  <2>3. ServedInited'
    BY <1>1, <1>3, <2>1, <2>2 DEF ServedInited, working
  <2>4. WorkersOK' /\ Quiet' /\ Nested'
    BY <1>1, <1>3 DEF WorkersOK, Quiet, Nested, queues, working, waiting, feeding
  <2> QED
    BY <2>3, <2>4
<1>10. TypeOK'
  <2>1. inited' \in [Services -> BOOLEAN] /\ todo' \in [Threads -> Seq(Op)]
    BY <1>1, <1>2, <1>3, <1>7 DEF TypeOK
  <2> QED
    BY <1>1, <1>2, <1>3, <2>1 DEF TypeOK, queues, working, waiting, feeding
<1>11. OpsOK'
  <2>1. Raw' \subseteq Raw /\ s \notin Raw' /\ freed \subseteq freed'
    BY <1>1, <1>2, <1>3 DEF TypeOK, Raw
  <2>2. ASSUME NEW u \in Threads PROVE todo[u] \in Seq(Op) /\ Fine(todo[u], Raw', freed')
    <3>1. todo[u] \in Seq(Op) /\ Fine(todo[u], Raw, freed)
      BY <1>2, <1>3 DEF OpsOK
    <3> QED
      BY <2>1, <3>1, FineLater
  <2>3. <<b, c>> \in Seq(Op) /\ Fine(<<b, c>>, Raw', freed')
    BY <1>5, <2>1 DEF Fine
  <2>4. Tail(todo[t]) \in Seq(Op) /\ Fine(Tail(todo[t]), Raw', freed')
    BY <1>1, <1>2, <2>2, FineTail DEF a
  <2>5. Fine(<<b, c>> \o Tail(todo[t]), Raw', freed')
    BY <2>3, <2>4, FineConcat
  <2> SUFFICES ASSUME NEW u \in Threads PROVE Fine(todo'[u], Raw', freed')
    BY DEF OpsOK
  <2>6. CASE u = t
    BY <1>1, <1>2, <2>5, <2>6 DEF Returns
  <2>7. CASE u # t
    BY <1>1, <1>2, <2>2, <2>7 DEF Returns
  <2> QED
    BY <2>6, <2>7
<1>12. ASSUME NEW r \in Services PROVE Sound(r)'
  <2>1. /\ Servers(r)' = Servers(r) /\ Held(r)' = Held(r) /\ Nexts(r)' = Nexts(r)
        /\ InQ(r)' = InQ(r)
    BY <1>1 DEF Servers, Held, Nexts, InQ, working, queues
  <2>2. Counted(r)' /\ Dying(r)' /\ Life(r)'
    BY <1>1, <1>3, <1>8, <2>1 DEF Sound, Counted, Dying, Life, queues
  <2>3. Located(r)'
    BY <1>1, <1>3, <1>8, <2>1 DEF Sound, Located, Wanted, queues
  <2>4. Launched(r)'
    <3>1. inited[r] => inited'[r]
      BY <1>1, <1>2, <1>3 DEF TypeOK
    <3> QED
      BY <1>1, <1>3, <1>8, <3>1 DEF Sound, Launched
  <2> QED
    BY <2>2, <2>3, <2>4 DEF Sound
<1> QED
  BY <1>9, <1>10, <1>11, <1>12 DEF IInv

LEMMA PublishStep ==
    ASSUME IInv, NEW t \in Threads, Publish(t)
    PROVE  IInv'
<1> DEFINE a == Head(todo[t])
           s == a.s
<1>1. /\ todo[t] # <<>> /\ a.op = "publish" /\ Returns(t, <<>>) /\ GlobalPush(s)
      /\ UNCHANGED <<created, alive, ref, freed, inited, queue, inGlobal, release, gone, working, waiting,
                     feeding, sent, failed>>
  BY DEF Publish, Doing, contexts
<1>2. /\ a \in Op /\ s \in Services /\ todo \in [Threads -> Seq(Op)] /\ Carriers(s) >= 1
      /\ todo[t][1] = a /\ 1 \in DOMAIN todo[t]
  BY <1>1, CallType DEF Carries
<1>3. TypeOK /\ OpsOK /\ Nested /\ ServedInited /\ WorkersOK /\ Quiet /\ \A r \in Services : Sound(r)
  BY DEF IInv
<1>4. \A r : /\ Weighs(a, r, Carries) = Bit(s = r) /\ Weighs(a, r, Owes) = 0
             /\ Weighs(a, r, {"delete"}) = 0
  BY <1>1 DEF Weighs, Carries, Owes, Bit
<1>5. \A r \in Services : /\ todo' \in [Threads -> Seq(Op)]
                          /\ Carriers(r)' = Carriers(r) - Bit(s = r)
                          /\ Owers(r)' = Owers(r) - 0
                          /\ Deleters(r)' = Deleters(r) - 0
  BY <1>1, <1>3, <1>4, ReturnsNone
<1>6. ASSUME NEW r \in Services
      PROVE  /\ Owers(r)' = Owers(r) /\ Deleters(r)' = Deleters(r) /\ Servers(r)' = Servers(r)
             /\ Held(r)' = Held(r) /\ Nexts(r)' = Nexts(r)
  <2>1. Owers(r)' = Owers(r) /\ Deleters(r)' = Deleters(r)
    BY <1>3, <1>5, NumbersType
  <2> QED
    BY <1>1, <2>1 DEF Servers, Held, Nexts, working
<1>8. s \in alive => inited[s]
  <2>1. Fine(todo[t], Raw, freed)
    BY <1>3 DEF OpsOK
  <2> QED
    BY <1>1, <1>2, <2>1 DEF Fine, Raw
<1> HIDE DEF a, s
<1>9. ServedInited' /\ WorkersOK' /\ Quiet' /\ Nested'
  <2>1. ServedInited'
    BY <1>1, <1>3 DEF ServedInited, working
  <2>2. WorkersOK' /\ Quiet' /\ Nested'
    BY <1>1, <1>3 DEF WorkersOK, Quiet, Nested, working, waiting, feeding
  <2> QED
    BY <2>1, <2>2
<1>10. TypeOK'
  <2>1. inited' \in [Services -> BOOLEAN] /\ global' \in Seq(Services)
    BY <1>1, <1>2, <1>3, Pushed DEF TypeOK
  <2> QED
    BY <1>1, <1>2, <1>3, <1>5, <2>1 DEF TypeOK, working, waiting, feeding
<1>11. OpsOK'
  <2>1. Fine(<<>>, Raw', freed') /\ <<>> \in Seq(Op)
    BY FineNone
  <2> QED
    BY <1>1, <1>2, <1>3, <2>1, ReturnsFine DEF a
<1>12. ASSUME NEW r \in Services PROVE Sound(r)'
  <2>1. Carriers(r) \in Nat /\ InQ(r) \in Nat /\ Held(r) \in Nat /\ Nexts(r) \in Nat
    BY <1>3, NumbersType
  <2>2. InQ(r)' = InQ(r) + Bit(s = r) /\ Carriers(r)' = Carriers(r) - Bit(s = r)
    BY <1>1, <1>2, <1>3, <1>5, Pushed
  <2>3. CASE r # s
    <3>1. inited'[r] = inited[r] /\ Bit(s = r) = 0
      BY <1>1, <1>3, <2>3 DEF TypeOK, Bit
    <3>2. InQ(r)' = InQ(r) /\ Carriers(r)' = Carriers(r)
      BY <2>1, <2>2, <3>1
    <3> QED
      BY <1>1, <1>3, <1>6, <3>1, <3>2, Untouched
  <2>4. CASE r = s
    <3>1. Counted(r)' /\ Dying(r)' /\ Life(r)'
      BY <1>1, <1>3, <1>6 DEF Sound, Counted, Dying, Life
    <3>2. Located(r)'
      <4>1. InQ(r)' + Held(r)' + Nexts(r)' + Carriers(r)' = InQ(r) + Held(r) + Nexts(r) + Carriers(r)
        BY <1>6, <2>1, <2>2, <2>4 DEF Bit
      <4> QED
        BY <1>1, <1>3, <4>1 DEF Sound, Located, Wanted
    <3>3. Launched(r)'
      BY <1>1, <1>8, <2>4 DEF Launched
    <3> QED
      BY <3>1, <3>2, <3>3 DEF Sound
  <2> QED
    BY <2>3, <2>4
<1> QED
  BY <1>9, <1>10, <1>11, <1>12 DEF IInv

(* The launch that logs and returns its handle, and the visit of a slot,   *)
(* only look at the context.                                               *)
LEMMA ReportStep ==
    ASSUME IInv, NEW t \in Threads, Report(t)
    PROVE  IInv'
<1> DEFINE a == Head(todo[t])
<1>1. /\ todo[t] # <<>> /\ a.op = "report" /\ Returns(t, <<>>)
      /\ UNCHANGED <<contexts, queues, working, waiting, feeding, sent, failed>>
  BY DEF Report, Doing
<1>2. a \in Op /\ a.s \in Services /\ todo \in [Threads -> Seq(Op)]
  BY <1>1, CallType
<1>3. TypeOK /\ OpsOK
  BY DEF IInv
<1>4. \A r : /\ Weighs(a, r, Carries) = 0 /\ Weighs(a, r, Owes) = 0
             /\ Weighs(a, r, {"delete"}) = 0
  BY <1>1 DEF Weighs, Carries, Owes, Bit
<1> HIDE DEF a
<1>5. \A r \in Services : /\ todo' \in [Threads -> Seq(Op)]
                          /\ Carriers(r)' = Carriers(r) - 0
                          /\ Owers(r)' = Owers(r) - 0
                          /\ Deleters(r)' = Deleters(r) - 0
  BY <1>1, <1>3, <1>4, ReturnsNone DEF a
<1>6. \A r \in Services : /\ Carriers(r)' = Carriers(r) /\ Owers(r)' = Owers(r)
                          /\ Deleters(r)' = Deleters(r)
  BY <1>3, <1>5, NumbersType
<1>7. OpsOK'
  <2>1. /\ alive' \subseteq alive /\ freed \subseteq freed' /\ UNCHANGED inited
        /\ Head(todo[t]).op # "retire"
    BY <1>1 DEF a, contexts
  <2>2. Fine(<<>>, Raw', freed') /\ <<>> \in Seq(Op)
    BY FineNone
  <2> QED
    BY <1>1, <1>2, <1>3, <2>1, <2>2, ReturnsFine
<1>8. todo' \in [Threads -> Seq(Op)] /\ sent' \in 0..MaxMessages
  <2>1. todo' \in [Threads -> Seq(Op)]
    BY <1>1, <1>2, <1>3, <1>5
  <2> QED
    BY <1>1, <1>3, <2>1 DEF TypeOK
<1> QED
  BY <1>1, <1>6, <1>7, <1>8, CountsStay

LEMMA GiveUpStep ==
    ASSUME IInv, NEW t \in Threads, GiveUp(t)
    PROVE  IInv'
<1> DEFINE a == Head(todo[t])
           s == a.s
           d == Calls("drop", s)
<1>1. /\ todo[t] # <<>> /\ a.op = "giveup"
      /\ IF release[s] THEN Returns(t, <<d>>) /\ UNCHANGED global
         ELSE Returns(t, <<>>) /\ GlobalPush(s)
      /\ UNCHANGED <<contexts, queue, inGlobal, release, gone, working, waiting, feeding, sent,
                     failed>>
  BY DEF GiveUp, Doing
<1>2. /\ a \in Op /\ s \in Services /\ todo \in [Threads -> Seq(Op)] /\ Carriers(s) >= 1
      /\ todo[t][1] = a /\ 1 \in DOMAIN todo[t]
  BY <1>1, CallType DEF Carries
<1>3. TypeOK /\ OpsOK /\ Nested /\ \A r \in Services : Sound(r)
  BY DEF IInv
<1>4. d \in Op /\ d.op = "drop" /\ d.s = s
  BY <1>2, Called DEF Ops
<1>5. \A r : /\ Weighs(a, r, Carries) = Bit(s = r) /\ Weighs(a, r, Owes) = 0
             /\ Weighs(a, r, {"delete"}) = 0
             /\ Weighs(d, r, Carries) = Bit(s = r) /\ Weighs(d, r, Owes) = 0
             /\ Weighs(d, r, {"delete"}) = 0
  BY <1>1, <1>4 DEF Weighs, Carries, Owes, Bit
(* Nobody finds the context any more, or it is initialised.                *)
<1>6. s \notin Raw
  <2>1. Fine(todo[t], Raw, freed)
    BY <1>3 DEF OpsOK
  <2> QED
    BY <1>1, <1>2, <2>1 DEF Fine
<1>7. /\ ServedInited' /\ WorkersOK' /\ Quiet' /\ Nested'
      /\ \A r \in Services : /\ Servers(r)' = Servers(r) /\ Held(r)' = Held(r)
                             /\ Nexts(r)' = Nexts(r)
  BY <1>1, <1>3, WorkersStay DEF Nested, contexts
<1>8. /\ alive' \subseteq alive /\ freed \subseteq freed' /\ UNCHANGED inited
      /\ Head(todo[t]).op # "retire"
  BY <1>1 DEF contexts
<1> HIDE DEF a, s, d
<1>9. CASE release[s]
  <2>1. Returns(t, <<d>>) /\ UNCHANGED global
    BY <1>1, <1>9
  <2>2. \A r \in Services : /\ todo' \in [Threads -> Seq(Op)]
                            /\ Carriers(r)' = Carriers(r) - Bit(s = r) + Bit(s = r)
                            /\ Owers(r)' = Owers(r) - 0 + 0
                            /\ Deleters(r)' = Deleters(r) - 0 + 0
    BY <1>1, <1>3, <1>4, <1>5, <2>1, ReturnsOne DEF a
  <2>3. \A r \in Services : Bit(s = r) \in {0, 1}
    BY DEF Bit
  <2>4. \A r \in Services : /\ Carriers(r)' = Carriers(r) /\ Owers(r)' = Owers(r)
                            /\ Deleters(r)' = Deleters(r)
    BY <1>3, <2>2, <2>3, NumbersType
  <2>5. OpsOK'
    <3>1. s \in freed'
      BY <1>1, <1>2, <1>3, <1>9 DEF Sound, Life, contexts
    <3>2. <<d>> \in Seq(Op) /\ Fine(<<d>>, Raw', freed')
      BY <1>4, <3>1 DEF Fine
    <3> QED
      BY <1>1, <1>2, <1>3, <1>8, <2>1, <3>2, ReturnsFine
  <2>6. sent' \in 0..MaxMessages /\ todo' \in [Threads -> Seq(Op)]
    BY <1>1, <1>2, <1>3, <2>2 DEF TypeOK
  <2> QED
    BY <1>1, <2>1, <2>4, <2>5, <2>6, CountsStay DEF queues
<1>10. CASE ~release[s]
  <2>1. Returns(t, <<>>) /\ GlobalPush(s)
    BY <1>1, <1>10
  <2>2. \A r \in Services : /\ todo' \in [Threads -> Seq(Op)]
                            /\ Carriers(r)' = Carriers(r) - Bit(s = r)
                            /\ Owers(r)' = Owers(r) - 0
                            /\ Deleters(r)' = Deleters(r) - 0
    BY <1>1, <1>3, <1>5, <2>1, ReturnsNone DEF a
  <2>3. \A r \in Services : Owers(r)' = Owers(r) /\ Deleters(r)' = Deleters(r)
    BY <1>3, <2>2, NumbersType
  <2>4. OpsOK'
    <3>1. Fine(<<>>, Raw', freed') /\ <<>> \in Seq(Op)
      BY FineNone
    <3> QED
      BY <1>1, <1>2, <1>3, <1>8, <2>1, <3>1, ReturnsFine
  <2>5. TypeOK'
    <3>1. global' \in Seq(Services)
      BY <1>2, <1>3, <2>1, Pushed
    <3> QED
      BY <1>1, <1>2, <1>3, <2>2, <3>1 DEF TypeOK, contexts, working, waiting, feeding
  <2>6. ASSUME NEW r \in Services PROVE Sound(r)'
    <3>1. Carriers(r) \in Nat /\ InQ(r) \in Nat /\ Held(r) \in Nat /\ Nexts(r) \in Nat
      BY <1>3, NumbersType
    <3>2. InQ(r)' = InQ(r) + Bit(s = r) /\ Carriers(r)' = Carriers(r) - Bit(s = r)
      BY <1>2, <1>3, <2>1, <2>2, Pushed
    <3>3. Counted(r)' /\ Dying(r)' /\ Life(r)'
      BY <1>1, <1>3, <1>7, <2>3 DEF Sound, Counted, Dying, Life, contexts
    <3>4. Located(r)'
      <4>1. InQ(r)' + Held(r)' + Nexts(r)' + Carriers(r)' = InQ(r) + Held(r) + Nexts(r) + Carriers(r)
        BY <1>7, <3>1, <3>2 DEF Bit
      <4> QED
        BY <1>1, <1>3, <4>1 DEF Sound, Located, Wanted
    <3>5. Launched(r)'
      <4>1. CASE r = s
        BY <1>1, <1>6, <4>1 DEF Launched, Raw, contexts
      <4>2. CASE r # s
        <5>1. Carriers(r)' = Carriers(r)
          BY <3>1, <3>2, <4>2 DEF Bit
        <5> QED
          BY <1>1, <1>3, <5>1 DEF Sound, Launched, contexts
      <4> QED
        BY <4>1, <4>2
    <3> QED
      BY <3>3, <3>4, <3>5 DEF Sound
  <2> QED
    BY <1>7, <2>4, <2>5, <2>6 DEF IInv
<1> QED
  BY <1>9, <1>10

LEMMA DropStep ==
    ASSUME IInv, NEW t \in Threads, Drop(t)
    PROVE  IInv'
<1> DEFINE a == Head(todo[t])
           s == a.s
           m == Head(queue[s])
           n == [from |-> s, id |-> 0]
           b == Sends(m.from, n)
<1>1. /\ todo[t] # <<>> /\ a.op = "drop" /\ queue[s] # <<>>
      /\ queue' = [queue EXCEPT ![s] = Tail(@)]
      /\ todo' = [todo EXCEPT ![t] = (IF m.from = None THEN <<>> ELSE <<b>>) \o @]
      /\ UNCHANGED <<contexts, inGlobal, release, gone, global, working, waiting, feeding, sent,
                     failed>>
  BY DEF Drop, Doing
<1>2. /\ s \in Services /\ todo \in [Threads -> Seq(Op)] /\ todo[t] \in Seq(Op)
      /\ todo[t][1] = a /\ 1 \in DOMAIN todo[t]
  BY <1>1, CallType
<1>3. TypeOK /\ OpsOK /\ Nested /\ \A r \in Services : Sound(r)
  BY DEF IInv
<1>4. s \in freed /\ release[s]
  <2>1. Fine(todo[t], Raw, freed)
    BY <1>3 DEF OpsOK
  <2>2. s \in freed
    BY <1>1, <1>2, <2>1 DEF Fine
  <2> QED
    BY <1>2, <1>3, <2>2 DEF Sound, Life
<1>5. m \in Message /\ Tail(queue[s]) \in Seq(Message) /\ n \in Message
  <2>1. queue[s] \in Seq(Message)
    BY <1>2, <1>3 DEF TypeOK
  <2>2. n \in Message
    BY <1>2, BoundsAssumption DEF Message
  <2>3. \A q \in Seq(Message) : q # <<>> => Head(q) \in Message /\ Tail(q) \in Seq(Message)
    OBVIOUS
  <2> QED
    BY <1>1, <2>1, <2>2, <2>3
<1>6. /\ ServedInited' /\ WorkersOK' /\ Quiet' /\ Nested'
      /\ \A r \in Services : /\ Servers(r)' = Servers(r) /\ Held(r)' = Held(r)
                             /\ Nexts(r)' = Nexts(r) /\ InQ(r)' = InQ(r)
  BY <1>1, <1>3, WorkersStay, QueueStays DEF Nested, contexts
<1> HIDE DEF a, s, m, n
<1>7. /\ todo' \in [Threads -> Seq(Op)] /\ OpsOK'
      /\ \A r \in Services : /\ Carriers(r)' = Carriers(r) /\ Owers(r)' = Owers(r)
                             /\ Deleters(r)' = Deleters(r)
  <2>1. CASE m.from = None
    <3>1. <<>> \o todo[t] = todo[t]
      BY <1>2, ConcatEmptySeq
    <3>2. todo' = todo
      BY <1>1, <1>2, <2>1, <3>1
    <3> QED
      BY <1>1, <1>2, <1>3, <3>2 DEF OpsOK, Raw, Carriers, Owers, Deleters, contexts
  <2>2. CASE m.from # None
    <3>1. m.from \in Services
      BY <1>5, <2>2 DEF Message
    <3>2. b \in Op /\ b.op = "grab" /\ b.s = m.from
      BY <1>5, <3>1, Sent
    <3> HIDE DEF b
    <3>3. todo' = [todo EXCEPT ![t] = <<b>> \o @]
      BY <1>1, <2>2
    <3>4. \A r : Weighs(b, r, Carries) = 0 /\ Weighs(b, r, Owes) = 0 /\ Weighs(b, r, {"delete"}) = 0
      BY <3>2 DEF Weighs, Carries, Owes, Bit
    <3>5. \A r \in Services : /\ todo' \in [Threads -> Seq(Op)]
                              /\ Carriers(r)' = Carriers(r) + 0
                              /\ Owers(r)' = Owers(r) + 0
                              /\ Deleters(r)' = Deleters(r) + 0
      BY <1>3, <3>2, <3>3, <3>4, Begun, ZenonT(60)
    <3>6. OpsOK'
      <4>1. <<b>> \in Seq(Op) /\ Fine(<<b>>, Raw, freed)
        BY <3>2, FineOne
      <4>2. <<b>> \o todo[t] \in Seq(Op)
        BY <1>2, <4>1, ConcatProperties
      <4> QED
        BY <1>1, <1>2, <1>3, <3>3, <4>1, <4>2, BeginsFine DEF contexts
    <3> QED
      BY <1>2, <1>3, <3>5, <3>6, NumbersType, SMTT(40)
  <2> QED
    BY <2>1, <2>2
<1>8. TypeOK'
  <2>1. queue' \in [Services -> Seq(Message)]
    BY <1>1, <1>2, <1>3, <1>5 DEF TypeOK
  <2> QED
    BY <1>1, <1>3, <1>7, <2>1 DEF TypeOK, contexts, working, waiting, feeding
<1>9. ASSUME NEW r \in Services PROVE Sound(r)'
  <2>1. CASE r # s
    <3>1. queue'[r] = queue[r]
      BY <1>1, <1>3, <2>1 DEF TypeOK
    <3> QED
      BY <1>1, <1>3, <1>6, <1>7, <3>1, Untouched DEF contexts
  <2>2. CASE r = s
    <3>1. Counted(r)' /\ Dying(r)' /\ Launched(r)'
      BY <1>1, <1>3, <1>6, <1>7 DEF Sound, Counted, Dying, Launched, contexts
    <3>2. Life(r)'
      <4>1. r \in created
        BY <1>3, <1>4, <2>2 DEF TypeOK
      <4> QED
        BY <1>1, <1>3, <1>4, <2>2, <4>1 DEF Sound, Life, contexts
    <3>3. Located(r)'
      <4>1. Wanted(r)' = Wanted(r)
        BY <1>1, <1>4, <2>2 DEF Wanted
      <4> QED
        BY <1>3, <1>6, <1>7, <4>1 DEF Sound, Located
    <3> QED
      BY <3>1, <3>2, <3>3 DEF Sound
  <2> QED
    BY <2>1, <2>2
<1> QED
  BY <1>6, <1>7, <1>8, <1>9 DEF IInv

LEMMA DroppedStep ==
    ASSUME IInv, NEW t \in Threads, Dropped(t)
    PROVE  IInv'
<1> DEFINE a == Head(todo[t])
           s == a.s
<1>1. /\ todo[t] # <<>> /\ a.op = "drop" /\ queue[s] = <<>> /\ Returns(t, <<>>)
      /\ inGlobal' = [inGlobal EXCEPT ![s] = FALSE]
      /\ gone' = gone \cup {s}
      /\ UNCHANGED <<contexts, queue, release, global, working, waiting, feeding, sent, failed>>
  BY DEF Dropped, Doing
<1>2. /\ a \in Op /\ s \in Services /\ todo \in [Threads -> Seq(Op)] /\ Carriers(s) >= 1
      /\ todo[t][1] = a /\ 1 \in DOMAIN todo[t]
  BY <1>1, CallType DEF Carries
<1>3. TypeOK /\ OpsOK /\ Nested /\ \A r \in Services : Sound(r)
  BY DEF IInv
<1>4. s \in freed /\ s \in created /\ s \notin alive
  <2>1. Fine(todo[t], Raw, freed)
    BY <1>3 DEF OpsOK
  <2>2. s \in freed /\ s \in created
    BY <1>1, <1>2, <1>3, <2>1 DEF Fine, TypeOK
  <2>3. ref[s] = 0 /\ ref[s] = Bit(s \in alive) + Servers(s) + Owers(s)
    BY <1>2, <1>3, <2>2 DEF Sound, Life, Counted
  <2>4. Servers(s) \in Nat /\ Owers(s) \in Nat
    BY <1>2, <1>3, NumbersType
  <2> HIDE DEF a, s
  <2>5. s \notin alive
    BY <2>3, <2>4 DEF Bit
  <2> QED
    BY <2>2, <2>5
<1>5. \A r : /\ Weighs(a, r, Carries) = Bit(s = r) /\ Weighs(a, r, Owes) = 0
             /\ Weighs(a, r, {"delete"}) = 0
  BY <1>1 DEF Weighs, Carries, Owes, Bit
<1>6. \A r \in Services : /\ todo' \in [Threads -> Seq(Op)]
                          /\ Carriers(r)' = Carriers(r) - Bit(s = r)
                          /\ Owers(r)' = Owers(r) - 0
                          /\ Deleters(r)' = Deleters(r) - 0
  BY <1>1, <1>3, <1>5, ReturnsNone
<1>7. \A r \in Services : Owers(r)' = Owers(r) /\ Deleters(r)' = Deleters(r)
  BY <1>3, <1>6, NumbersType
<1>8. /\ ServedInited' /\ WorkersOK' /\ Quiet' /\ Nested'
      /\ \A r \in Services : /\ Servers(r)' = Servers(r) /\ Held(r)' = Held(r)
                             /\ Nexts(r)' = Nexts(r) /\ InQ(r)' = InQ(r)
  BY <1>1, <1>3, <1>4, WorkersStay, QueueStays DEF Nested, contexts
<1> HIDE DEF a, s
<1>9. TypeOK'
  BY <1>1, <1>2, <1>3, <1>4, <1>6 DEF TypeOK, contexts, working, waiting, feeding
<1>10. OpsOK'
  <2>1. Fine(<<>>, Raw', freed') /\ <<>> \in Seq(Op)
    BY FineNone
  <2>2. /\ alive' \subseteq alive /\ freed \subseteq freed' /\ UNCHANGED inited
        /\ Head(todo[t]).op # "retire"
    BY <1>1 DEF a, contexts
  <2> QED
    BY <1>1, <1>2, <1>3, <2>1, <2>2, ReturnsFine
<1>11. ASSUME NEW r \in Services PROVE Sound(r)'
  <2>1. Carriers(r) \in Nat /\ InQ(r) \in Nat /\ Held(r) \in Nat /\ Nexts(r) \in Nat
    BY <1>3, NumbersType
  <2>2. CASE r # s
    <3>1. inGlobal'[r] = inGlobal[r] /\ (r \in gone' <=> r \in gone) /\ Bit(s = r) = 0
      BY <1>1, <1>3, <2>2 DEF TypeOK, Bit
    <3>2. Carriers(r)' = Carriers(r)
      BY <1>6, <2>1, <3>1
    <3> QED
      BY <1>1, <1>3, <1>7, <1>8, <3>1, <3>2, Untouched DEF contexts
  <2>3. CASE r = s
    <3>1. ~inGlobal'[r] /\ r \in gone' /\ Bit(s = r) = 1 /\ r \in freed /\ r \in created
      BY <1>1, <1>3, <1>4, <2>3 DEF TypeOK, Bit
    <3>2. Counted(r)' /\ Dying(r)'
      BY <1>1, <1>3, <1>7, <1>8 DEF Sound, Counted, Dying, contexts
    <3>3. Life(r)' /\ Launched(r)'
      BY <1>1, <1>3, <1>4, <2>3, <3>1 DEF Sound, Life, Launched, contexts
    <3>4. Located(r)'
      <4>1. InQ(r) + Held(r) + Nexts(r) + Carriers(r) \in {0, 1}
        BY <1>3 DEF Sound, Located, Bit
      <4>2. InQ(r)' + Held(r)' + Nexts(r)' + Carriers(r)' = 0
        BY <1>2, <1>6, <1>8, <2>1, <2>3, <3>1, <4>1
      <4>3. Bit(Wanted(r)') = 0
        BY <3>1 DEF Wanted, Bit
      <4> QED
        BY <4>2, <4>3 DEF Located
    <3> QED
      BY <3>2, <3>3, <3>4 DEF Sound
  <2> QED
    BY <2>2, <2>3
<1> QED
  BY <1>8, <1>9, <1>10, <1>11 DEF IInv

LEMMA AbortStep ==
    ASSUME IInv, NEW t \in Threads, Abort(t)
    PROVE  IInv'
<1> DEFINE a == Head(todo[t])
<1>1. /\ todo[t] # <<>> /\ a.op = "abort"
      /\ UNCHANGED <<contexts, queues, working, waiting, feeding, sent, failed>>
  BY DEF Abort, Doing
<1>2. PICK order \in [1..Cardinality(Services) -> Services] :
        Returns(t, [n \in DOMAIN order |-> Calls("visit", order[n])])
  BY DEF Abort
<1> DEFINE k == Cardinality(Services)
           ops == [n \in 1..k |-> Calls("visit", order[n])]
<1>3. a \in Op /\ todo \in [Threads -> Seq(Op)]
  BY <1>1, CallType
<1>4. TypeOK /\ OpsOK
  BY DEF IInv
<1>5. k \in Nat
  BY WorkersAssumption, FS_CardinalityType
<1>6. \A n \in 1..k : ops[n] \in Op /\ ops[n].op = "visit"
  BY Called DEF Ops
<1>7. ops \in [1..k -> Op] /\ Returns(t, ops) /\ DOMAIN ops = 1..k
  BY <1>2, <1>6
<1> HIDE DEF a, k, ops
<1>8. ops \in Seq(Op)
  BY <1>5, <1>7
<1>9. Fine(ops, Raw', freed')
  BY <1>6, <1>7 DEF Fine
<1>10. ASSUME NEW r
       PROVE  /\ Many(ops, Of(r, Carries)) = 0 /\ Many(ops, Of(r, Owes)) = 0
              /\ Many(ops, Of(r, {"delete"})) = 0
  <2>1. \A n \in DOMAIN ops : /\ ops[n] \notin Of(r, Carries) /\ ops[n] \notin Of(r, Owes)
                              /\ ops[n] \notin Of(r, {"delete"})
    BY <1>6, <1>7 DEF Of, Carries, Owes
  <2> QED
    BY <1>8, <2>1, ManyType
<1>11. \A r : /\ Weighs(a, r, Carries) = 0 /\ Weighs(a, r, Owes) = 0
              /\ Weighs(a, r, {"delete"}) = 0
  BY <1>1 DEF Weighs, Carries, Owes, Bit
<1>12. ASSUME NEW r \in Services
       PROVE  /\ todo' \in [Threads -> Seq(Op)] /\ Carriers(r)' = Carriers(r)
              /\ Owers(r)' = Owers(r) /\ Deleters(r)' = Deleters(r)
  <2>1. /\ todo' \in [Threads -> Seq(Op)]
        /\ Carriers(r)' = Carriers(r) - 0 + 0 /\ Owers(r)' = Owers(r) - 0 + 0
        /\ Deleters(r)' = Deleters(r) - 0 + 0
    BY <1>1, <1>4, <1>7, <1>8, <1>10, <1>11, Returned DEF a
  <2> QED
    BY <1>4, <2>1, NumbersType
<1>13. OpsOK'
  <2>1. /\ alive' \subseteq alive /\ freed \subseteq freed' /\ UNCHANGED inited
        /\ Head(todo[t]).op # "retire"
    BY <1>1 DEF a, contexts
  <2> QED
    BY <1>1, <1>3, <1>4, <1>7, <1>8, <1>9, <2>1, ReturnsFine
<1>14. sent' \in 0..MaxMessages /\ todo' \in [Threads -> Seq(Op)]
  BY <1>1, <1>4, <1>12, WorkersAssumption DEF TypeOK
<1> QED
  BY <1>1, <1>12, <1>13, <1>14, CountsStay

LEMMA VisitStep ==
    ASSUME IInv, NEW t \in Threads, Visit(t)
    PROVE  IInv'
<1> DEFINE a == Head(todo[t])
           e == Calls("exit", a.s)
           ops == IF a.s \in alive THEN <<e>> ELSE <<>>
<1>1. /\ todo[t] # <<>> /\ a.op = "visit" /\ Returns(t, ops)
      /\ UNCHANGED <<contexts, queues, working, waiting, feeding, sent, failed>>
  BY DEF Visit, Doing
<1>2. a \in Op /\ a.s \in Services /\ todo \in [Threads -> Seq(Op)]
  BY <1>1, CallType
<1>3. TypeOK /\ OpsOK
  BY DEF IInv
<1>e. e \in Op /\ e.op = "exit"
  BY <1>2, Called DEF Ops
<1>4. \A r : /\ Weighs(a, r, Carries) = 0 /\ Weighs(a, r, Owes) = 0
             /\ Weighs(a, r, {"delete"}) = 0
             /\ Weighs(e, r, Carries) = 0 /\ Weighs(e, r, Owes) = 0
             /\ Weighs(e, r, {"delete"}) = 0
  BY <1>1, <1>e DEF Weighs, Carries, Owes, Bit
<1> HIDE DEF a, e
<1>6. \A r \in Services : /\ todo' \in [Threads -> Seq(Op)]
                          /\ Carriers(r)' = Carriers(r) /\ Owers(r)' = Owers(r)
                          /\ Deleters(r)' = Deleters(r)
  <2>1. CASE a.s \in alive
    <3>1. Returns(t, <<e>>)
      BY <1>1, <2>1
    <3>2. \A r \in Services : /\ todo' \in [Threads -> Seq(Op)]
                              /\ Carriers(r)' = Carriers(r) - 0 + 0
                              /\ Owers(r)' = Owers(r) - 0 + 0
                              /\ Deleters(r)' = Deleters(r) - 0 + 0
      BY <1>1, <1>3, <1>e, <1>4, <3>1, ReturnsOne DEF a
    <3> QED
      BY <1>3, <3>2, NumbersType
  <2>2. CASE a.s \notin alive
    <3>1. Returns(t, <<>>)
      BY <1>1, <2>2
    <3>2. \A r \in Services : /\ todo' \in [Threads -> Seq(Op)]
                              /\ Carriers(r)' = Carriers(r) - 0
                              /\ Owers(r)' = Owers(r) - 0
                              /\ Deleters(r)' = Deleters(r) - 0
      BY <1>1, <1>3, <1>4, <3>1, ReturnsNone DEF a
    <3> QED
      BY <1>3, <3>2, NumbersType
  <2> QED
    BY <2>1, <2>2
<1>7. OpsOK'
  <2>1. /\ alive' \subseteq alive /\ freed \subseteq freed' /\ UNCHANGED inited
        /\ Head(todo[t]).op # "retire"
    BY <1>1 DEF a, contexts
  <2>2. Fine(ops, Raw', freed') /\ ops \in Seq(Op)
    <3>1. <<e>> \in Seq(Op) /\ Fine(<<e>>, Raw', freed')
      BY <1>e, FineOne
    <3>2. <<>> \in Seq(Op) /\ Fine(<<>>, Raw', freed')
      BY FineNone
    <3> QED
      BY <3>1, <3>2
  <2> HIDE DEF ops
  <2> QED
    BY <1>1, <1>2, <1>3, <2>1, <2>2, ReturnsFine
<1>8. todo' \in [Threads -> Seq(Op)] /\ sent' \in 0..MaxMessages
  <2>1. todo' \in [Threads -> Seq(Op)]
    BY <1>2, <1>6
  <2> QED
    BY <1>1, <1>3, <2>1 DEF TypeOK
<1> QED
  BY <1>1, <1>6, <1>7, <1>8, CountsStay

LEMMA ExitStep ==
    ASSUME IInv, NEW t \in Threads, Exit(t)
    PROVE  IInv'
<1> DEFINE a == Head(todo[t])
           s == a.s
           u == Calls("unref", s)
           b == [a EXCEPT !.op = "abort"]
           rest == Tail(todo[t])
           again == IF rest # <<>> /\ rest[Len(rest)].op = "abort" THEN <<>> ELSE <<b>>
           list == IF s \in alive THEN <<u>> \o rest \o again ELSE rest
<1>1. /\ todo[t] # <<>> /\ a.op = "exit" /\ todo' = [todo EXCEPT ![t] = list]
      /\ alive' = alive \ {s}
      /\ UNCHANGED <<created, ref, freed, inited, queues, working, waiting, feeding, sent, failed>>
  BY DEF Exit, Doing
<1>2. /\ a \in Op /\ s \in Services /\ todo \in [Threads -> Seq(Op)] /\ todo[t] \in Seq(Op)
      /\ rest \in Seq(Op)
  BY <1>1, CallType
<1>3. TypeOK /\ OpsOK /\ Nested /\ \A r \in Services : Sound(r)
  BY DEF IInv
<1>4. /\ ServedInited' /\ WorkersOK' /\ Quiet' /\ Nested'
      /\ \A r \in Services : /\ Servers(r)' = Servers(r) /\ Held(r)' = Held(r)
                             /\ Nexts(r)' = Nexts(r) /\ InQ(r)' = InQ(r)
  BY <1>1, <1>3, WorkersStay, QueueStays DEF Nested, queues
<1>5. u \in Op /\ u.op = "unref" /\ u.s = s /\ b \in Op /\ b.op = "abort" /\ b.s = s
  BY <1>2, Called DEF Op, Ops
<1> HIDE DEF a, s, u, b
<1>6. \A r : /\ Weighs(a, r, Carries) = 0 /\ Weighs(a, r, Owes) = 0 /\ Weighs(a, r, {"delete"}) = 0
             /\ Weighs(u, r, Carries) = 0 /\ Weighs(u, r, Owes) = Bit(s = r)
             /\ Weighs(u, r, {"delete"}) = 0
             /\ Weighs(b, r, Carries) = 0 /\ Weighs(b, r, Owes) = 0 /\ Weighs(b, r, {"delete"}) = 0
  BY <1>1, <1>5 DEF Weighs, Carries, Owes, Bit
<1>7. /\ again \in Seq(Op) /\ Fine(again, Raw', freed')
      /\ \A r, K : Weighs(b, r, K) = 0 => Many(again, Of(r, K)) = 0
  <2>1. <<b>> \in Seq(Op) /\ Fine(<<b>>, Raw', freed')
    BY <1>5, FineOne
  <2>2. <<>> \in Seq(Op) /\ Fine(<<>>, Raw', freed')
    BY FineNone
  <2>3. ASSUME NEW r, NEW K, Weighs(b, r, K) = 0 PROVE Many(again, Of(r, K)) = 0
    <3>1. Many(<<b>>, Of(r, K)) = Weighs(b, r, K)
      BY <1>5, ManyOf
    <3>2. Many(<<>>, Of(r, K)) = 0
      BY ManyNone
    <3> QED
      BY <2>3, <3>1, <3>2
  <2> QED
    BY <2>1, <2>2, <2>3
<1> HIDE DEF again
<1>8. /\ <<u>> \in Seq(Op) /\ <<u>> \o rest \in Seq(Op) /\ <<u>> \o rest \o again \in Seq(Op)
      /\ list \in Seq(Op)
  <2>1. <<u>> \in Seq(Op)
    BY <1>5
  <2>2. <<u>> \o rest \in Seq(Op)
    BY <1>2, <2>1, ConcatProperties
  <2>3. <<u>> \o rest \o again \in Seq(Op)
    BY <1>7, <2>2, ConcatProperties
  <2> QED
    BY <1>2, <2>1, <2>2, <2>3
<1>9. ASSUME NEW r, NEW K, Weighs(a, r, K) = 0, Weighs(b, r, K) = 0
      PROVE  Count(todo', Of(r, K)) = Count(todo, Of(r, K))
                                      + (IF s \in alive THEN Weighs(u, r, K) ELSE 0)
  <2>0. \A q \in Seq(Op) : Count([todo EXCEPT ![t] = q], Of(r, K))
                              = Count(todo, Of(r, K)) - Many(todo[t], Of(r, K)) + Many(q, Of(r, K))
    BY <1>2, CountChange, ZenonT(60)
  <2>1. Count([todo EXCEPT ![t] = list], Of(r, K))
          = Count(todo, Of(r, K)) - Many(todo[t], Of(r, K)) + Many(list, Of(r, K))
    <3> HIDE DEF list, rest
    <3> QED
      BY <1>8, <2>0
  <2>2. Many(todo[t], Of(r, K)) = Many(rest, Of(r, K))
    <3>1. Many(todo[t], Of(r, K)) = Bit(Head(todo[t]) \in Of(r, K)) + Many(rest, Of(r, K))
      BY <1>1, <1>2, ManyTail
    <3>2. (Head(todo[t]) \in Of(r, K)) = (a.s = r /\ a.op \in K)
      BY <1>1, <1>2, Done DEF a
    <3>3. Bit(Head(todo[t]) \in Of(r, K)) = 0
      BY <1>9, <3>2 DEF Weighs
    <3>4. Many(rest, Of(r, K)) \in Nat
      BY <1>2, ManyType
    <3> QED
      BY <3>1, <3>3, <3>4
  <2>3. Many(list, Of(r, K)) = Many(rest, Of(r, K)) + (IF s \in alive THEN Weighs(u, r, K) ELSE 0)
    <3>1. CASE s \in alive
      <4>1. Many(<<u>> \o rest \o again, Of(r, K)) = Many(<<u>> \o rest, Of(r, K))
                                                     + Many(again, Of(r, K))
        BY <1>7, <1>8, ManyConcat, ZenonT(60)
      <4>2. Many(<<u>> \o rest, Of(r, K)) = Many(<<u>>, Of(r, K)) + Many(rest, Of(r, K))
        BY <1>2, <1>8, ManyConcat
      <4>3. Many(<<u>>, Of(r, K)) = Weighs(u, r, K) /\ Many(again, Of(r, K)) = 0
        BY <1>5, <1>7, <1>9, ManyOf
      <4>4. Many(rest, Of(r, K)) \in Nat /\ Weighs(u, r, K) \in {0, 1}
        BY <1>2, ManyType, WeighsType
      <4>5. list = <<u>> \o rest \o again
        BY <3>1
      <4> HIDE DEF list, rest
      <4> QED
        BY <3>1, <4>1, <4>2, <4>3, <4>4, <4>5
    <3>2. CASE s \notin alive
      <4>1. Many(rest, Of(r, K)) \in Nat /\ list = rest
        BY <1>2, <3>2, ManyType
      <4> QED
        BY <3>2, <4>1
    <3> QED
      BY <3>1, <3>2
  <2>4. Count(todo, Of(r, K)) \in Nat /\ Many(rest, Of(r, K)) \in Nat
    BY <1>2, CountType, ManyType
  <2>5. Weighs(u, r, K) \in {0, 1}
    BY WeighsType
  <2>6. Count(todo', Of(r, K)) = Count(todo, Of(r, K)) - Many(rest, Of(r, K)) + Many(list, Of(r, K))
    BY <1>1, <2>1, <2>2
  <2> HIDE DEF list, rest
  <2> QED
    BY <2>3, <2>4, <2>5, <2>6
<1>10. ASSUME NEW r \in Services
       PROVE  /\ Carriers(r)' = Carriers(r) /\ Deleters(r)' = Deleters(r)
              /\ Owers(r)' = Owers(r) + Bit(s = r /\ s \in alive)
  <2>1. /\ Count(todo', Of(r, Carries)) = Count(todo, Of(r, Carries))
                                          + (IF s \in alive THEN Weighs(u, r, Carries) ELSE 0)
        /\ Count(todo', Of(r, Owes)) = Count(todo, Of(r, Owes))
                                       + (IF s \in alive THEN Weighs(u, r, Owes) ELSE 0)
        /\ Count(todo', Of(r, {"delete"})) = Count(todo, Of(r, {"delete"}))
                                             + (IF s \in alive THEN Weighs(u, r, {"delete"}) ELSE 0)
    BY <1>6, <1>9
  <2>2. Carriers(r) \in Nat /\ Deleters(r) \in Nat /\ Owers(r) \in Nat
    BY <1>3, NumbersType
  <2>3. /\ Carriers(r)' = Carriers(r) + 0 /\ Deleters(r)' = Deleters(r) + 0
        /\ Owers(r)' = Owers(r) + (IF s \in alive THEN Bit(s = r) ELSE 0)
    BY <1>6, <2>1 DEF Carriers, Owers, Deleters
  <2> QED
    BY <2>2, <2>3 DEF Bit
<1>11. todo' \in [Threads -> Seq(Op)]
  BY <1>1, <1>2, <1>8
<1>12. TypeOK'
  BY <1>1, <1>3, <1>11 DEF TypeOK, queues, working, waiting, feeding
<1>13. OpsOK'
  <2>1. ASSUME NEW v \in Threads PROVE todo[v] \in Seq(Op) /\ Fine(todo[v], Raw', freed')
    <3>1. todo[v] \in Seq(Op) /\ Fine(todo[v], Raw, freed)
      BY <1>2, <1>3 DEF OpsOK
    <3>2. Raw' \subseteq Raw /\ freed \subseteq freed'
      BY <1>1 DEF Raw
    <3> QED
      BY <3>1, <3>2, FineLater
  <2>2. Fine(rest, Raw', freed')
    <3>1. Head(todo[t]).op # "retire"
      BY <1>1 DEF a
    <3> QED
      BY <1>1, <1>2, <2>1, <3>1, FineTail
  <2>3. Fine(<<u>> \o rest \o again, Raw', freed')
    <3>1. Fine(<<u>>, Raw', freed')
      BY <1>5, FineOne
    <3>2. Fine(<<u>> \o rest, Raw', freed')
      BY <1>2, <1>8, <2>2, <3>1, FineConcat
    <3> QED
      BY <1>7, <1>8, <3>2, FineConcat
  <2>4. Fine(list, Raw', freed')
    BY <2>2, <2>3
  <2> HIDE DEF list
  <2> QED
    BY <1>1, <1>2, <2>1, <2>4 DEF OpsOK
<1>14. ASSUME NEW r \in Services PROVE Sound(r)'
  <2>1. Owers(r) \in Nat /\ Servers(r) \in Nat /\ ref[r] \in Int
    BY <1>3, NumbersType
  <2>2. CASE r # s \/ s \notin alive
    <3>1. (r \in alive' <=> r \in alive) /\ Bit(s = r /\ s \in alive) = 0
      BY <1>1, <2>2 DEF Bit
    <3>2. Owers(r)' = Owers(r)
      BY <1>10, <2>1, <3>1
    <3> QED
      BY <1>1, <1>3, <1>4, <1>10, <3>1, <3>2, Untouched DEF queues
  <2>3. CASE r = s /\ s \in alive
    <3>1. r \notin alive' /\ r \in alive /\ Bit(s = r /\ s \in alive) = 1
      BY <1>1, <2>3 DEF Bit
    <3>2. Owers(r)' = Owers(r) + 1
      BY <1>10, <3>1
    <3>3. Counted(r)'
      BY <1>1, <1>3, <1>4, <2>1, <3>1, <3>2 DEF Sound, Counted, Bit
    <3>4. Located(r)' /\ Launched(r)' /\ Life(r)' /\ Dying(r)'
      BY <1>1, <1>3, <1>4, <1>10, <3>1 DEF Sound, Located, Wanted, Launched, Life, Dying, queues
    <3> QED
      BY <3>3, <3>4 DEF Sound
  <2> QED
    BY <2>2, <2>3
<1> QED
  BY <1>4, <1>12, <1>13, <1>14 DEF IInv

-----------------------------------------------------------------------------
(* The steps of a worker.                                                  *)
LEMMA WorkerType ==
    ASSUME IInv, NEW w \in Workers
    PROVE  /\ TypeOK /\ OpsOK /\ ServedInited /\ WorkersOK /\ Nested /\ Quiet
           /\ \A r \in Services : Sound(r)
           /\ w \in Threads /\ todo \in [Threads -> Seq(Op)]
           /\ pc \in [Workers -> WorkerSteps] /\ hold \in [Workers -> Services \cup {None}]
           /\ next \in [Workers -> Services \cup {None}] /\ None \notin Services
BY ThreadsFinite DEF IInv, TypeOK, Threads

(* A worker that has no queue pops one, or finds none.                     *)
LEMMA PopStep ==
    ASSUME IInv, NEW w \in Workers, NEW from \in {"next", "pick"}, NEW found \in {"grab", "next"},
           pc[w] = from, hold[w] = None, Pops(w, found, "drowsy"),
           UNCHANGED <<contexts, queue, inGlobal, release, gone, next, msg, left, todo, waiting,
                       feeding, sent, failed>>
    PROVE  IInv'
<1>1. /\ TypeOK /\ OpsOK /\ ServedInited /\ WorkersOK /\ Nested /\ Quiet
      /\ \A r \in Services : Sound(r)
      /\ pc \in [Workers -> WorkerSteps] /\ hold \in [Workers -> Services \cup {None}]
      /\ next \in [Workers -> Services \cup {None}] /\ None \notin Services
  BY WorkerType
<1>2. PICK h, p : /\ hold' = [hold EXCEPT ![w] = h] /\ pc' = [pc EXCEPT ![w] = p]
                  /\ \/ global = <<>> /\ h = None /\ p = "drowsy" /\ global' = global
                     \/ /\ global # <<>> /\ h = Head(global) /\ p = found
                        /\ global' = Tail(global)
  BY DEF Pops, Goes
<1>3. global \in Seq(Services)
  BY <1>1 DEF TypeOK
<1>4. /\ global' \in Seq(Services) /\ h \in Services \cup {None} /\ (h = None => p = "drowsy")
      /\ p \in {"grab", "next", "drowsy"} /\ (p = "drowsy" => h = None)
  BY <1>1, <1>2, <1>3, SMTT(60)
<1>5. /\ hold'[w] = h /\ pc'[w] = p /\ pc[w] \notin Busy /\ pc'[w] \notin Busy
      /\ \A v \in Workers \ {w} : hold'[v] = hold[v] /\ pc'[v] = pc[v]
  BY <1>1, <1>2, <1>4 DEF Busy
<1>6. TypeOK'
  BY <1>1, <1>2, <1>4 DEF TypeOK, WorkerSteps, contexts, waiting, feeding
<1>7. ServedInited' /\ Nested' /\ Quiet' /\ OpsOK'
  <2>1. ServedInited'
    BY <1>1, <1>5 DEF ServedInited, contexts
  <2>2. Nested' /\ OpsOK'
    BY <1>1 DEF Nested, OpsOK, Raw, contexts
  <2>3. Quiet'
    BY <1>1, <1>4, <1>5 DEF Quiet, waiting, feeding
  <2> QED
    BY <2>1, <2>2, <2>3
<1>8. WorkersOK'
  <2> SUFFICES ASSUME NEW v \in Workers
               PROVE  /\ pc'[v] \in {"pick", "drowsy", "doze", "asleep", "waking"} => hold'[v] = None
                      /\ pc'[v] \in Busy \cup {"grab"} => hold'[v] \in Services
                      /\ pc'[v] = "requeue" <=> next'[v] # None
                      /\ pc'[v] = "pop" => left'[v] > 0
    BY DEF WorkersOK
  <2>1. CASE v = w
    <3>1. next'[w] = None
      BY <1>1 DEF WorkersOK
    <3> QED
      BY <1>4, <1>5, <2>1, <3>1 DEF Busy
  <2>2. CASE v # w
    BY <1>1, <1>5, <2>2 DEF WorkersOK
  <2> QED
    BY <2>1, <2>2
<1>9. ASSUME NEW r \in Services PROVE Sound(r)'
  <2>1. InQ(r) \in Nat /\ Held(r) \in Nat /\ Nexts(r) \in Nat /\ Servers(r) \in Nat
    BY <1>1, NumbersType
  <2>2. Held(r)' = Held(r) - Bit(hold[w] = r) + Bit(h = r)
    BY <1>5, WorkerMoves
  <2>3. Servers(r)' = Servers(r)
    <3>1. Servers(r)' = Servers(r) - Bit(hold[w] = r /\ pc[w] \in Busy)
                                   + Bit(hold'[w] = r /\ pc'[w] \in Busy)
      BY <1>5, WorkerMoves
    <3> QED
      BY <1>5, <2>1, <3>1 DEF Bit
  <2>4. InQ(r)' + Held(r)' + Nexts(r)' = InQ(r) + Held(r) + Nexts(r)
    <3>1. Nexts(r)' = Nexts(r) /\ Bit(hold[w] = r) = 0
      BY <1>1 DEF Nexts, Bit
    <3>2. CASE global = <<>>
      <4>1. InQ(r)' = InQ(r) /\ Bit(h = r) = 0
        BY <1>1, <1>2, <3>2 DEF InQ, Bit
      <4> QED
        BY <2>1, <2>2, <3>1, <4>1
    <3>3. CASE global # <<>>
      <4>1. InQ(r)' = InQ(r) - Bit(h = r) /\ Bit(h = r) \in {0, 1}
        BY <1>1, <1>2, <3>3, Popped DEF Bit
      <4> QED
        BY <2>1, <2>2, <3>1, <4>1
    <3> QED
      BY <3>2, <3>3
  <2>5. Carriers(r)' = Carriers(r) /\ Owers(r)' = Owers(r) /\ Deleters(r)' = Deleters(r)
    BY DEF Carriers, Owers, Deleters
  <2> QED
    BY <1>1, <2>3, <2>4, <2>5, Untouched DEF contexts
<1> QED
  BY <1>6, <1>7, <1>8, <1>9 DEF IInv

(* A worker goes on, and nothing else happens.                             *)
LEMMA GoesOn ==
    ASSUME IInv, NEW w \in Workers, NEW p \in WorkerSteps, pc' = [pc EXCEPT ![w] = p],
           UNCHANGED <<contexts, queues, hold, next, msg, left, todo, feeding, sent, failed>>,
           p \in Busy <=> pc[w] \in Busy,
           p \in {"pick", "drowsy", "doze", "asleep", "waking"} => hold[w] = None,
           p \in Busy \cup {"grab"} => hold[w] \in Services,
           p # "requeue", pc[w] # "requeue", p = "pop" => left[w] > 0,
           sleepers' \in Int, mutex' \in Workers \cup {None}, quit' = quit,
           p = "asleep" => ~quit
    PROVE  IInv'
<1>1. /\ TypeOK /\ OpsOK /\ ServedInited /\ WorkersOK /\ Nested /\ Quiet
      /\ \A r \in Services : Sound(r)
      /\ pc \in [Workers -> WorkerSteps] /\ hold \in [Workers -> Services \cup {None}]
  BY WorkerType
<1>2. /\ pc' \in [Workers -> WorkerSteps] /\ pc'[w] = p
      /\ \A v \in Workers \ {w} : hold'[v] = hold[v] /\ pc'[v] = pc[v]
  BY <1>1
<1>3. TypeOK'
  BY <1>1, <1>2 DEF TypeOK, contexts, queues, feeding
<1>4. ServedInited' /\ Nested' /\ Quiet' /\ OpsOK'
  <2>1. ServedInited'
    BY <1>1, <1>2 DEF ServedInited, contexts
  <2>2. Nested' /\ OpsOK'
    BY <1>1 DEF Nested, OpsOK, Raw, contexts, queues
  <2>3. Quiet'
    BY <1>1, <1>2 DEF Quiet, feeding
  <2> QED
    BY <2>1, <2>2, <2>3
<1>5. WorkersOK'
  <2> SUFFICES ASSUME NEW v \in Workers
               PROVE  /\ pc'[v] \in {"pick", "drowsy", "doze", "asleep", "waking"} => hold'[v] = None
                      /\ pc'[v] \in Busy \cup {"grab"} => hold'[v] \in Services
                      /\ pc'[v] = "requeue" <=> next'[v] # None
                      /\ pc'[v] = "pop" => left'[v] > 0
    BY DEF WorkersOK
  <2>1. CASE v = w
    <3>1. next'[w] = None /\ hold'[w] = hold[w] /\ left'[w] = left[w]
      BY <1>1 DEF WorkersOK
    <3> QED
      BY <1>2, <2>1, <3>1
  <2>2. CASE v # w
    BY <1>1, <1>2, <2>2 DEF WorkersOK
  <2> QED
    BY <2>1, <2>2
<1>6. ASSUME NEW r \in Services PROVE Sound(r)'
  <2>1. Servers(r)' = Servers(r)
    <3>1. Servers(r)' = Servers(r) - Bit(hold[w] = r /\ pc[w] \in Busy)
                                   + Bit(hold'[w] = r /\ pc'[w] \in Busy)
      BY <1>2, WorkerMoves
    <3>2. Servers(r) \in Nat
      BY <1>1, NumbersType
    <3> QED
      BY <1>2, <3>1, <3>2 DEF Bit
  <2>2. /\ InQ(r)' = InQ(r) /\ Held(r)' = Held(r) /\ Nexts(r)' = Nexts(r)
        /\ Carriers(r)' = Carriers(r) /\ Owers(r)' = Owers(r) /\ Deleters(r)' = Deleters(r)
    BY DEF InQ, Held, Nexts, Carriers, Owers, Deleters, queues
  <2> QED
    BY <1>1, <2>1, <2>2, Untouched DEF contexts, queues
<1> QED
  BY <1>3, <1>4, <1>5, <1>6 DEF IInv

LEMMA EnterStep ==
    ASSUME IInv, NEW w \in Workers, Enter(w)
    PROVE  IInv'
<1>1. /\ TypeOK /\ OpsOK /\ ServedInited /\ WorkersOK /\ Nested /\ Quiet
      /\ \A r \in Services : Sound(r)
      /\ pc \in [Workers -> WorkerSteps] /\ hold \in [Workers -> Services \cup {None}]
      /\ next \in [Workers -> Services \cup {None}] /\ None \notin Services
  BY WorkerType
<1>2. /\ pc[w] = "next"
      /\ UNCHANGED <<contexts, queue, inGlobal, release, gone, next, msg, left, todo, waiting,
                     feeding, sent, failed>>
  BY DEF Enter, At
<1>3. CASE ~quit /\ hold[w] = None
  BY <1>2, <1>3, PopStep DEF Enter
<1>4. CASE quit \/ hold[w] # None
  <2>1. PICK p \in {"over", "grab"} :
          /\ pc' = [pc EXCEPT ![w] = p] /\ UNCHANGED <<hold, global>>
          /\ p = "grab" => hold[w] # None
    BY <1>4 DEF Enter, Goes
  <2>2. p \notin Busy /\ pc[w] \notin Busy
    BY <1>2 DEF Busy
  <2>3. /\ p \in WorkerSteps /\ sleepers' \in Int /\ mutex' \in Workers \cup {None}
        /\ quit' = quit
    BY <1>1, <1>2 DEF TypeOK, WorkerSteps, waiting
  <2>4. /\ UNCHANGED <<contexts, queues, hold, next, msg, left, todo, feeding, sent, failed>>
        /\ p \in Busy \cup {"grab"} => hold[w] \in Services
    BY <1>1, <1>2, <2>1, <2>2 DEF queues
  <2> QED
    BY <1>2, <2>1, <2>2, <2>3, <2>4, GoesOn
<1> QED
  BY <1>3, <1>4

LEMMA PickStep ==
    ASSUME IInv, NEW w \in Workers, Pick(w)
    PROVE  IInv'
<1>1. pc[w] = "pick" /\ hold[w] = None
  BY WorkerType DEF Pick, At, WorkersOK
<1> QED
  BY <1>1, PopStep DEF Pick

LEMMA HandlerReturnsStep ==
    ASSUME IInv, NEW w \in Workers, HandlerReturns(w)
    PROVE  IInv'
<1> DEFINE p == IF left[w] > 0 THEN "pop" ELSE "turn"
<1>1. /\ pc[w] = "call" /\ pc' = [pc EXCEPT ![w] = p]
      /\ UNCHANGED <<contexts, queues, hold, next, msg, left, todo, waiting, feeding, sent, failed>>
  BY DEF HandlerReturns, At, Goes
<1>2. p \in WorkerSteps /\ p \in Busy /\ pc[w] \in Busy /\ p \in {"pop", "turn"}
  BY <1>1 DEF WorkerSteps, Busy
<1>3. hold[w] \in Services
  BY <1>2, WorkerType DEF WorkersOK
<1>4. sleepers' \in Int /\ mutex' \in Workers \cup {None} /\ quit' = quit
  BY <1>1, WorkerType DEF TypeOK, waiting
<1>5. p = "pop" => left[w] > 0
  OBVIOUS
<1> HIDE DEF p
<1> QED
  BY <1>1, <1>2, <1>3, <1>4, <1>5, GoesOn

(* The steps of a worker that has no queue and sleeps, or is about to.     *)
LEMMA SleepSteps ==
    ASSUME IInv, NEW w \in Workers, Drowsy(w) \/ Doze(w) \/ SpuriousWakeup(w) \/ Wake(w)
    PROVE  IInv'
<1>1. PICK p \in {"next", "doze", "asleep", "waking"} :
        /\ pc[w] \in {"drowsy", "doze", "asleep", "waking"} /\ pc' = [pc EXCEPT ![w] = p]
        /\ p = "asleep" => ~quit
  BY DEF Drowsy, Doze, SpuriousWakeup, Wake, At, Goes
<1>2. /\ UNCHANGED <<contexts, queues, hold, next, msg, left, todo, feeding, sent, failed>>
      /\ sleepers' \in Int /\ mutex' \in Workers \cup {None} /\ quit' = quit
  BY WorkerType DEF Drowsy, Doze, SpuriousWakeup, Wake, TypeOK, waiting
<1>3. p \in WorkerSteps /\ p \notin Busy /\ pc[w] \notin Busy
  BY <1>1 DEF WorkerSteps, Busy
<1>4. hold[w] = None
  BY <1>1, WorkerType DEF WorkersOK
<1> QED
  BY <1>1, <1>2, <1>3, <1>4, GoesOn

(* A step of w that takes it neither to sleep nor to another thread's work. *)
LEMMA OneWorker ==
    ASSUME IInv, NEW w \in Workers,
           \A v \in Workers \ {w} : /\ hold'[v] = hold[v] /\ pc'[v] = pc[v]
                                    /\ next'[v] = next[v] /\ left'[v] = left[v],
           pc'[w] \notin {"doze", "asleep", "waking", "drowsy"},
           pc'[w] = "pick" => hold'[w] = None,
           pc'[w] \in Busy \cup {"grab"} => hold'[w] \in Services,
           pc'[w] \in Busy => inited'[hold'[w]],
           pc'[w] = "requeue" <=> next'[w] # None,
           pc'[w] = "pop" => left'[w] > 0,
           UNCHANGED <<inited, quit, tpc>>
    PROVE  ServedInited' /\ WorkersOK' /\ Quiet'
<1>1. ServedInited /\ WorkersOK /\ Quiet
  BY DEF IInv
<1>2. ServedInited'
  BY <1>1 DEF ServedInited
<1>3. Quiet'
  BY <1>1 DEF Quiet
<1>4. WorkersOK'
  <2> SUFFICES ASSUME NEW v \in Workers
               PROVE  /\ pc'[v] \in {"pick", "drowsy", "doze", "asleep", "waking"} => hold'[v] = None
                      /\ pc'[v] \in Busy \cup {"grab"} => hold'[v] \in Services
                      /\ pc'[v] = "requeue" <=> next'[v] # None
                      /\ pc'[v] = "pop" => left'[v] > 0
    BY DEF WorkersOK
  <2>1. CASE v = w
    BY <2>1
  <2>2. CASE v # w
    BY <1>1, <2>2 DEF WorkersOK
  <2> QED
    BY <2>1, <2>2
<1> QED
  BY <1>2, <1>3, <1>4

LEMMA StartsFine ==
    ASSUME todo \in [Threads -> Seq(Op)], OpsOK, NEW t \in Threads, NEW a \in Op,
           todo' = [todo EXCEPT ![t] = <<a>>], Fine(<<a>>, Raw', freed'),
           \A u \in Threads : Fine(todo[u], Raw', freed')
    PROVE  OpsOK'
BY DEF OpsOK

LEMMA ContextStep ==
    ASSUME IInv, NEW w \in Workers, Context(w)
    PROVE  IInv'
<1> DEFINE s == hold[w]
           g == Calls("giveup", s)
<1>1. /\ TypeOK /\ OpsOK /\ ServedInited /\ WorkersOK /\ Nested /\ Quiet
      /\ \A r \in Services : Sound(r)
      /\ pc \in [Workers -> WorkerSteps] /\ hold \in [Workers -> Services \cup {None}]
      /\ None \notin Services /\ w \in Threads /\ todo \in [Threads -> Seq(Op)]
  BY WorkerType
<1>2. /\ pc[w] = "grab" /\ todo[w] = <<>> /\ s \in Services /\ next[w] = None
      /\ UNCHANGED <<created, alive, freed, inited, queues, next, msg, left, waiting, feeding, sent,
                     failed>>
  BY <1>1 DEF Context, At, WorkersOK, Busy
<1>3. g \in Op /\ g.op = "giveup" /\ g.s = s
  BY <1>2, Called DEF Ops
<1>4. Held(s) >= 1
  BY <1>1, <1>2, Holding
<1>5. Nested' /\ \A r \in Services : Nexts(r)' = Nexts(r) /\ InQ(r)' = InQ(r)
  BY <1>1, <1>2, QueueStays DEF Nested, queues, Nexts
<1> HIDE DEF s, g
<1>6. CASE s \in alive
  <2>1. ref' = [ref EXCEPT ![s] = @ + 1] /\ pc' = [pc EXCEPT ![w] = "first"] /\ UNCHANGED <<hold, todo>>
    BY <1>6 DEF Context, Goes, s
  <2>2. /\ pc'[w] = "first" /\ hold'[w] = s
        /\ \A v \in Workers \ {w} : hold'[v] = hold[v] /\ pc'[v] = pc[v]
    BY <1>1, <2>1 DEF s
(* While a worker has the queue the launch has handed it on.               *)
  <2>3. inited[s]
    <3>1. InQ(s) + Held(s) + Nexts(s) + Carriers(s) \in {0, 1}
      BY <1>1, <1>2 DEF Sound, Located, Bit
    <3>2. Carriers(s) = 0
      BY <1>1, <1>2, <1>4, <3>1, NumbersType
    <3> QED
      BY <1>1, <1>2, <1>6, <3>2 DEF Sound, Launched
  <2>4. ServedInited' /\ WorkersOK' /\ Quiet'
    BY <1>2, <2>2, <2>3, OneWorker DEF waiting, feeding
  <2>5. TypeOK' /\ OpsOK'
    <3>1. ref' \in [Services -> Int] /\ pc' \in [Workers -> WorkerSteps]
      BY <1>1, <1>2, <2>1 DEF TypeOK, WorkerSteps
    <3>2. TypeOK'
      BY <1>1, <1>2, <2>1, <3>1 DEF TypeOK, queues, waiting, feeding
    <3> QED
      BY <1>1, <1>2, <2>1, <3>2 DEF OpsOK, Raw
  <2>6. ASSUME NEW r \in Services PROVE Sound(r)'
    <3>1. /\ Owers(r) \in Nat /\ Servers(r) \in Nat /\ ref[r] \in Int /\ Held(r) \in Nat
      BY <1>1, NumbersType
    <3>2. /\ Carriers(r)' = Carriers(r) /\ Owers(r)' = Owers(r) /\ Deleters(r)' = Deleters(r)
      BY <2>1 DEF Carriers, Owers, Deleters
    <3>3. Servers(r)' = Servers(r) + Bit(s = r) /\ Held(r)' = Held(r)
      <4>1. /\ Held(r)' = Held(r) - Bit(hold[w] = r) + Bit(hold'[w] = r)
            /\ Servers(r)' = Servers(r) - Bit(hold[w] = r /\ pc[w] \in Busy)
                                        + Bit(hold'[w] = r /\ pc'[w] \in Busy)
        BY <2>2, WorkerMoves
      <4>2. /\ Bit(hold[w] = r /\ pc[w] \in Busy) = 0
            /\ Bit(hold'[w] = r /\ pc'[w] \in Busy) = Bit(s = r)
            /\ hold[w] = s /\ Bit(s = r) \in {0, 1}
        BY <1>2, <2>2 DEF Bit, Busy, s
      <4> QED
        BY <2>2, <3>1, <4>1, <4>2
    <3>4. CASE r # s
      <4>1. ref'[r] = ref[r] /\ Bit(s = r) = 0
        BY <1>1, <2>1, <3>4 DEF TypeOK, Bit
      <4>2. Servers(r)' = Servers(r)
        BY <3>1, <3>3, <4>1
      <4> QED
        BY <1>1, <1>2, <1>5, <3>2, <3>3, <4>1, <4>2, Untouched DEF queues
    <3>5. CASE r = s
      <4>1. ref'[r] = ref[r] + 1 /\ Bit(s = r) = 1 /\ Bit(r \in alive) = 1 /\ r \in created
        BY <1>1, <1>2, <1>6, <2>1, <3>5 DEF TypeOK, Bit
      <4>2. ref[r] >= 1
        BY <1>1, <3>1, <4>1 DEF Sound, Counted
      <4>3. Counted(r)'
        BY <1>1, <1>2, <3>1, <3>2, <3>3, <4>1 DEF Sound, Counted
      <4>4. Located(r)' /\ Launched(r)'
        BY <1>1, <1>2, <1>5, <3>2, <3>3 DEF Sound, Located, Wanted, Launched, queues
      <4>5. Dying(r)' /\ Life(r)'
        BY <1>1, <1>2, <3>1, <3>2, <4>1, <4>2 DEF Sound, Dying, Life, Bit, queues
      <4> QED
        BY <4>3, <4>4, <4>5 DEF Sound
    <3> QED
      BY <3>4, <3>5
  <2> QED
    BY <1>5, <2>4, <2>5, <2>6 DEF IInv
<1>7. CASE s \notin alive
  <2>1. /\ todo' = [todo EXCEPT ![w] = <<g>>] /\ hold' = [hold EXCEPT ![w] = None]
        /\ pc' = [pc EXCEPT ![w] = "pick"] /\ UNCHANGED ref
    BY <1>7 DEF Context, Goes, s, g
  <2>2. /\ pc'[w] = "pick" /\ hold'[w] = None
        /\ \A v \in Workers \ {w} : hold'[v] = hold[v] /\ pc'[v] = pc[v]
    BY <1>1, <2>1
  <2>3. ServedInited' /\ WorkersOK' /\ Quiet'
    BY <1>2, <2>2, OneWorker DEF waiting, feeding, Busy
  <2>4. \A r : /\ Weighs(g, r, Carries) = Bit(s = r) /\ Weighs(g, r, Owes) = 0
               /\ Weighs(g, r, {"delete"}) = 0
    BY <1>3 DEF Weighs, Carries, Owes, Bit
  <2>5. \A r \in Services : /\ todo' \in [Threads -> Seq(Op)]
                            /\ Carriers(r)' = Carriers(r) + Weighs(g, r, Carries)
                            /\ Owers(r)' = Owers(r) + Weighs(g, r, Owes)
                            /\ Deleters(r)' = Deleters(r) + Weighs(g, r, {"delete"})
    BY <1>1, <1>2, <1>3, <2>1, Begun
  <2>6. TypeOK'
    <3>1. hold' \in [Workers -> Services \cup {None}] /\ pc' \in [Workers -> WorkerSteps]
      BY <1>1, <2>1 DEF WorkerSteps
    <3> QED
      BY <1>1, <1>2, <2>1, <2>5, <3>1 DEF TypeOK, queues, waiting, feeding
  <2>7. OpsOK'
    <3>1. Fine(<<g>>, Raw', freed')
      BY <1>2, <1>3, <1>7 DEF Fine, Raw
    <3>2. \A u \in Threads : Fine(todo[u], Raw', freed')
      BY <1>1, <1>2 DEF OpsOK, Raw
    <3> QED
      BY <1>1, <1>3, <2>1, <3>1, <3>2, StartsFine
  <2>8. ASSUME NEW r \in Services PROVE Sound(r)'
    <3>1. /\ Carriers(r) \in Nat /\ Owers(r) \in Nat /\ Servers(r) \in Nat /\ ref[r] \in Int
          /\ Held(r) \in Nat /\ InQ(r) \in Nat /\ Nexts(r) \in Nat /\ Deleters(r) \in Nat
      BY <1>1, NumbersType
    <3>2. /\ Carriers(r)' = Carriers(r) + Bit(s = r) /\ Owers(r)' = Owers(r)
          /\ Deleters(r)' = Deleters(r)
      BY <2>4, <2>5, <3>1
    <3>3. Servers(r)' = Servers(r) /\ Held(r)' = Held(r) - Bit(s = r)
      <4>1. /\ Held(r)' = Held(r) - Bit(hold[w] = r) + Bit(hold'[w] = r)
            /\ Servers(r)' = Servers(r) - Bit(hold[w] = r /\ pc[w] \in Busy)
                                        + Bit(hold'[w] = r /\ pc'[w] \in Busy)
        BY <2>2, WorkerMoves
      <4>2. /\ Bit(hold[w] = r /\ pc[w] \in Busy) = 0
            /\ Bit(hold'[w] = r /\ pc'[w] \in Busy) = 0 /\ Bit(hold'[w] = r) = 0
            /\ hold[w] = s /\ Bit(s = r) \in {0, 1}
        BY <1>1, <1>2, <2>2 DEF Bit, Busy, s
      <4> QED
        BY <3>1, <4>1, <4>2
    <3>4. Counted(r)' /\ Dying(r)' /\ Life(r)'
      BY <1>1, <1>2, <2>1, <3>2, <3>3 DEF Sound, Counted, Dying, Life, queues
    <3>5. Located(r)'
      <4>1. InQ(r)' + Held(r)' + Nexts(r)' + Carriers(r)' = InQ(r) + Held(r) + Nexts(r) + Carriers(r)
        BY <1>5, <3>1, <3>2, <3>3 DEF Bit
      <4> QED
        BY <1>1, <1>2, <4>1 DEF Sound, Located, Wanted, queues
    <3>6. Launched(r)'
      BY <1>1, <1>2, <3>1, <3>2 DEF Sound, Launched, Bit
    <3> QED
      BY <3>4, <3>5, <3>6 DEF Sound
  <2> QED
    BY <1>5, <2>3, <2>6, <2>7, <2>8 DEF IInv
<1> QED
  BY <1>6, <1>7

(* A worker that serves has a context with a reference, and its queue.     *)
LEMMA Serves ==
    ASSUME IInv, NEW w \in Workers, pc[w] \in Busy
    PROVE  /\ hold[w] \in Services /\ inited[hold[w]] /\ hold[w] \in created
           /\ hold[w] \notin freed /\ hold[w] \notin gone /\ ref[hold[w]] >= 1
           /\ Held(hold[w]) >= 1 /\ Servers(hold[w]) >= 1
           /\ Wanted(hold[w]) /\ Carriers(hold[w]) = 0
<1> DEFINE s == hold[w]
<1>1. /\ TypeOK /\ ServedInited /\ WorkersOK /\ Nested /\ \A r \in Services : Sound(r)
      /\ None \notin Services
  BY WorkerType
<1>2. s \in Services /\ inited[s]
  BY <1>1 DEF WorkersOK, ServedInited
<1>3. Held(s) >= 1 /\ Servers(s) >= 1
  BY <1>1, <1>2, Holding
<1> HIDE DEF s
<1>4. /\ Carriers(s) \in Nat /\ Owers(s) \in Nat /\ Servers(s) \in Nat /\ Held(s) \in Nat
      /\ InQ(s) \in Nat /\ Nexts(s) \in Nat /\ ref[s] \in Int
  BY <1>1, <1>2, NumbersType
<1>5. ref[s] >= 1
  BY <1>1, <1>2, <1>3, <1>4 DEF Sound, Counted, Bit
<1>6. s \notin freed /\ s \in created
  BY <1>1, <1>2, <1>5 DEF Sound, Life
<1>7. InQ(s) + Held(s) + Nexts(s) + Carriers(s) = Bit(Wanted(s))
  BY <1>1, <1>2 DEF Sound, Located
<1>8. Wanted(s) /\ Carriers(s) = 0
  BY <1>3, <1>4, <1>7 DEF Bit
<1> QED
  BY <1>1, <1>2, <1>3, <1>5, <1>6, <1>8 DEF Nested, s

(* The share of a queue is a number, whatever the weight.                  *)
LEMMA ShareType ==
    ASSUME NEW w \in Workers, NEW n \in Nat
    PROVE  Share(w, n) \in Nat
<1>1. Weight[w] \in (-1)..3
  BY BoundsAssumption
<1>2. CASE Weight[w] < 0
  BY <1>2 DEF Share
<1>3. CASE ~(Weight[w] < 0)
  <2>1. Weight[w] = 0 \/ Weight[w] = 1 \/ Weight[w] = 2 \/ Weight[w] = 3
    BY <1>1, <1>3
  <2>2. 2^0 = 1 /\ 2^1 = 2 /\ 2^2 = 4 /\ 2^3 = 8
    OBVIOUS
  <2>3. 2^Weight[w] \in {1, 2, 4, 8}
    BY <2>1, <2>2
  <2>4. n \div 2^Weight[w] \in Nat
    <3>1. n \div 1 \in Nat /\ n \div 2 \in Nat /\ n \div 4 \in Nat /\ n \div 8 \in Nat
      OBVIOUS
    <3> QED
      BY <2>3, <3>1
  <2> QED
    BY <1>3, <2>4 DEF Share
<1> QED
  BY <1>2, <1>3

LEMMA TakeStep ==
    ASSUME IInv, NEW w \in Workers, Take(w)
    PROVE  IInv'
<1> DEFINE s == hold[w]
           k == Share(w, Len(queue[s]) - 1)
           l == IF pc[w] = "pop" THEN left[w] - 1 ELSE IF k > 0 THEN k - 1 ELSE 0
<1>1. /\ TypeOK /\ OpsOK /\ ServedInited /\ WorkersOK /\ Nested /\ Quiet
      /\ \A r \in Services : Sound(r)
      /\ pc \in [Workers -> WorkerSteps] /\ hold \in [Workers -> Services \cup {None}]
      /\ None \notin Services /\ w \in Threads /\ todo \in [Threads -> Seq(Op)]
  BY WorkerType
<1>2. /\ pc[w] \in {"first", "pop"} /\ queue[s] # <<>>
      /\ queue' = [queue EXCEPT ![s] = Tail(@)] /\ msg' = [msg EXCEPT ![w] = Head(queue[s])]
      /\ left' = [left EXCEPT ![w] = l]
      /\ failed' = IF inited[s] THEN failed ELSE failed \cup {"init"}
      /\ pc' = [pc EXCEPT ![w] = "call"]
      /\ UNCHANGED <<contexts, inGlobal, release, gone, global, hold, next, todo, waiting, feeding,
                     sent>>
  BY DEF Take, At, Goes
<1>3. /\ pc[w] \in Busy /\ s \in Services /\ inited[s] /\ s \notin freed /\ s \notin gone
      /\ s \in created /\ Wanted(s)
  BY <1>2, Serves DEF Busy
<1>4. /\ queue[s] \in Seq(Message) /\ Head(queue[s]) \in Message /\ Tail(queue[s]) \in Seq(Message)
      /\ Len(queue[s]) - 1 \in Nat
  <2>1. queue[s] \in Seq(Message)
    BY <1>1, <1>3 DEF TypeOK
  <2>2. \A q \in Seq(Message) : q # <<>> => /\ Head(q) \in Message /\ Tail(q) \in Seq(Message)
                                            /\ Len(q) - 1 \in Nat
    OBVIOUS
  <2> QED
    BY <1>2, <2>1, <2>2
<1>5. l \in Nat
  <2>1. k \in Nat
    BY <1>4, ShareType
  <2>2. left[w] \in Nat /\ (pc[w] = "pop" => left[w] > 0)
    BY <1>1 DEF TypeOK, WorkersOK
  <2> HIDE DEF k
  <2> QED
    BY <2>1, <2>2
<1> HIDE DEF s, k, l
<1>6. /\ pc'[w] = "call" /\ hold'[w] = s /\ next[w] = None /\ next'[w] = None /\ "call" \in Busy
      /\ \A v \in Workers \ {w} : /\ hold'[v] = hold[v] /\ pc'[v] = pc[v]
                                  /\ next'[v] = next[v] /\ left'[v] = left[v]
  BY <1>1, <1>2 DEF s, Busy, WorkersOK, TypeOK
<1>7. ServedInited' /\ WorkersOK' /\ Quiet' /\ Nested'
  <2>1. UNCHANGED <<inited, quit, tpc>> /\ inited'[hold'[w]] /\ hold'[w] \in Services
    BY <1>2, <1>3, <1>6 DEF contexts, waiting, feeding
  <2>2. ServedInited' /\ WorkersOK' /\ Quiet'
    BY <1>6, <2>1, OneWorker
  <2> QED
    BY <1>1, <1>2, <1>3, <2>2 DEF Nested, contexts
<1>8. TypeOK' /\ OpsOK'
  <2>1. /\ queue' \in [Services -> Seq(Message)] /\ msg' \in [Workers -> Message]
        /\ left' \in [Workers -> Nat] /\ pc' \in [Workers -> WorkerSteps] /\ failed' = failed
    BY <1>1, <1>2, <1>3, <1>4, <1>5 DEF TypeOK, WorkerSteps
  <2>2. TypeOK'
    BY <1>1, <1>2, <2>1 DEF TypeOK, contexts, waiting, feeding
  <2> QED
    BY <1>1, <1>2, <2>2 DEF OpsOK, Raw, contexts
<1>9. ASSUME NEW r \in Services PROVE Sound(r)'
  <2>1. /\ Carriers(r)' = Carriers(r) /\ Owers(r)' = Owers(r) /\ Deleters(r)' = Deleters(r)
        /\ InQ(r)' = InQ(r) /\ Nexts(r)' = Nexts(r) /\ Held(r)' = Held(r)
    BY <1>2 DEF Carriers, Owers, Deleters, InQ, Nexts, Held
  <2>2. Servers(r)' = Servers(r)
    <3>1. Servers(r)' = Servers(r) - Bit(hold[w] = r /\ pc[w] \in Busy)
                                   + Bit(hold'[w] = r /\ pc'[w] \in Busy)
      BY <1>6, WorkerMoves
    <3>2. Bit(hold'[w] = r /\ pc'[w] \in Busy) = Bit(hold[w] = r /\ pc[w] \in Busy)
      BY <1>2, <1>3, <1>6 DEF Bit
    <3>3. Servers(r) \in Nat /\ Bit(hold[w] = r /\ pc[w] \in Busy) \in {0, 1}
      BY <1>1, NumbersType DEF Bit
    <3> QED
      BY <3>1, <3>2, <3>3
  <2>3. CASE r # s
    <3>1. queue'[r] = queue[r]
      BY <1>1, <1>2, <2>3 DEF TypeOK
    <3> QED
      BY <1>1, <1>2, <2>1, <2>2, <3>1, Untouched DEF contexts
  <2>4. CASE r = s
(* A queue with messages whose context is there says that it is in Q.      *)
    <3>1. inGlobal[r]
      BY <1>1, <1>2, <1>3, <2>4 DEF Sound, Life
    <3>2. Counted(r)' /\ Dying(r)' /\ Launched(r)'
      BY <1>1, <1>2, <2>1, <2>2 DEF Sound, Counted, Dying, Launched, contexts
    <3>3. Life(r)'
      BY <1>1, <1>2, <1>3, <2>4, <3>1 DEF Sound, Life, contexts
    <3>4. Located(r)'
      <4>1. Wanted(r)' = Wanted(r)
        BY <1>2, <1>3, <2>4, <3>1 DEF Wanted
      <4> QED
        BY <1>1, <2>1, <4>1 DEF Sound, Located
    <3> QED
      BY <3>2, <3>3, <3>4 DEF Sound
  <2> QED
    BY <2>3, <2>4
<1> QED
  BY <1>7, <1>8, <1>9 DEF IInv

(* The worker begins to release the context it has served.                 *)
LEMMA Releases ==
    ASSUME IInv, NEW w \in Workers, NEW s \in Services,
           UNCHANGED <<alive, freed, inited>>,
           todo[w] = <<>>, todo' = [todo EXCEPT ![w] = <<Calls("unref", s)>>]
    PROVE  /\ OpsOK' /\ todo' \in [Threads -> Seq(Op)]
           /\ \A r \in Services : /\ Carriers(r)' = Carriers(r) /\ Deleters(r)' = Deleters(r)
                                  /\ Owers(r)' = Owers(r) + Bit(s = r)
<1> DEFINE u == Calls("unref", s)
<1>1. TypeOK /\ OpsOK /\ w \in Threads /\ todo \in [Threads -> Seq(Op)]
  BY WorkerType
<1>2. u \in Op /\ u.op = "unref" /\ u.s = s
  BY Called DEF Ops
<1> HIDE DEF u
<1>3. \A r : /\ Weighs(u, r, Carries) = 0 /\ Weighs(u, r, Owes) = Bit(s = r)
             /\ Weighs(u, r, {"delete"}) = 0
  BY <1>2 DEF Weighs, Carries, Owes, Bit
<1>4. todo' = [todo EXCEPT ![w] = <<u>>]
  BY DEF u
<1>5. \A r \in Services : /\ todo' \in [Threads -> Seq(Op)]
                          /\ Carriers(r)' = Carriers(r) + Weighs(u, r, Carries)
                          /\ Owers(r)' = Owers(r) + Weighs(u, r, Owes)
                          /\ Deleters(r)' = Deleters(r) + Weighs(u, r, {"delete"})
  BY <1>1, <1>2, <1>4, Begun
<1>6. OpsOK'
  <2>1. Fine(<<u>>, Raw', freed')
    BY <1>2, FineOne
  <2>2. \A v \in Threads : Fine(todo[v], Raw', freed')
    BY <1>1 DEF OpsOK, Raw
  <2> QED
    BY <1>1, <1>2, <1>4, <2>1, <2>2, StartsFine
<1>7. \A r \in Services : /\ Carriers(r)' = Carriers(r) + 0 /\ Deleters(r)' = Deleters(r) + 0
                          /\ Owers(r)' = Owers(r) + Bit(s = r)
  BY <1>3, <1>5
<1> QED
  BY <1>1, <1>5, <1>6, <1>7, NumbersType

LEMMA EmptyStep ==
    ASSUME IInv, NEW w \in Workers, Empty(w)
    PROVE  IInv'
<1> DEFINE s == hold[w]
<1>1. /\ TypeOK /\ OpsOK /\ ServedInited /\ WorkersOK /\ Nested /\ Quiet
      /\ \A r \in Services : Sound(r)
      /\ pc \in [Workers -> WorkerSteps] /\ hold \in [Workers -> Services \cup {None}]
      /\ None \notin Services
  BY WorkerType
<1>2. /\ pc[w] \in {"first", "pop"} /\ todo[w] = <<>> /\ queue[s] = <<>>
      /\ inGlobal' = [inGlobal EXCEPT ![s] = FALSE]
      /\ todo' = [todo EXCEPT ![w] = <<Calls("unref", s)>>]
      /\ hold' = [hold EXCEPT ![w] = None] /\ pc' = [pc EXCEPT ![w] = "pick"]
      /\ UNCHANGED <<contexts, queue, release, gone, global, next, msg, left, waiting, feeding, sent,
                     failed>>
  BY DEF Empty, At, Goes
<1>3. pc[w] \in Busy
  BY <1>2 DEF Busy
<1>4. /\ s \in Services /\ s \notin freed /\ s \notin gone /\ s \in created /\ Wanted(s)
      /\ ~release[s]
  BY <1>1, <1>3, Serves DEF Sound, Life
<1>5. /\ OpsOK' /\ todo' \in [Threads -> Seq(Op)]
      /\ \A r \in Services : /\ Carriers(r)' = Carriers(r) /\ Deleters(r)' = Deleters(r)
                             /\ Owers(r)' = Owers(r) + Bit(s = r)
  BY <1>2, <1>4, Releases, ZenonT(60) DEF contexts
<1> HIDE DEF s
<1>6. /\ pc'[w] = "pick" /\ hold'[w] = None /\ next'[w] = None
      /\ \A v \in Workers \ {w} : /\ hold'[v] = hold[v] /\ pc'[v] = pc[v]
                                  /\ next'[v] = next[v] /\ left'[v] = left[v]
  BY <1>1, <1>2 DEF WorkersOK
<1>7. ServedInited' /\ WorkersOK' /\ Quiet' /\ Nested'
  <2>1. UNCHANGED <<inited, quit, tpc>>
    BY <1>2 DEF contexts, waiting, feeding
  <2>2. ServedInited' /\ WorkersOK' /\ Quiet'
    BY <1>6, <2>1, OneWorker DEF Busy
  <2> QED
    BY <1>1, <1>2, <2>2 DEF Nested, contexts
<1>8. TypeOK'
  <2>1. /\ hold' \in [Workers -> Services \cup {None}] /\ pc' \in [Workers -> WorkerSteps]
        /\ inGlobal' \in [Services -> BOOLEAN]
    BY <1>1, <1>2 DEF WorkerSteps, TypeOK
  <2> QED
    BY <1>1, <1>2, <1>5, <2>1 DEF TypeOK, contexts, waiting, feeding
<1>9. ASSUME NEW r \in Services PROVE Sound(r)'
  <2>1. /\ Carriers(r) \in Nat /\ Owers(r) \in Nat /\ Servers(r) \in Nat /\ ref[r] \in Int
        /\ Held(r) \in Nat /\ InQ(r) \in Nat /\ Nexts(r) \in Nat
    BY <1>1, NumbersType
  <2>2. InQ(r)' = InQ(r) /\ Nexts(r)' = Nexts(r)
    BY <1>2 DEF InQ, Nexts
  <2>3. Servers(r)' = Servers(r) - Bit(s = r) /\ Held(r)' = Held(r) - Bit(s = r)
    <3>1. /\ Held(r)' = Held(r) - Bit(hold[w] = r) + Bit(hold'[w] = r)
          /\ Servers(r)' = Servers(r) - Bit(hold[w] = r /\ pc[w] \in Busy)
                                      + Bit(hold'[w] = r /\ pc'[w] \in Busy)
      BY <1>6, WorkerMoves
    <3>2. /\ Bit(hold[w] = r /\ pc[w] \in Busy) = Bit(s = r) /\ Bit(hold[w] = r) = Bit(s = r)
          /\ Bit(hold'[w] = r /\ pc'[w] \in Busy) = 0 /\ Bit(hold'[w] = r) = 0
          /\ Bit(s = r) \in {0, 1}
      BY <1>1, <1>3, <1>6 DEF Bit, s
    <3> QED
      BY <2>1, <3>1, <3>2
  <2>4. CASE r # s
    <3>1. Bit(s = r) = 0 /\ inGlobal'[r] = inGlobal[r]
      BY <1>1, <1>2, <2>4 DEF Bit, TypeOK
    <3>2. Servers(r)' = Servers(r) /\ Held(r)' = Held(r) /\ Owers(r)' = Owers(r)
      BY <1>5, <2>1, <2>3, <3>1
    <3> QED
      BY <1>1, <1>2, <1>5, <2>2, <3>1, <3>2, Untouched DEF contexts
  <2>5. CASE r = s
    <3>1. Bit(s = r) = 1 /\ ~inGlobal'[r]
      BY <1>1, <1>2, <1>4, <2>5 DEF Bit, TypeOK
    <3>2. Counted(r)'
      <4>1. Servers(r)' = Servers(r) - 1 /\ Owers(r)' = Owers(r) + 1
        BY <1>5, <2>3, <3>1
      <4>2. ref'[r] = ref[r] /\ alive' = alive /\ Bit(r \in alive) \in {0, 1}
        BY <1>2 DEF contexts, Bit
      <4> QED
        BY <1>1, <2>1, <4>1, <4>2 DEF Sound, Counted
    <3>3. Dying(r)' /\ Launched(r)'
      BY <1>1, <1>2, <1>5 DEF Sound, Dying, Launched, contexts
    <3>4. Life(r)'
      BY <1>1, <1>2, <1>4, <2>5, <3>1 DEF Sound, Life, contexts
    <3>5. Located(r)'
      <4>1. Bit(Wanted(r)) = 1 /\ Bit(Wanted(r)') = 0
        BY <1>2, <1>4, <2>5, <3>1 DEF Wanted, Bit
      <4>2. InQ(r) + Held(r) + Nexts(r) + Carriers(r) = 1
        BY <1>1, <4>1 DEF Sound, Located
      <4>3. InQ(r)' + Held(r)' + Nexts(r)' + Carriers(r)' = 0
        <5>1. Held(r)' = Held(r) - 1 /\ Carriers(r)' = Carriers(r)
          BY <1>5, <2>3, <3>1
        <5> QED
          BY <2>1, <2>2, <4>2, <5>1
      <4> QED
        BY <4>1, <4>3 DEF Located
    <3> QED
      BY <3>2, <3>3, <3>4, <3>5 DEF Sound
  <2> QED
    BY <2>4, <2>5
<1> QED
  BY <1>5, <1>7, <1>8, <1>9 DEF IInv

LEMMA TurnStep ==
    ASSUME IInv, NEW w \in Workers, Turn(w)
    PROVE  IInv'
<1> DEFINE s == hold[w]
<1>1. /\ TypeOK /\ OpsOK /\ ServedInited /\ WorkersOK /\ Nested /\ Quiet
      /\ \A r \in Services : Sound(r)
      /\ pc \in [Workers -> WorkerSteps] /\ hold \in [Workers -> Services \cup {None}]
      /\ next \in [Workers -> Services \cup {None}] /\ None \notin Services
  BY WorkerType
<1>2. /\ pc[w] = "turn" /\ todo[w] = <<>>
      /\ UNCHANGED <<contexts, queue, inGlobal, release, gone, hold, msg, left, waiting, feeding,
                     sent, failed>>
  BY DEF Turn, At
<1>3. pc[w] \in Busy
  BY <1>2 DEF Busy
<1>4. s \in Services /\ inited[s]
  BY <1>3, Serves
<1>5. next[w] = None /\ Nested' /\ UNCHANGED <<inited, quit, tpc>>
  BY <1>1, <1>2 DEF WorkersOK, Nested, contexts, waiting, feeding
<1> HIDE DEF s
<1>6. CASE global = <<>>
  <2>1. /\ todo' = [todo EXCEPT ![w] = <<Calls("unref", s)>>] /\ pc' = [pc EXCEPT ![w] = "next"]
        /\ UNCHANGED <<next, global>>
    BY <1>6 DEF Turn, Goes, s
  <2>2. /\ OpsOK' /\ todo' \in [Threads -> Seq(Op)]
        /\ \A r \in Services : /\ Carriers(r)' = Carriers(r) /\ Deleters(r)' = Deleters(r)
                               /\ Owers(r)' = Owers(r) + Bit(s = r)
    BY <1>2, <1>4, <2>1, Releases DEF contexts
  <2>3. /\ pc'[w] = "next" /\ hold'[w] = s /\ next'[w] = None
        /\ \A v \in Workers \ {w} : /\ hold'[v] = hold[v] /\ pc'[v] = pc[v]
                                    /\ next'[v] = next[v] /\ left'[v] = left[v]
    BY <1>1, <1>2, <1>5, <2>1 DEF s
  <2>4. ServedInited' /\ WorkersOK' /\ Quiet'
    BY <1>5, <2>3, OneWorker DEF Busy
  <2>5. TypeOK'
    <3>1. pc' \in [Workers -> WorkerSteps]
      BY <1>1, <2>1 DEF WorkerSteps
    <3> QED
      BY <1>1, <1>2, <2>1, <2>2, <3>1 DEF TypeOK, contexts, waiting, feeding
  <2>6. ASSUME NEW r \in Services PROVE Sound(r)'
    <3>1. Owers(r) \in Nat /\ Servers(r) \in Nat /\ Held(r) \in Nat /\ ref[r] \in Int
      BY <1>1, NumbersType
    <3>2. InQ(r)' = InQ(r) /\ Nexts(r)' = Nexts(r) /\ Held(r)' = Held(r)
      BY <1>2, <2>1 DEF InQ, Nexts, Held
    <3>3. Servers(r)' = Servers(r) - Bit(s = r)
      <4>1. Servers(r)' = Servers(r) - Bit(hold[w] = r /\ pc[w] \in Busy)
                                     + Bit(hold'[w] = r /\ pc'[w] \in Busy)
        BY <2>3, WorkerMoves
      <4>2. /\ Bit(hold[w] = r /\ pc[w] \in Busy) = Bit(s = r)
            /\ Bit(hold'[w] = r /\ pc'[w] \in Busy) = 0 /\ Bit(s = r) \in {0, 1}
        BY <1>3, <2>3 DEF Bit, Busy, s
      <4> QED
        BY <3>1, <4>1, <4>2
    <3>4. Counted(r)'
      <4>1. Servers(r)' + Owers(r)' = Servers(r) + Owers(r)
        BY <2>2, <3>1, <3>3 DEF Bit
      <4>2. Servers(r)' \in Int /\ Owers(r)' \in Int /\ Bit(r \in alive) \in {0, 1}
        BY <2>2, <3>1, <3>3 DEF Bit
      <4>3. ref'[r] = ref[r] /\ alive' = alive
        BY <1>2 DEF contexts
      <4> QED
        BY <1>1, <3>1, <4>1, <4>2, <4>3 DEF Sound, Counted
    <3>5. Located(r)' /\ Dying(r)' /\ Life(r)' /\ Launched(r)'
      BY <1>1, <1>2, <2>2, <3>2 DEF Sound, Located, Wanted, Dying, Life, Launched, contexts
    <3> QED
      BY <3>4, <3>5 DEF Sound
  <2> QED
    BY <1>5, <2>2, <2>4, <2>5, <2>6 DEF IInv
<1>7. CASE global # <<>>
  <2>1. /\ next' = [next EXCEPT ![w] = Head(global)] /\ global' = Tail(global)
        /\ pc' = [pc EXCEPT ![w] = "requeue"] /\ UNCHANGED todo
    BY <1>7 DEF Turn, Goes
  <2>2. Head(global) \in Services /\ global' \in Seq(Services)
    <3>1. global \in Seq(Services)
      BY <1>1 DEF TypeOK
    <3> QED
      BY <1>7, <2>1, <3>1
  <2>3. /\ pc'[w] = "requeue" /\ hold'[w] = s /\ next'[w] = Head(global) /\ "requeue" \in Busy
        /\ \A v \in Workers \ {w} : /\ hold'[v] = hold[v] /\ pc'[v] = pc[v]
                                    /\ next'[v] = next[v] /\ left'[v] = left[v]
    BY <1>1, <1>2, <2>1 DEF s, Busy
  <2>4. ServedInited' /\ WorkersOK' /\ Quiet'
    BY <1>1, <1>4, <1>5, <2>2, <2>3, OneWorker
  <2>5. TypeOK' /\ OpsOK'
    <3>1. pc' \in [Workers -> WorkerSteps] /\ next' \in [Workers -> Services \cup {None}]
      BY <1>1, <2>1, <2>2 DEF WorkerSteps
    <3>2. TypeOK'
      BY <1>1, <1>2, <2>1, <2>2, <3>1 DEF TypeOK, contexts, waiting, feeding
    <3> QED
      BY <1>1, <1>2, <2>1, <3>2 DEF OpsOK, Raw, contexts
  <2>6. ASSUME NEW r \in Services PROVE Sound(r)'
    <3>1. InQ(r) \in Nat /\ Servers(r) \in Nat /\ Held(r) \in Nat /\ Nexts(r) \in Nat
      BY <1>1, NumbersType
    <3>2. /\ Carriers(r)' = Carriers(r) /\ Owers(r)' = Owers(r) /\ Deleters(r)' = Deleters(r)
          /\ Held(r)' = Held(r)
      BY <1>2, <2>1 DEF Carriers, Owers, Deleters, Held
    <3>3. Servers(r)' = Servers(r)
      <4>1. Servers(r)' = Servers(r) - Bit(hold[w] = r /\ pc[w] \in Busy)
                                     + Bit(hold'[w] = r /\ pc'[w] \in Busy)
        BY <2>3, WorkerMoves
      <4>2. /\ Bit(hold[w] = r /\ pc[w] \in Busy) = Bit(s = r)
            /\ Bit(hold'[w] = r /\ pc'[w] \in Busy) = Bit(s = r) /\ Bit(s = r) \in {0, 1}
        BY <1>3, <2>3 DEF Bit, s
      <4> QED
        BY <3>1, <4>1, <4>2
    <3>4. InQ(r)' + Held(r)' + Nexts(r)' = InQ(r) + Held(r) + Nexts(r)
      <4>1. InQ(r)' = InQ(r) - Bit(Head(global) = r)
        BY <1>1, <1>7, <2>1, Popped
      <4>2. Nexts(r)' = Nexts(r) - Bit(next[w] = r) + Bit(next'[w] = r)
        BY <2>3, NextMoves
      <4>3. Bit(next[w] = r) = 0 /\ Bit(Head(global) = r) \in {0, 1}
        BY <1>1, <1>5 DEF Bit
      <4> QED
        BY <2>3, <3>1, <3>2, <4>1, <4>2, <4>3
    <3> QED
      BY <1>1, <1>2, <3>2, <3>3, <3>4, Untouched DEF contexts
  <2> QED
    BY <1>5, <2>4, <2>5, <2>6 DEF IInv
<1> QED
  BY <1>6, <1>7

LEMMA RequeueStep ==
    ASSUME IInv, NEW w \in Workers, Requeue(w)
    PROVE  IInv'
<1> DEFINE s == hold[w]
           n == next[w]
<1>1. /\ TypeOK /\ OpsOK /\ ServedInited /\ WorkersOK /\ Nested /\ Quiet
      /\ \A r \in Services : Sound(r)
      /\ pc \in [Workers -> WorkerSteps] /\ hold \in [Workers -> Services \cup {None}]
      /\ next \in [Workers -> Services \cup {None}] /\ None \notin Services
  BY WorkerType
<1>2. /\ pc[w] = "requeue" /\ todo[w] = <<>> /\ GlobalPush(s)
      /\ todo' = [todo EXCEPT ![w] = <<Calls("unref", s)>>]
      /\ hold' = [hold EXCEPT ![w] = n] /\ next' = [next EXCEPT ![w] = None]
      /\ pc' = [pc EXCEPT ![w] = "next"]
      /\ UNCHANGED <<contexts, queue, inGlobal, release, gone, msg, left, waiting, feeding, sent,
                     failed>>
  BY DEF Requeue, At, Goes
<1>3. pc[w] \in Busy
  BY <1>2 DEF Busy
<1>4. s \in Services /\ n \in Services
  BY <1>1, <1>2, <1>3, Serves DEF WorkersOK
<1>5. /\ OpsOK' /\ todo' \in [Threads -> Seq(Op)]
      /\ \A r \in Services : /\ Carriers(r)' = Carriers(r) /\ Deleters(r)' = Deleters(r)
                             /\ Owers(r)' = Owers(r) + Bit(s = r)
  BY <1>2, <1>4, Releases, ZenonT(60) DEF contexts
<1>6. Nested' /\ UNCHANGED <<inited, quit, tpc>>
  BY <1>1, <1>2 DEF Nested, contexts, waiting, feeding
<1>7. \A r \in Services : InQ(r)' = InQ(r) + Bit(s = r) /\ global' \in Seq(Services)
  BY <1>1, <1>2, <1>4, Pushed
<1> HIDE DEF s, n
<1>8. /\ pc'[w] = "next" /\ hold'[w] = n /\ next'[w] = None
      /\ \A v \in Workers \ {w} : /\ hold'[v] = hold[v] /\ pc'[v] = pc[v]
                                  /\ next'[v] = next[v] /\ left'[v] = left[v]
  BY <1>1, <1>2
<1>9. ServedInited' /\ WorkersOK' /\ Quiet'
  BY <1>6, <1>8, OneWorker DEF Busy
<1>10. TypeOK'
  <2>1. /\ hold' \in [Workers -> Services \cup {None}] /\ pc' \in [Workers -> WorkerSteps]
        /\ next' \in [Workers -> Services \cup {None}] /\ global' \in Seq(Services)
    BY <1>1, <1>2, <1>4, <1>7 DEF WorkerSteps
  <2> QED
    BY <1>1, <1>2, <1>5, <2>1 DEF TypeOK, contexts, waiting, feeding
<1>11. ASSUME NEW r \in Services PROVE Sound(r)'
  <2>1. /\ Carriers(r) \in Nat /\ Owers(r) \in Nat /\ Servers(r) \in Nat /\ ref[r] \in Int
        /\ Held(r) \in Nat /\ InQ(r) \in Nat /\ Nexts(r) \in Nat
        /\ Bit(s = r) \in {0, 1} /\ Bit(n = r) \in {0, 1}
    BY <1>1, NumbersType DEF Bit
  <2>2. Servers(r)' = Servers(r) - Bit(s = r) /\ Held(r)' = Held(r) - Bit(s = r) + Bit(n = r)
    <3>1. /\ Held(r)' = Held(r) - Bit(hold[w] = r) + Bit(hold'[w] = r)
          /\ Servers(r)' = Servers(r) - Bit(hold[w] = r /\ pc[w] \in Busy)
                                      + Bit(hold'[w] = r /\ pc'[w] \in Busy)
      BY <1>8, WorkerMoves
    <3>2. /\ Bit(hold[w] = r /\ pc[w] \in Busy) = Bit(s = r) /\ Bit(hold[w] = r) = Bit(s = r)
          /\ Bit(hold'[w] = r /\ pc'[w] \in Busy) = 0 /\ Bit(hold'[w] = r) = Bit(n = r)
      BY <1>3, <1>8 DEF Bit, Busy, s
    <3> QED
      BY <2>1, <3>1, <3>2
  <2>3. Nexts(r)' = Nexts(r) - Bit(n = r)
    <3>1. Nexts(r)' = Nexts(r) - Bit(next[w] = r) + Bit(next'[w] = r)
      BY <1>8, NextMoves
    <3>2. Bit(next[w] = r) = Bit(n = r) /\ Bit(next'[w] = r) = 0
      BY <1>1, <1>8 DEF Bit, n
    <3> QED
      BY <2>1, <3>1, <3>2
  <2>4. InQ(r)' + Held(r)' + Nexts(r)' + Carriers(r)' = InQ(r) + Held(r) + Nexts(r) + Carriers(r)
    <3>1. InQ(r)' = InQ(r) + Bit(s = r) /\ Carriers(r)' = Carriers(r)
      BY <1>5, <1>7
    <3> QED
      BY <2>1, <2>2, <2>3, <3>1
  <2>5. Counted(r)'
    <3>1. Owers(r)' = Owers(r) + Bit(s = r)
      BY <1>5
    <3>2. Servers(r)' + Owers(r)' = Servers(r) + Owers(r) /\ Servers(r)' \in Int /\ Owers(r)' \in Int
      BY <2>1, <2>2, <3>1
    <3>3. ref'[r] = ref[r] /\ alive' = alive /\ Bit(r \in alive) \in {0, 1}
      BY <1>2 DEF contexts, Bit
    <3> QED
      BY <1>1, <2>1, <3>2, <3>3 DEF Sound, Counted
  <2>6. Located(r)' /\ Dying(r)' /\ Life(r)' /\ Launched(r)'
    BY <1>1, <1>2, <1>5, <2>4 DEF Sound, Located, Wanted, Dying, Life, Launched, contexts
  <2> QED
    BY <2>5, <2>6 DEF Sound
<1> QED
  BY <1>5, <1>6, <1>9, <1>10, <1>11 DEF IInv

-----------------------------------------------------------------------------
(* What a callback does.                                                   *)
LEMMA HandlerSendsStep ==
    ASSUME IInv, NEW w \in Workers, NEW s \in Services, HandlerSends(w, s)
    PROVE  IInv'
<1> DEFINE m == [from |-> hold[w], id |-> sent']
<1>1. /\ todo[w] = <<>> /\ pc[w] = "call" /\ sent < MaxMessages /\ sent' = sent + 1
      /\ todo' = [todo EXCEPT ![w] = <<Sends(s, m)>>]
      /\ UNCHANGED <<contexts, queues, working, waiting, feeding, failed>>
  BY DEF HandlerSends, At
<1>2. TypeOK /\ w \in Threads /\ hold \in [Workers -> Services \cup {None}]
  BY WorkerType
<1>3. sent' \in 0..MaxMessages
  BY <1>1, <1>2, BoundsAssumption DEF TypeOK
<1>4. m \in Message
  BY <1>2, <1>3 DEF Message
<1> HIDE DEF m
<1> QED
  BY <1>1, <1>2, <1>3, <1>4, SendBegins

LEMMA HandlerCallsStep ==
    ASSUME IInv, NEW w \in Workers,
           HandlerAborts(w) \/ \E s \in Services : HandlerKills(w, s)
    PROVE  IInv'
<1>1. TypeOK /\ w \in Threads
  BY WorkerType
<1>2. PICK s \in Services, op \in {"retire", "abort"} :
        todo[w] = <<>> /\ todo' = [todo EXCEPT ![w] = <<Calls(op, s)>>]
  <2>1. CASE HandlerAborts(w)
    <3>1. pc[w] = "call" /\ todo[w] = <<>> /\ todo' = [todo EXCEPT ![w] = <<Calls("abort", hold[w])>>]
      BY <2>1 DEF HandlerAborts, At
    <3>2. hold[w] \in Services
      BY <3>1, Serves DEF Busy
    <3> QED
      BY <3>1, <3>2
  <2>2. CASE \E s \in Services : HandlerKills(w, s)
    BY <2>2 DEF HandlerKills, At
  <2> QED
    BY <2>1, <2>2
<1> DEFINE b == Calls(op, s)
<1>3. b \in Op /\ b.op = op
  BY Called DEF Ops
<1>4. /\ UNCHANGED <<contexts, queues, working, waiting, feeding, failed>>
      /\ sent' \in 0..MaxMessages
  BY <1>1 DEF HandlerAborts, HandlerKills, TypeOK
<1>5. todo' = [todo EXCEPT ![w] = <<b>>] /\ b.op \in {"grab", "retire", "abort"}
  BY <1>2, <1>3
<1> HIDE DEF b
<1> QED
  BY <1>1, <1>2, <1>3, <1>4, <1>5, SmallBegins

LEMMA HandlerLaunchesStep ==
    ASSUME IInv, NEW w \in Workers, NEW s \in Services, HandlerLaunches(w, s)
    PROVE  IInv'
<1> DEFINE b == Calls("init", s)
<1>1. /\ todo[w] = <<>> /\ s \notin created
      /\ created' = created \cup {s} /\ alive' = alive \cup {s}
      /\ ref' = [ref EXCEPT ![s] = 2] /\ inGlobal' = [inGlobal EXCEPT ![s] = TRUE]
      /\ todo' = [todo EXCEPT ![w] = <<b>>]
      /\ UNCHANGED <<freed, inited, queue, release, gone, global, working, waiting, feeding, sent,
                     failed>>
  BY DEF HandlerLaunches, At
<1>2. /\ TypeOK /\ OpsOK /\ Nested /\ \A r \in Services : Sound(r)
      /\ w \in Threads /\ todo \in [Threads -> Seq(Op)]
  BY WorkerType
<1>3. b \in Op /\ b.op = "init" /\ b.s = s
  BY Called DEF Ops
<1> HIDE DEF b
<1>4. \A r : /\ Weighs(b, r, Carries) = Bit(s = r) /\ Weighs(b, r, Owes) = Bit(s = r)
             /\ Weighs(b, r, {"delete"}) = 0
  BY <1>3 DEF Weighs, Carries, Owes, Bit
<1>5. \A r \in Services : /\ todo' \in [Threads -> Seq(Op)]
                          /\ Carriers(r)' = Carriers(r) + Weighs(b, r, Carries)
                          /\ Owers(r)' = Owers(r) + Weighs(b, r, Owes)
                          /\ Deleters(r)' = Deleters(r) + Weighs(b, r, {"delete"})
  BY <1>1, <1>2, <1>3, Begun
<1>6. /\ ServedInited' /\ WorkersOK' /\ Quiet' /\ Nested'
      /\ \A r \in Services : /\ Servers(r)' = Servers(r) /\ Held(r)' = Held(r)
                             /\ Nexts(r)' = Nexts(r) /\ InQ(r)' = InQ(r)
  BY <1>1, <1>2, WorkersStay, QueueStays DEF Nested
(* What was not created is nowhere, and has no references.                 *)
<1>7. /\ s \notin alive /\ s \notin freed /\ s \notin gone /\ ~release[s]
      /\ Carriers(s) = 0 /\ Owers(s) = 0 /\ Servers(s) = 0 /\ Deleters(s) = 0
      /\ InQ(s) = 0 /\ Held(s) = 0 /\ Nexts(s) = 0 /\ queue[s] = <<>>
  <2>1. s \notin alive /\ s \notin freed /\ s \notin gone
    BY <1>1, <1>2 DEF TypeOK
  <2>2. /\ ~release[s] /\ ref[s] = 0 /\ queue[s] = <<>> /\ ~inGlobal[s] /\ Deleters(s) = 0
    BY <1>1, <1>2, <2>1 DEF Sound, Life, Dying, Bit
  <2>3. /\ Carriers(s) \in Nat /\ Owers(s) \in Nat /\ Servers(s) \in Nat
        /\ InQ(s) \in Nat /\ Held(s) \in Nat /\ Nexts(s) \in Nat
    BY <1>2, NumbersType
  <2>4. 0 = 0 + Servers(s) + Owers(s)
    BY <1>2, <2>1, <2>2 DEF Sound, Counted, Bit
  <2>5. InQ(s) + Held(s) + Nexts(s) + Carriers(s) = 0
    BY <1>2, <2>2 DEF Sound, Located, Wanted, Bit
  <2>6. Servers(s) = 0 /\ Owers(s) = 0
    BY <2>3, <2>4
  <2>7. Carriers(s) = 0 /\ InQ(s) = 0 /\ Held(s) = 0 /\ Nexts(s) = 0
    <3>1. \A i, j, k, l \in Nat : i + j + k + l = 0 => i = 0 /\ j = 0 /\ k = 0 /\ l = 0
      OBVIOUS
    <3> QED
      BY <2>3, <2>5, <3>1
  <2> QED
    BY <2>1, <2>2, <2>6, <2>7
<1>8. TypeOK'
  <2>1. /\ created' \in SUBSET Services /\ alive' \in SUBSET created' /\ freed' \in SUBSET created'
        /\ gone' \in SUBSET created' /\ ref' \in [Services -> Int]
        /\ inGlobal' \in [Services -> BOOLEAN]
    BY <1>1, <1>2 DEF TypeOK
  <2> QED
    BY <1>1, <1>2, <1>5, <2>1 DEF TypeOK, working, waiting, feeding
<1>9. OpsOK'
  <2>1. ASSUME NEW v \in Threads PROVE Fine(todo[v], Raw', freed')
    <3>1. todo[v] \in Seq(Op) /\ Fine(todo[v], Raw, freed)
      BY <1>2 DEF OpsOK
    <3>2. ASSUME NEW n \in DOMAIN todo[v], todo[v][n].op \in {"publish", "giveup"},
                 todo[v][n].s \in Raw'
          PROVE  todo[v][n].s \in Raw
      <4>1. Carriers(todo[v][n].s) >= 1
        BY <1>2, <3>2, Under DEF Carries
      <4> QED
        BY <1>1, <1>7, <3>2, <4>1 DEF Raw
    <3> QED
      BY <1>1, <3>1, <3>2, FineLater
  <2>2. Fine(<<b>>, Raw', freed')
    BY <1>3, FineOne
  <2> QED
    BY <1>1, <1>2, <1>3, <2>1, <2>2, StartsFine
<1>10. ASSUME NEW r \in Services PROVE Sound(r)'
  <2>1. /\ Carriers(r) \in Nat /\ Owers(r) \in Nat /\ Deleters(r) \in Nat
    BY <1>2, NumbersType
  <2>2. /\ Carriers(r)' = Carriers(r) + Bit(s = r) /\ Owers(r)' = Owers(r) + Bit(s = r)
        /\ Deleters(r)' = Deleters(r)
    BY <1>4, <1>5, <2>1
  <2>3. CASE r # s
    <3>1. /\ ref'[r] = ref[r] /\ inGlobal'[r] = inGlobal[r] /\ Bit(s = r) = 0
          /\ (r \in alive' <=> r \in alive) /\ (r \in created' <=> r \in created)
      BY <1>1, <1>2, <2>3 DEF TypeOK, Bit
    <3>2. Carriers(r)' = Carriers(r) /\ Owers(r)' = Owers(r)
      BY <2>1, <2>2, <3>1
    <3> QED
      BY <1>1, <1>2, <1>6, <2>2, <3>1, <3>2, Untouched
  <2>4. CASE r = s
    <3>1. /\ ref'[r] = 2 /\ inGlobal'[r] /\ Bit(s = r) = 1 /\ r \in alive' /\ r \in created'
          /\ Bit(r \in alive') = 1
      BY <1>1, <1>2, <2>4 DEF TypeOK, Bit
    <3>2. Carriers(r)' = 1 /\ Owers(r)' = 1 /\ Deleters(r)' = 0
      BY <1>7, <2>2, <2>4, <3>1
    <3>3. Counted(r)' /\ Dying(r)' /\ Launched(r)'
      BY <1>6, <1>7, <2>4, <3>1, <3>2 DEF Counted, Dying, Launched, Bit
    <3>4. Life(r)'
      BY <1>1, <1>7, <2>4, <3>1 DEF Life
    <3>5. Located(r)'
      BY <1>1, <1>6, <1>7, <2>4, <3>1, <3>2 DEF Located, Wanted, Bit
    <3> QED
      BY <3>3, <3>4, <3>5 DEF Sound
  <2> QED
    BY <2>3, <2>4
<1> QED
  BY <1>6, <1>8, <1>9, <1>10 DEF IInv

-----------------------------------------------------------------------------
(* thread_timer and thread_socket.                                         *)
LEMMA FeedsStep ==
    ASSUME IInv, NEW s \in Services, TimerSends(s) \/ SocketSends(s)
    PROVE  IInv'
<1> DEFINE m == [from |-> None, id |-> sent']
<1>1. TypeOK /\ OpsOK /\ Nested /\ Quiet /\ ServedInited /\ WorkersOK
  BY DEF IInv
<1>2. PICK t \in {TimerThread, SocketThread} :
        /\ todo[t] = <<>> /\ sent < MaxMessages /\ sent' = sent + 1
        /\ todo' = [todo EXCEPT ![t] = <<Sends(s, m)>>]
        /\ UNCHANGED <<contexts, queues, working, waiting, tpc, idle, failed>>
        /\ due' \in BOOLEAN /\ spc' \in {"poll", "wake"}
  BY <1>1 DEF TimerSends, SocketSends, TypeOK
<1>3. t \in Threads
  BY DEF Threads
<1>4. sent' \in 0..MaxMessages
  BY <1>1, <1>2, BoundsAssumption DEF TypeOK
<1>5. m \in Message
  BY <1>4 DEF Message
<1> HIDE DEF m
<1> DEFINE b == Sends(s, m)
<1>6. b \in Op /\ b.op = "grab"
  BY <1>5, Sent
<1> HIDE DEF b
<1>7. todo' = [todo EXCEPT ![t] = <<b>>] /\ todo \in [Threads -> Seq(Op)] /\ todo[t] \in Seq(Op)
  BY <1>1, <1>2, <1>3 DEF b, TypeOK
<1>8. \A r : Weighs(b, r, Carries) = 0 /\ Weighs(b, r, Owes) = 0 /\ Weighs(b, r, {"delete"}) = 0
  BY <1>6 DEF Weighs, Carries, Owes, Bit
<1>9. \A r \in Services : /\ todo' \in [Threads -> Seq(Op)]
                          /\ Carriers(r)' = Carriers(r) + Weighs(b, r, Carries)
                          /\ Owers(r)' = Owers(r) + Weighs(b, r, Owes)
                          /\ Deleters(r)' = Deleters(r) + Weighs(b, r, {"delete"})
  BY <1>1, <1>2, <1>3, <1>6, <1>7, Begun
<1>10. todo' \in [Threads -> Seq(Op)]
  BY <1>9
<1>11. TypeOK'
  BY <1>1, <1>2, <1>4, <1>10 DEF TypeOK, contexts, queues, working, waiting
<1>12. OpsOK'
  <2>1. Fine(<<b>>, Raw', freed')
    BY <1>6, FineOne
  <2>2. \A u \in Threads : Fine(todo[u], Raw', freed')
    BY <1>1, <1>2 DEF OpsOK, Raw, contexts
  <2> QED
    BY <1>1, <1>3, <1>6, <1>7, <2>1, <2>2, StartsFine
<1>13. ServedInited' /\ WorkersOK' /\ Quiet' /\ Nested'
  BY <1>1, <1>2 DEF ServedInited, WorkersOK, Quiet, Nested, working, waiting, contexts, queues
<1>14. ASSUME NEW r \in Services PROVE Sound(r)'
  <2>1. Carriers(r) \in Nat /\ Owers(r) \in Nat /\ Deleters(r) \in Nat /\ Sound(r)
    BY <1>1, NumbersType DEF IInv
  <2>2. Carriers(r)' = Carriers(r) + 0 /\ Owers(r)' = Owers(r) + 0 /\ Deleters(r)' = Deleters(r) + 0
    BY <1>8, <1>9
  <2>3. Carriers(r)' = Carriers(r) /\ Owers(r)' = Owers(r) /\ Deleters(r)' = Deleters(r)
    BY <2>1, <2>2
  <2>4. /\ Servers(r)' = Servers(r) /\ Held(r)' = Held(r) /\ Nexts(r)' = Nexts(r)
        /\ InQ(r)' = InQ(r)
    BY <1>2 DEF Servers, Held, Nexts, InQ, working, queues
  <2> QED
    BY <1>2, <2>1, <2>3, <2>4, Untouched DEF contexts, queues
<1> QED
  BY <1>11, <1>12, <1>13, <1>14 DEF IInv

(* The two wake sleeping workers at most.                                  *)
LEMMA WakesStep ==
    ASSUME IInv, UNCHANGED <<contexts, queues, hold, next, msg, left, todo, sleepers, mutex, failed,
                             sent>>,
           pc' \in [Workers -> WorkerSteps],
           \A w \in Workers : pc'[w] = pc[w] \/ (pc[w] = "asleep" /\ pc'[w] = "waking"),
           Quiet', quit' \in BOOLEAN, tpc' \in {"update", "check", "leave", "over"},
           idle' \in 0..(IdleLoops - 1), due' \in BOOLEAN, spc' \in {"poll", "wake"}
    PROVE  IInv'
<1>1. TypeOK /\ OpsOK /\ Nested /\ ServedInited /\ WorkersOK /\ \A r \in Services : Sound(r)
  BY DEF IInv
<1>2. TypeOK'
  BY <1>1 DEF TypeOK, contexts, queues
<1>3. OpsOK' /\ Nested'
  BY <1>1 DEF OpsOK, Raw, Nested, contexts, queues
<1>4. \A w \in Workers : (pc'[w] \in Busy <=> pc[w] \in Busy)
  BY DEF Busy
<1>5. ServedInited'
  BY <1>1, <1>4 DEF ServedInited, contexts
<1>6. WorkersOK'
  <2> SUFFICES ASSUME NEW w \in Workers
               PROVE  /\ pc'[w] \in {"pick", "drowsy", "doze", "asleep", "waking"} => hold'[w] = None
                      /\ pc'[w] \in Busy \cup {"grab"} => hold'[w] \in Services
                      /\ pc'[w] = "requeue" <=> next'[w] # None
                      /\ pc'[w] = "pop" => left'[w] > 0
    BY DEF WorkersOK
  <2>1. CASE pc'[w] = pc[w]
    BY <1>1, <2>1 DEF WorkersOK
  <2>2. CASE pc[w] = "asleep" /\ pc'[w] = "waking"
    <3>1. hold[w] = None /\ next[w] = None
      BY <1>1, <2>2 DEF WorkersOK
    <3> QED
      BY <2>2, <3>1 DEF Busy
  <2> QED
    BY <2>1, <2>2
<1>7. ASSUME NEW r \in Services PROVE Sound(r)'
  <2>1. Serving(hold, pc, r) = Serving(hold', pc', r)
    BY <1>4 DEF Serving
  <2>2. /\ Servers(r)' = Servers(r) /\ Held(r)' = Held(r) /\ Nexts(r)' = Nexts(r)
        /\ InQ(r)' = InQ(r) /\ Carriers(r)' = Carriers(r) /\ Owers(r)' = Owers(r)
        /\ Deleters(r)' = Deleters(r)
    BY <2>1 DEF Servers, Held, Nexts, InQ, Carriers, Owers, Deleters, queues
  <2> QED
    BY <1>1, <2>2, Untouched DEF contexts, queues
<1> QED
  BY <1>2, <1>3, <1>5, <1>6, <1>7 DEF IInv

LEMMA WakeOneMoves ==
    ASSUME TypeOK, NEW n, WakeOne(n)
    PROVE  /\ pc' \in [Workers -> WorkerSteps]
           /\ \A w \in Workers : pc'[w] = pc[w] \/ (pc[w] = "asleep" /\ pc'[w] = "waking")
<1>1. pc \in [Workers -> WorkerSteps]
  BY DEF TypeOK
<1>2. CASE UNCHANGED pc
  BY <1>1, <1>2
<1>3. CASE \E w \in Workers : pc[w] = "asleep" /\ Goes(w, "waking")
  BY <1>1, <1>3 DEF Goes, WorkerSteps
<1> QED
  BY <1>2, <1>3 DEF WakeOne

LEMMA TimerSteps ==
    ASSUME IInv, TimerUpdated \/ TimerChecks \/ TimerLeaves \/ SocketWakes
    PROVE  IInv'
<1>1. TypeOK /\ Quiet /\ pc \in [Workers -> WorkerSteps]
  BY DEF IInv, TypeOK
<1>2. /\ UNCHANGED <<contexts, queues, hold, next, msg, left, todo, sleepers, mutex, failed, sent>>
      /\ tpc' \in {"update", "check", "leave", "over"} /\ quit' \in BOOLEAN
      /\ due' \in BOOLEAN /\ spc' \in {"poll", "wake"}
  BY <1>1 DEF TimerUpdated, TimerChecks, TimerLeaves, SocketWakes, TypeOK, working, waiting
<1>3. idle' \in 0..(IdleLoops - 1)
  <2>1. idle \in 0..(IdleLoops - 1) /\ IdleLoops \in Nat \ {0}
    BY <1>1, BoundsAssumption DEF TypeOK
  <2>2. CASE TimerChecks
    BY <2>1, <2>2 DEF TimerChecks
  <2>3. CASE TimerUpdated \/ TimerLeaves \/ SocketWakes
    BY <2>1, <2>3 DEF TimerUpdated, TimerLeaves, SocketWakes
  <2> QED
    BY <2>2, <2>3
<1>4. /\ pc' \in [Workers -> WorkerSteps]
      /\ \A w \in Workers : pc'[w] = pc[w] \/ (pc[w] = "asleep" /\ pc'[w] = "waking")
  <2>1. UNCHANGED pc \/ WakeOne(1) \/ WakeOne(Cardinality(Workers)) \/ TimerLeaves
    BY DEF TimerUpdated, TimerChecks, SocketWakes, working
  <2>2. CASE TimerLeaves
    <3>1. pc' = [w \in Workers |-> IF pc[w] = "asleep" THEN "waking" ELSE pc[w]]
      BY <2>2 DEF TimerLeaves
    <3>2. \A w \in Workers : pc[w] \in WorkerSteps /\ "waking" \in WorkerSteps
      BY <1>1 DEF WorkerSteps
    <3> QED
      BY <3>1, <3>2
  <2> QED
    BY <1>1, <2>1, <2>2, WakeOneMoves
<1>5. Quiet'
  <2>1. CASE TimerLeaves
    BY <1>1, <2>1 DEF TimerLeaves, Quiet
  <2>2. CASE TimerUpdated \/ TimerChecks \/ SocketWakes
    <3>1. quit' = quit /\ (tpc' = "over" => tpc = "over")
      BY <2>2 DEF TimerUpdated, TimerChecks, SocketWakes, waiting
    <3> QED
      BY <1>1, <1>4, <3>1 DEF Quiet
  <2> QED
    BY <2>1, <2>2
<1> QED
  BY <1>2, <1>3, <1>4, <1>5, WakesStep

-----------------------------------------------------------------------------
(* The invariant.                                                          *)
LEMMA NothingToDo ==
    ASSUME todo = [t \in Threads |-> <<>>], NEW R
    PROVE  Count(todo, R) = 0
<1>1. Spread(todo, R) = {}
  BY DEF Spread, At1
<1> QED
  BY <1>1, FS_EmptySet DEF Count

LEMMA InvInit == Init => IInv
<1> SUFFICES ASSUME Init PROVE IInv
  OBVIOUS
<1>1. Boot \in Services /\ None \notin Services /\ MaxMessages \in Nat \ {0} /\ IdleLoops \in Nat \ {0}
  BY WorkersAssumption, BoundsAssumption
<1>2. TypeOK
  <2>1. [from |-> Boot, id |-> 1] \in Message /\ NoMessage \in Message
    BY <1>1 DEF Message, NoMessage
  <2>2. queue \in [Services -> Seq(Message)] /\ msg \in [Workers -> Message]
    BY <1>1, <2>1 DEF Init
  <2>3. /\ created \in SUBSET Services /\ alive \in SUBSET created /\ freed \in SUBSET created
        /\ gone \in SUBSET created /\ ref \in [Services -> Int] /\ inited \in [Services -> BOOLEAN]
        /\ inGlobal \in [Services -> BOOLEAN] /\ release \in [Services -> BOOLEAN]
        /\ global \in Seq(Services)
    BY <1>1 DEF Init
  <2>4. /\ pc \in [Workers -> WorkerSteps] /\ hold \in [Workers -> Services \cup {None}]
        /\ next \in [Workers -> Services \cup {None}] /\ left \in [Workers -> Nat]
        /\ todo \in [Threads -> Seq(Op)]
    BY DEF Init, WorkerSteps
  <2>5. /\ sleepers \in Int /\ mutex \in Workers \cup {None} /\ quit \in BOOLEAN
        /\ tpc \in {"update", "check", "leave", "over"} /\ idle \in 0..(IdleLoops - 1)
        /\ due \in BOOLEAN /\ spc \in {"poll", "wake"} /\ sent \in 0..MaxMessages
        /\ failed \in SUBSET {"init", "release"}
    <3>1. /\ 0 \in 0..(IdleLoops - 1) /\ 1 \in 0..MaxMessages
          /\ {} \in SUBSET {"init", "release"} /\ FALSE \in BOOLEAN /\ TRUE \in BOOLEAN
      BY <1>1
    <3>2. /\ sleepers = 0 /\ mutex = None /\ quit = FALSE /\ tpc = "update" /\ idle = 0
          /\ due = FALSE /\ spc = "poll" /\ sent = 1 /\ failed = {}
      BY DEF Init
    <3>3. /\ mutex \in Workers \cup {None} /\ quit \in BOOLEAN
          /\ tpc \in {"update", "check", "leave", "over"}
      BY <3>1, <3>2, Zenon
    <3>6. sleepers \in Int
      BY <3>2
    <3>4. idle \in 0..(IdleLoops - 1) /\ sent \in 0..MaxMessages
      BY <3>1, <3>2, Zenon
    <3>5. due \in BOOLEAN /\ spc \in {"poll", "wake"} /\ failed \in SUBSET {"init", "release"}
      BY <3>1, <3>2
    <3> QED
      BY <3>3, <3>4, <3>5, <3>6
  <2> QED
    BY <2>2, <2>3, <2>4, <2>5 DEF TypeOK
<1>3. OpsOK /\ ServedInited /\ WorkersOK /\ Nested /\ Quiet
  BY DEF Init, OpsOK, Fine, ServedInited, WorkersOK, Busy, Nested, Quiet
<1>4. ASSUME NEW s \in Services PROVE Sound(s)
  <2>1. Carriers(s) = 0 /\ Owers(s) = 0 /\ Deleters(s) = 0
    BY NothingToDo DEF Init, Carriers, Owers, Deleters
  <2>2. Held(s) = 0 /\ Nexts(s) = 0 /\ Servers(s) = 0
    <3>1. With(hold, s) = {} /\ With(next, s) = {} /\ Serving(hold, pc, s) = {}
      BY <1>1 DEF Init, With, Serving
    <3> QED
      BY <3>1, FS_EmptySet DEF Held, Nexts, Servers
  <2>3. InQ(s) = Bit(s = Boot)
    <3>1. Many(<<Boot>>, {s}) = Bit(Boot \in {s})
      BY ManyOne
    <3>2. global = <<Boot>> /\ (Boot \in {s}) = (s = Boot)
      BY DEF Init
    <3> QED
      BY <3>1, <3>2 DEF InQ
  <2>4. /\ ref[s] = Bit(s = Boot) /\ (s \in alive <=> s = Boot) /\ (s \in created <=> s = Boot)
        /\ (inGlobal[s] <=> s = Boot) /\ ~release[s] /\ s \notin freed /\ s \notin gone
        /\ (inited[s] <=> s = Boot) /\ (s # Boot => queue[s] = <<>>)
    BY DEF Init, Bit
  <2>5. Counted(s) /\ Dying(s) /\ Launched(s) /\ Life(s)
    BY <2>1, <2>2, <2>4 DEF Counted, Dying, Launched, Life, Bit
  <2>6. Located(s)
    BY <2>1, <2>2, <2>3, <2>4 DEF Located, Wanted, Bit
  <2> QED
    BY <2>5, <2>6 DEF Sound
<1> QED
  BY <1>2, <1>3, <1>4 DEF IInv

LEMMA InvStutter == ASSUME IInv, UNCHANGED vars PROVE IInv'
<1>1. /\ UNCHANGED <<contexts, queues, working, waiting, feeding, failed>>
      /\ sent' = sent /\ todo' = todo
  BY DEF vars
<1>2. sent' \in 0..MaxMessages /\ todo' \in [Threads -> Seq(Op)] /\ OpsOK'
  BY <1>1 DEF IInv, TypeOK, OpsOK, Raw, contexts
<1>3. \A r \in Services : /\ Carriers(r)' = Carriers(r) /\ Owers(r)' = Owers(r)
                          /\ Deleters(r)' = Deleters(r)
  BY <1>1 DEF Carriers, Owers, Deleters
<1> QED
  BY <1>1, <1>2, <1>3, CountsStay

LEMMA InvNext == IInv /\ [Next]_vars => IInv'
<1> SUFFICES ASSUME IInv, [Next]_vars PROVE IInv'
  OBVIOUS
<1>1. ASSUME NEW t \in Threads, Call(t) PROVE IInv'
  <2>1. CASE Grab(t) \/ Push(t) \/ Unref(t) \/ Delete(t) \/ Retire(t)
    BY <2>1, GrabStep, PushStep, UnrefStep, DeleteStep, RetireStep
  <2>2. CASE InitSends(t) \/ (\E ok \in BOOLEAN : InitEnds(t, ok)) \/ Settle(t) \/ Launch(t)
    BY <2>2, InitSendsStep, InitEndsStep, SettleStep, LaunchStep
  <2>3. CASE GiveUp(t) \/ Drop(t) \/ Dropped(t) \/ Abort(t) \/ Visit(t) \/ Exit(t)
    BY <2>3, GiveUpStep, DropStep, DroppedStep, AbortStep, VisitStep, ExitStep
  <2>4. CASE Publish(t) \/ Report(t)
    BY <2>4, PublishStep, ReportStep
  <2> QED
    BY <1>1, <2>1, <2>2, <2>3, <2>4 DEF Call
<1>2. ASSUME NEW w \in Workers, Loop(w) PROVE IInv'
  <2>1. CASE Enter(w) \/ Context(w) \/ Take(w) \/ Empty(w) \/ Pick(w)
    BY <2>1, EnterStep, ContextStep, TakeStep, EmptyStep, PickStep
  <2>2. CASE Turn(w) \/ Requeue(w) \/ HandlerReturns(w) \/ Doze(w)
    BY <2>2, TurnStep, RequeueStep, HandlerReturnsStep, SleepSteps
  <2> QED
    BY <1>2, <2>1, <2>2 DEF Loop
<1>3. ASSUME NEW w \in Workers, Handler(w) PROVE IInv'
  BY <1>3, HandlerSendsStep, HandlerCallsStep, HandlerLaunchesStep DEF Handler
<1>4. ASSUME NEW w \in Workers, Drowsy(w) \/ Wake(w) \/ SpuriousWakeup(w) PROVE IInv'
  BY <1>4, SleepSteps
<1>5. ASSUME NEW s \in Services, TimerSends(s) \/ SocketSends(s) PROVE IInv'
  BY <1>5, FeedsStep
<1>6. ASSUME TimerUpdated \/ TimerChecks \/ TimerLeaves \/ SocketWakes PROVE IInv'
  BY <1>6, TimerSteps
<1>7. ASSUME UNCHANGED vars PROVE IInv'
  BY <1>7, InvStutter
<1> QED
  BY <1>1, <1>2, <1>3, <1>4, <1>5, <1>6, <1>7 DEF Next

LEMMA Invariance == Spec => []IInv
BY InvInit, InvNext, PTL DEF Spec

-----------------------------------------------------------------------------
(* What it says of the runtime.                                            *)
LEMMA PendingCounts ==
    ASSUME TypeOK, NEW s \in Services, NEW ops
    PROVE  Cardinality(Pending(s, ops)) = Count(todo, Of(s, ops))
<1>1. \A t \in Threads : \A n \in DOMAIN todo[t] : todo[t][n] \in Op
  BY DEF TypeOK
<1>2. Pending(s, ops) = Spread(todo, Of(s, ops))
  <2>1. ASSUME NEW t \in Threads
        PROVE  {n \in DOMAIN todo[t] : todo[t][n].s = s /\ todo[t][n].op \in ops}
                 = At1(todo[t], Of(s, ops))
    BY <1>1 DEF At1, Of
  <2> QED
    BY <2>1 DEF Pending, Spread
<1> QED
  BY <1>2 DEF Count

LEMMA PlacesCount ==
    ASSUME TypeOK, NEW s \in Services
    PROVE  Places(s) = InQ(s) + Held(s) + Nexts(s) + Carriers(s)
<1>1. {n \in DOMAIN global : global[n] = s} = At1(global, {s})
  BY DEF At1
<1>2. Cardinality(Pending(s, Carries)) = Carriers(s)
  BY PendingCounts DEF Carriers
<1> QED
  BY <1>1, <1>2 DEF Places, InQ, Many, Held, Nexts, With

LEMMA InvScheduled == IInv => Scheduled
<1> SUFFICES ASSUME IInv PROVE Scheduled
  OBVIOUS
<1>1. TypeOK /\ \A s \in Services : Sound(s)
  BY DEF IInv
<1>2. ASSUME NEW s \in created
      PROVE  Places(s) = IF s \notin gone /\ (queue[s] # <<>> \/ release[s] \/ inGlobal[s])
                         THEN 1 ELSE 0
  <2>1. s \in Services
    BY <1>1 DEF TypeOK
  <2>2. Places(s) = Bit(Wanted(s))
    BY <1>1, <2>1, PlacesCount DEF Sound, Located
  <2> QED
    BY <2>2 DEF Bit, Wanted
<1> QED
  BY <1>1, <1>2 DEF Scheduled

LEMMA InvRefCounted == IInv => RefCounted
<1> SUFFICES ASSUME IInv, NEW s \in Services
             PROVE  ref[s] = (IF s \in alive THEN 1 ELSE 0)
                             + Cardinality({w \in Workers : hold[w] = s /\
                                    pc[w] \in {"first", "pop", "call", "turn", "requeue"}})
                             + Cardinality(Pending(s, Owes))
  BY DEF RefCounted
<1>1. TypeOK /\ Counted(s)
  BY DEF IInv, Sound
<1>2. Cardinality(Pending(s, Owes)) = Owers(s)
  BY <1>1, PendingCounts DEF Owers
<1>3. Servers(s) = Cardinality({w \in Workers : hold[w] = s /\
                       pc[w] \in {"first", "pop", "call", "turn", "requeue"}})
  BY DEF Servers, Serving, Busy
<1> QED
  BY <1>1, <1>2, <1>3 DEF Counted, Bit

LEMMA InvReferences == IInv => NotFreedWhileReferenced
<1> SUFFICES ASSUME IInv PROVE NotFreedWhileReferenced
  OBVIOUS
<1>1. TypeOK /\ OpsOK /\ Nested /\ WorkersOK /\ \A s \in Services : Sound(s)
  BY DEF IInv
<1>2. ASSUME NEW s \in Services, Owers(s) >= 1 PROVE s \notin freed
  <2>1. Owers(s) \in Nat /\ Servers(s) \in Nat /\ Bit(s \in alive) \in {0, 1}
    BY <1>1, NumbersType DEF Bit
  <2>2. ref[s] = Bit(s \in alive) + Servers(s) + Owers(s)
    BY <1>1 DEF Sound, Counted
  <2>3. ref[s] # 0
    BY <1>2, <2>1, <2>2
  <2> QED
    BY <1>1, <2>3 DEF Sound, Life
<1>3. ASSUME NEW t \in Threads, NEW s \in References(t) PROVE s \notin freed
  <2> DEFINE a == Head(todo[t])
  <2>1. /\ todo[t] # <<>> /\ s \in Services /\ a.s = s
        /\ a.op \in {"push", "unref", "init", "settle", "delete"}
    BY DEF References
  <2>2. /\ todo[t][1] = a /\ 1 \in DOMAIN todo[t] /\ todo[t] \in Seq(Op)
        /\ a.op \in Owes => Owers(s) >= 1
        /\ a.op = "delete" => Deleters(s) >= 1
    BY <2>1, CallType
  <2> HIDE DEF a
  <2>3. CASE a.op \in Owes
    BY <1>2, <2>1, <2>2, <2>3
  <2>4. CASE a.op = "push"
    <3>1. /\ 1 + 1 \in DOMAIN todo[t] /\ todo[t][1 + 1].op = "unref" /\ todo[t][1 + 1].s = s
      BY <1>1, <2>1, <2>2, <2>4 DEF OpsOK, Fine
    <3>2. Owers(s) >= 1
      BY <1>1, <3>1, Under DEF Owes
    <3> QED
      BY <1>2, <2>1, <3>2
  <2>5. CASE a.op = "delete"
    BY <1>1, <2>1, <2>2, <2>5, NumbersType DEF Sound, Dying, Bit
  <2> QED
    BY <2>1, <2>3, <2>4, <2>5 DEF Owes
<1>4. ASSUME NEW w \in Workers, pc[w] \in {"first", "pop", "call", "turn", "requeue"}
      PROVE  hold[w] \notin freed
  BY <1>4, Serves DEF Busy
<1>5. \A s \in freed : ref[s] = 0
  BY <1>1 DEF Sound, Life, TypeOK
<1> QED
  BY <1>1, <1>3, <1>4, <1>5 DEF NotFreedWhileReferenced, Nested

(* A queue with messages, or with a context that was deleted, is in one    *)
(* place: in the global queue, with a worker, or with a call that hands it *)
(* on.  Two workers never run the callbacks of one service at once.        *)
THEOREM QueueInOnePlace == Spec => []Scheduled
BY Invariance, InvScheduled, PTL

(* The count of a context is the number of those who may use it.           *)
THEOREM ReferencesCounted == Spec => []RefCounted
BY Invariance, InvRefCounted, PTL

(* delete_context frees no context that somebody has a reference to, so    *)
(* nobody who has one uses it after that.                                  *)
THEOREM NotFreedEarly == Spec => []NotFreedWhileReferenced
BY Invariance, InvReferences, PTL

(* The assertions of dispatch_message and of skynet_mq_mark_release hold.  *)
THEOREM AssertionsNeverFail == Spec => []AssertionsHold
<1>1. IInv => AssertionsHold
  BY DEF IInv, Nested, AssertionsHold
<1> QED
  BY <1>1, Invariance, PTL

(* When thread_timer has ended no worker waits for a signal nobody sends.  *)
THEOREM NobodySleepsOn == Spec => []AllAwake
<1>1. IInv => AllAwake
  BY DEF IInv, Quiet, AllAwake
<1> QED
  BY <1>1, Invariance, PTL

-----------------------------------------------------------------------------
(* The runtime as a system of actors: every step is one of theirs, or      *)
(* nothing they see.                                                       *)
(* What the services run depends only on the workers in a callback.        *)
LEMMA RunningStays ==
    ASSUME \A w \in Workers : /\ pc'[w] = "call" <=> pc[w] = "call"
                              /\ pc[w] = "call" => hold'[w] = hold[w] /\ msg'[w] = msg[w]
    PROVE  Running' = Running
<1>1. \A s \in Services : Handling(s)' = Handling(s)
  BY DEF Handling
<1>2. ASSUME NEW s \in Services, Handling(s) # {}
      PROVE  msg'[CHOOSE w \in Handling(s)' : TRUE] = msg[CHOOSE w \in Handling(s) : TRUE]
  <2> DEFINE v == CHOOSE w \in Handling(s) : TRUE
  <2>1. v \in Handling(s)
    BY <1>2
  <2>2. msg'[v] = msg[v]
    BY <2>1 DEF Handling
  <2> QED
    BY <1>1, <2>2
<1> QED
  BY <1>1, <1>2 DEF Running

LEMMA ActorsStay ==
    ASSUME UNCHANGED <<queue, created, freed>>,
           \A w \in Workers : /\ pc'[w] = "call" <=> pc[w] = "call"
                              /\ pc[w] = "call" => hold'[w] = hold[w] /\ msg'[w] = msg[w]
    PROVE  UNCHANGED Actors!serviceVars
<1>1. Running' = Running
  BY RunningStays
<1>2. Status' = Status
  BY DEF Status
<1> QED
  BY <1>1, <1>2 DEF Actors!serviceVars

(* One worker has the queue of a service, so one at most is in its         *)
(* callback.                                                               *)
LEMMA Alone ==
    ASSUME IInv, NEW w \in Workers, pc[w] \in Busy, NEW v \in Workers, v # w
    PROVE  hold[v] # hold[w]
<1> SUFFICES ASSUME hold[v] = hold[w] PROVE FALSE
  OBVIOUS
<1> DEFINE s == hold[w]
<1>1. s \in Services /\ Wanted(s) /\ Located(s) /\ TypeOK
  BY Serves DEF IInv, Sound
<1> HIDE DEF s
<1>2. Held(s) <= 1
  BY <1>1, NumbersType DEF Located, Bit
<1>3. {w, v} \subseteq With(hold, s) /\ IsFiniteSet(With(hold, s))
  BY WorkerSetsFinite DEF With, s
<1>4. Cardinality({w, v}) = 2
  <2>1. Cardinality({w}) = 1 /\ IsFiniteSet({w})
    BY FS_Singleton
  <2>2. {w, v} = {w} \cup {v} /\ v \notin {w}
    OBVIOUS
  <2> QED
    BY <2>1, <2>2, FS_AddElement
<1>5. Cardinality({w, v}) <= Held(s) /\ Held(s) \in Nat
  BY <1>3, FS_Subset, FS_CardinalityType DEF Held
<1> QED
  BY <1>2, <1>4, <1>5

LEMMA InCallback ==
    ASSUME IInv, NEW w \in Workers, pc[w] = "call"
    PROVE  Handling(hold[w]) = {w} /\ Running[hold[w]] = msg[w] /\ hold[w] \in Services
<1>1. hold[w] \in Services
  BY Serves DEF Busy
<1>2. Handling(hold[w]) = {w}
  BY Alone DEF Handling, Busy
<1> QED
  BY <1>1, <1>2 DEF Running

LEMMA PushDelivers ==
    ASSUME IInv, NEW t \in Threads, Push(t)
    PROVE  Actors!Next
<1>1. todo[t] # <<>> /\ Head(todo[t]).op = "push"
  BY DEF Push, Doing
<1>2. PICK a \in Op : a = Head(todo[t]) /\ 1 \in DOMAIN todo[t] /\ todo[t][1] = a
                     /\ a.s \in Services /\ a.m \in Message
  BY <1>1, CallType
<1>3. 2 \in DOMAIN todo[t] /\ todo[t][2].op = "unref" /\ todo[t][2].s = a.s
  BY <1>1, <1>2 DEF IInv, OpsOK, Fine
<1>4. TypeOK /\ Sound(a.s)
  BY <1>2 DEF IInv
<1>5. Owers(a.s) >= 1
  BY <1>3, <1>4, Under DEF Owes
<1>6. ref[a.s] >= 1
  BY <1>2, <1>4, <1>5, NumbersType DEF Sound, Counted, Bit
<1>7. Status[a.s] = "up"
  BY <1>2, <1>4, <1>6 DEF Status, Sound, Life
<1>8. /\ queue' = [queue EXCEPT ![a.s] = Append(@, a.m)]
      /\ UNCHANGED <<created, freed, pc, hold, msg>>
  BY <1>2 DEF Push, contexts, working
<1>9. Running' = Running /\ Status' = Status
  BY <1>8, RunningStays DEF Status
<1>10. Actors!Deliver(a.s, a.m)
  BY <1>7, <1>8, <1>9 DEF Actors!Deliver
<1> QED
  BY <1>2, <1>10 DEF Actors!Next

LEMMA DeleteFalls ==
    ASSUME IInv, NEW t \in Threads, Delete(t)
    PROVE  Actors!Next
<1>1. todo[t] # <<>> /\ Head(todo[t]).op = "delete"
  BY DEF Delete, Doing
<1>2. PICK s \in Services : s = Head(todo[t]).s /\ Deleters(s) >= 1
  BY <1>1, CallType
<1>3. /\ freed' = freed \cup {s}
      /\ UNCHANGED <<created, queue, pc, hold, msg>>
  BY <1>2 DEF Delete, contexts, working
<1>4. TypeOK /\ Sound(s)
  BY DEF IInv
<1>5. s \in created /\ ref[s] = 0 /\ s \notin freed
  BY <1>2, <1>4, NumbersType DEF Sound, Dying, Bit
<1>6. Servers(s) = 0
  BY <1>4, <1>5, NumbersType DEF Sound, Counted, Bit
<1>7. Serving(hold, pc, s) = {}
  BY <1>6, WorkerSetsFinite, FS_EmptySet DEF Servers
<1>8. Handling(s) = {}
  BY <1>7 DEF Handling, Serving, Busy
<1>9. Running[s] = None /\ Status[s] = "up"
  BY <1>5, <1>8 DEF Running, Status
<1>10. Running' = Running /\ Status' = [Status EXCEPT ![s] = "down"]
  BY <1>3, <1>5, RunningStays DEF Status
<1>11. Actors!Fall(s)
  BY <1>3, <1>9, <1>10 DEF Actors!Fall
<1> QED
  BY <1>11 DEF Actors!Next

LEMMA DropRefuses ==
    ASSUME IInv, NEW t \in Threads, Drop(t)
    PROVE  Actors!Next
<1>1. todo[t] # <<>> /\ Head(todo[t]).op = "drop"
  BY DEF Drop, Doing
<1>2. PICK a \in Op : a = Head(todo[t]) /\ 1 \in DOMAIN todo[t] /\ todo[t][1] = a
                     /\ a.s \in Services
  BY <1>1, CallType
<1>3. a.s \in freed /\ freed \subseteq created
  BY <1>1, <1>2 DEF IInv, TypeOK, OpsOK, Fine
<1>4. /\ queue[a.s] # <<>> /\ queue' = [queue EXCEPT ![a.s] = Tail(@)]
      /\ UNCHANGED <<created, freed, pc, hold, msg>>
  BY <1>2 DEF Drop, contexts, working
<1>5. Status[a.s] = "down"
  BY <1>2, <1>3 DEF Status
<1>6. Running' = Running /\ Status' = Status
  BY <1>4, RunningStays DEF Status
<1>7. Actors!Refuse(a.s)
  BY <1>4, <1>5, <1>6 DEF Actors!Refuse
<1> QED
  BY <1>2, <1>7 DEF Actors!Next

LEMMA TakeTakes ==
    ASSUME IInv, NEW w \in Workers, Take(w)
    PROVE  Actors!Next
<1>1. TypeOK /\ pc[w] \in {"first", "pop"}
  BY DEF IInv, Take, At
<1>2. PICK s \in Services : s = hold[w] /\ s \in created /\ s \notin freed
  BY <1>1, Serves DEF Busy
<1>3. \A v \in Workers : v # w => hold[v] # s
  BY <1>1, <1>2, Alone DEF Busy
<1>4. /\ queue[s] # <<>> /\ queue' = [queue EXCEPT ![s] = Tail(@)]
      /\ msg' = [msg EXCEPT ![w] = Head(queue[s])]
      /\ pc' = [pc EXCEPT ![w] = "call"]
      /\ UNCHANGED <<created, freed, hold>>
  BY <1>2 DEF Take, Goes, contexts
<1>5. pc \in [Workers -> WorkerSteps] /\ msg \in [Workers -> Message]
  BY <1>1 DEF TypeOK
<1>6. Handling(s) = {} /\ Handling(s)' = {w}
  BY <1>1, <1>2, <1>3, <1>4, <1>5 DEF Handling
<1>7. Running[s] = None /\ Running'[s] = Head(queue[s])
  BY <1>2, <1>4, <1>5, <1>6 DEF Running
<1>8. ASSUME NEW r \in Services, r # s PROVE Running'[r] = Running[r]
  <2>1. Handling(r)' = Handling(r) /\ w \notin Handling(r)
    BY <1>2, <1>4, <1>5, <1>8 DEF Handling
  <2>2. \A v \in Handling(r) : msg'[v] = msg[v]
    BY <1>4, <1>5, <2>1 DEF Handling
  <2>3. CASE Handling(r) = {}
    BY <2>1, <2>3 DEF Running
  <2>4. CASE Handling(r) # {}
    <3> DEFINE v == CHOOSE u \in Handling(r) : TRUE
    <3>1. v \in Handling(r)
      BY <2>4
    <3>2. msg'[v] = msg[v]
      BY <2>2, <3>1
    <3>3. Running'[r] = msg'[v] /\ Running[r] = msg[v]
      BY <2>1, <2>4 DEF Running
    <3> QED
      BY <3>2, <3>3
  <2> QED
    BY <2>3, <2>4
<1>9. Running' = [Running EXCEPT ![s] = Head(queue[s])]
  BY <1>7, <1>8 DEF Running
<1>10. Status[s] = "up" /\ Status' = Status
  BY <1>2, <1>4 DEF Status
<1>11. Actors!Take(s)
  BY <1>4, <1>7, <1>9, <1>10 DEF Actors!Take
<1> QED
  BY <1>2, <1>11 DEF Actors!Next

LEMMA ReturnFinishes ==
    ASSUME IInv, NEW w \in Workers, HandlerReturns(w)
    PROVE  Actors!Next
<1>1. pc[w] = "call" /\ pc \in [Workers -> WorkerSteps] /\ msg[w] \in Message
  BY DEF IInv, TypeOK, HandlerReturns, At
<1>2. PICK s \in Services : s = hold[w] /\ Handling(s) = {w} /\ Running[s] = msg[w]
  BY <1>1, InCallback
<1>3. /\ pc' = [pc EXCEPT ![w] = IF left[w] > 0 THEN "pop" ELSE "turn"]
      /\ UNCHANGED <<queue, created, freed, hold, msg>>
  BY DEF HandlerReturns, Goes, contexts, queues
<1>4. pc'[w] # "call" /\ \A v \in Workers : v # w => pc'[v] = pc[v]
  BY <1>1, <1>3
<1>5. Handling(s)' = {}
  BY <1>2, <1>3, <1>4 DEF Handling
<1>6. \A r \in Services : r # s => Handling(r)' = Handling(r)
  BY <1>2, <1>3, <1>4 DEF Handling
<1>7. Running' = [Running EXCEPT ![s] = None]
  BY <1>2, <1>3, <1>5, <1>6 DEF Running
<1>8. Running[s] # None /\ Status' = Status
  BY <1>1, <1>2, <1>3, MessageAssumption DEF Status
<1>9. Actors!Finish(s)
  BY <1>3, <1>7, <1>8 DEF Actors!Finish
<1> QED
  BY <1>2, <1>9 DEF Actors!Next

LEMMA LaunchLaunches ==
    ASSUME IInv, NEW w \in Workers, NEW s \in Services, HandlerLaunches(w, s)
    PROVE  Actors!Next
<1>1. /\ s \notin created /\ created' = created \cup {s}
      /\ UNCHANGED <<queue, freed, pc, hold, msg>>
  BY DEF HandlerLaunches, working
<1>2. s \notin freed
  BY <1>1 DEF IInv, TypeOK
<1>3. Running' = Running
  BY <1>1, RunningStays
<1>4. Status[s] = "none" /\ Status' = [Status EXCEPT ![s] = "up"]
  BY <1>1, <1>2 DEF Status
<1>5. Actors!Launch(s)
  BY <1>1, <1>3, <1>4 DEF Actors!Launch
<1> QED
  BY <1>5 DEF Actors!Next

(* The other steps leave the mailboxes, the callbacks and the lives of the *)
(* services alone.                                                         *)
LEMMA QuietCalls ==
    ASSUME NEW t \in Threads,
           \/ Grab(t) \/ Unref(t) \/ Retire(t) \/ InitSends(t) \/ Settle(t) \/ Launch(t)
           \/ Publish(t) \/ Report(t) \/ GiveUp(t) \/ Dropped(t) \/ Abort(t) \/ Visit(t)
           \/ Exit(t) \/ \E ok \in BOOLEAN : InitEnds(t, ok)
    PROVE  UNCHANGED Actors!serviceVars
<1>1. UNCHANGED <<queue, created, freed, pc, hold, msg>>
  <2>1. CASE Grab(t) \/ Unref(t) \/ Retire(t) \/ Visit(t) \/ Exit(t)
    BY <2>1 DEF Grab, Unref, Retire, Visit, Exit, contexts, queues, working
  <2>2. CASE InitSends(t) \/ Settle(t) \/ Abort(t) \/ \E ok \in BOOLEAN : InitEnds(t, ok)
    BY <2>2 DEF InitSends, Settle, Abort, InitEnds, contexts, queues, working
  <2>3. CASE Launch(t) \/ GiveUp(t) \/ Dropped(t)
    BY <2>3 DEF Launch, GiveUp, Dropped, contexts, queues, working
  <2>4. CASE Publish(t) \/ Report(t)
    BY <2>4 DEF Publish, Report, contexts, queues, working
  <2> QED
    BY <2>1, <2>2, <2>3, <2>4
<1> QED
  BY <1>1, ActorsStay

LEMMA QuietLoop ==
    ASSUME TypeOK, NEW w \in Workers,
           \/ Enter(w) \/ Context(w) \/ Empty(w) \/ Pick(w) \/ Turn(w) \/ Requeue(w)
           \/ Drowsy(w) \/ Doze(w) \/ Wake(w) \/ SpuriousWakeup(w)
    PROVE  UNCHANGED Actors!serviceVars
<1>1. pc \in [Workers -> WorkerSteps] /\ hold \in [Workers -> Services \cup {None}]
  BY DEF TypeOK
<1>2. UNCHANGED <<queue, created, freed, msg>>
  <2>1. CASE Enter(w) \/ Context(w) \/ Empty(w) \/ Pick(w) \/ Turn(w) \/ Requeue(w)
    BY <2>1 DEF Enter, Context, Empty, Pick, Turn, Requeue, contexts, queues
  <2>2. CASE Drowsy(w) \/ Doze(w) \/ Wake(w) \/ SpuriousWakeup(w)
    BY <2>2 DEF Drowsy, Doze, Wake, SpuriousWakeup, contexts, queues
  <2> QED
    BY <2>1, <2>2
<1>3. pc[w] # "call" /\ pc'[w] # "call"
      /\ \A v \in Workers : v # w => pc'[v] = pc[v] /\ hold'[v] = hold[v]
  <2>1. CASE Enter(w) \/ Pick(w)
    BY <1>1, <2>1 DEF Enter, Pick, Pops, At, Goes
  <2>2. CASE Context(w) \/ Empty(w)
    BY <1>1, <2>2 DEF Context, Empty, At, Goes
  <2>3. CASE Turn(w) \/ Requeue(w)
    BY <1>1, <2>3 DEF Turn, Requeue, At, Goes
  <2>4. CASE Drowsy(w) \/ Doze(w) \/ Wake(w) \/ SpuriousWakeup(w)
    BY <1>1, <2>4 DEF Drowsy, Doze, Wake, SpuriousWakeup, At, Goes
  <2> QED
    BY <2>1, <2>2, <2>3, <2>4
<1> QED
  BY <1>2, <1>3, ActorsStay

LEMMA QuietHandler ==
    ASSUME NEW w \in Workers, NEW s \in Services,
           HandlerAborts(w) \/ HandlerSends(w, s) \/ HandlerKills(w, s)
    PROVE  UNCHANGED Actors!serviceVars
<1>1. UNCHANGED <<queue, created, freed, pc, hold, msg>>
  BY DEF HandlerAborts, HandlerSends, HandlerKills, contexts, queues, working
<1> QED
  BY <1>1, ActorsStay

LEMMA QuietFeeders ==
    ASSUME TypeOK,
           \/ \E s \in Services : TimerSends(s) \/ SocketSends(s)
           \/ TimerUpdated \/ TimerChecks \/ TimerLeaves \/ SocketWakes
    PROVE  UNCHANGED Actors!serviceVars
<1>1. UNCHANGED <<queue, created, freed, hold, msg>>
  <2>1. CASE \E s \in Services : TimerSends(s) \/ SocketSends(s)
    BY <2>1 DEF TimerSends, SocketSends, contexts, queues, working
  <2>2. CASE TimerUpdated \/ TimerChecks \/ TimerLeaves \/ SocketWakes
    BY <2>2 DEF TimerUpdated, TimerChecks, TimerLeaves, SocketWakes, contexts, queues, working
  <2> QED
    BY <2>1, <2>2
<1>2. \A w \in Workers : pc'[w] = pc[w] \/ (pc[w] = "asleep" /\ pc'[w] = "waking")
  <2>1. \/ UNCHANGED pc \/ WakeOne(1) \/ WakeOne(Cardinality(Workers))
        \/ pc' = [w \in Workers |-> IF pc[w] = "asleep" THEN "waking" ELSE pc[w]]
    BY DEF TimerSends, SocketSends, TimerUpdated, TimerChecks, SocketWakes, TimerLeaves, working
  <2>2. CASE pc' = [w \in Workers |-> IF pc[w] = "asleep" THEN "waking" ELSE pc[w]]
    BY <2>2
  <2> QED
    BY <2>1, <2>2, WakeOneMoves
<1> QED
  BY <1>1, <1>2, ActorsStay

LEMMA ActorsInit == Init => Actors!Init
<1> SUFFICES ASSUME Init PROVE Actors!Init
  OBVIOUS
<1>1. [from |-> Boot, id |-> 1] \in Message
  BY WorkersAssumption, BoundsAssumption DEF Message
<1>2. queue \in [Services -> Seq(Message)]
  BY <1>1 DEF Init
<1>3. Running = [s \in Services |-> None]
  <2>1. \A s \in Services : Handling(s) = {}
    BY DEF Init, Handling
  <2> QED
    BY <2>1 DEF Running
<1>4. Status \in [Services -> {"none", "up"}]
      /\ \A s \in Services : Status[s] = "none" => queue[s] = <<>>
  BY DEF Init, Status
<1> QED
  BY <1>2, <1>3, <1>4 DEF Actors!Init

LEMMA ActorsNext == IInv /\ [Next]_vars => [Actors!Next]_(Actors!serviceVars)
<1> SUFFICES ASSUME IInv, [Next]_vars PROVE Actors!Next \/ UNCHANGED Actors!serviceVars
  OBVIOUS
<1>1. TypeOK
  BY DEF IInv
<1>2. ASSUME NEW t \in Threads, Call(t)
      PROVE  Actors!Next \/ UNCHANGED Actors!serviceVars
  BY <1>2, PushDelivers, DeleteFalls, DropRefuses, QuietCalls DEF Call
<1>3. ASSUME NEW w \in Workers,
             Loop(w) \/ Handler(w) \/ Drowsy(w) \/ Wake(w) \/ SpuriousWakeup(w)
      PROVE  Actors!Next \/ UNCHANGED Actors!serviceVars
  <2>1. CASE Loop(w) \/ Drowsy(w) \/ Wake(w) \/ SpuriousWakeup(w)
    BY <1>1, <2>1, TakeTakes, ReturnFinishes, QuietLoop DEF Loop
  <2>2. CASE Handler(w)
    BY <2>2, WorkersAssumption, LaunchLaunches, QuietHandler DEF Handler
  <2> QED
    BY <1>3, <2>1, <2>2
<1>4. ASSUME \/ \E s \in Services : TimerSends(s) \/ SocketSends(s)
             \/ TimerUpdated \/ TimerChecks \/ TimerLeaves \/ SocketWakes
      PROVE  UNCHANGED Actors!serviceVars
  BY <1>1, <1>4, QuietFeeders
<1>5. CASE UNCHANGED vars
  BY <1>5, ActorsStay DEF vars, contexts, queues, working
<1> QED
  BY <1>2, <1>3, <1>4, <1>5 DEF Next

(* The runtime is the system of actors of Services: a service handles the  *)
(* messages of its mailbox one at a time and in order, none is lost while  *)
(* it is up, and it goes down between two messages.                        *)
THEOREM Implements == Spec => ImplementsServices
BY Invariance, ActorsInit, ActorsNext, PTL DEF Spec, ImplementsServices, Actors!Spec
=============================================================================
