----------------------------- MODULE TimerProofs -----------------------------
(***************************************************************************)
(* Proofs about Timer: no two timers share a record, and every timer is    *)
(* waited for once, for any number of timers, names and loops.             *)
(***************************************************************************)
EXTENDS Timer, FiniteSetTheorems, SequenceTheorems, TLAPS

Used == {timers[i] : i \in Registered}

TablesTyped ==
    /\ timers \in [Ids -> Records \cup {None}]
    /\ named \in [Names -> SUBSET Ids]
    /\ record \in [Records -> Record]
    /\ pool \in Seq(Records)

(* RecordsApart without its type invariant.                                *)
Apart ==
    /\ \A i, j \in Registered : timers[i] = timers[j] => i = j
    /\ \A n, m \in DOMAIN pool : pool[n] = pool[m] => n = m
    /\ \A i \in Registered :
          /\ timers[i] \notin InPool
          /\ record[timers[i]].id = i /\ record[timers[i]].callback
    /\ \A n \in Names : named[n] \subseteq {i \in Registered : record[timers[i]].name = n}

(* The closures of a timer: one at most, and one while it is there, unless *)
(* its arming failed.                                                      *)
Awaited ==
    /\ \A i \in Registered \ unarmed :
          (\E c \in armed : c.id = i) \/ (\E f \in running : f.closure.id = i)
    /\ \A c, d \in armed : c.id = d.id => c = d
    /\ \A f, g \in running : f.closure.id = g.closure.id => f = g
    /\ \A c \in armed, f \in running : c.id # f.closure.id
    /\ \A c \in armed : c.id <= id
    /\ \A f \in running : f.closure.id <= id

(* A callback that runs holds a record that is some timer's or pooled.     *)
Traced ==
    /\ \A f \in running : f.obj \in Used \cup InPool
    /\ \A i \in Registered : i <= id

IInv == RecordsApart /\ Traced /\ Awaited
-----------------------------------------------------------------------------
(* When the pool is empty there is a record that nobody uses: the timers   *)
(* that are there were all made before, and fewer than MaxId.              *)
LEMMA RecordLeft ==
    ASSUME IInv, id < MaxId, pool = <<>>
    PROVE  Unused # {}
<1>1. id \in Nat /\ MaxId \in Nat
  BY TimerAssumption DEF IInv, RecordsApart, TypeOK
<1>2. InPool = {}
  BY DEF InPool
<1>3. SUFFICES ASSUME Records \subseteq Used PROVE FALSE
  BY <1>2 DEF Unused, Used, IInv, Traced
<1>4. Registered \subseteq 1..id
  BY DEF IInv, Traced, Registered, Ids
<1>5. IsFiniteSet(1..id) /\ Cardinality(1..id) = id
  BY <1>1, FS_Interval
<1>6. IsFiniteSet(Registered) /\ Cardinality(Registered) <= id
  BY <1>4, <1>5, FS_Subset
<1>7. Used \subseteq Records
  BY DEF Used, Registered, IInv, RecordsApart, TypeOK
<1> DEFINE g == [i \in Registered |-> timers[i]]
<1>8. g \in Surjection(Registered, Records)
  BY <1>3, <1>7 DEF Used, Surjection
<1>9. Cardinality(Records) <= Cardinality(Registered)
  BY <1>6, <1>8, FS_Surjection
<1>10. Cardinality(Records) = MaxId
  BY <1>1, TimerAssumption, FS_Interval DEF Records
<1>11. Cardinality(Registered) \in Nat
  BY <1>6, FS_CardinalityType
<1> QED
  BY <1>1, <1>6, <1>9, <1>10, <1>11

(* Deleting timers pools each of their records once, in some order.        *)
LEMMA OrderOnce ==
    ASSUME NEW ids, IsFiniteSet(ids),
           NEW order \in [1..Cardinality(ids) -> ids],
           \A i \in ids : \E n \in DOMAIN order : order[n] = i
    PROVE  \A m, n \in DOMAIN order : order[m] = order[n] => m = n
<1>1. Cardinality(ids) \in Nat
  BY FS_CardinalityType
<1>2. IsFiniteSet(1..Cardinality(ids)) /\ Cardinality(1..Cardinality(ids)) = Cardinality(ids)
  BY <1>1, FS_Interval
<1>3. order \in Surjection(1..Cardinality(ids), ids)
  BY DEF Surjection
<1>4. order \in Injection(1..Cardinality(ids), ids)
  BY <1>2, <1>3, FS_Surjection
<1> QED
  BY <1>4 DEF Injection, IsInjective

(* Deleting timers takes them out of the tables and moves their records to *)
(* the pool; the records of the others stay theirs.                        *)
LEMMA DeletedKeeps ==
    ASSUME IInv, NEW ids \in SUBSET Registered, NEW fields \in [Records -> Record],
           \A r \in Records : /\ fields[r].id = record[r].id
                              /\ fields[r].callback = record[r].callback
                              /\ fields[r].name = record[r].name,
           Deleted(ids, fields)
    PROVE  /\ TablesTyped' /\ Apart'
           /\ Registered' = Registered \ ids
           /\ Used' \cup InPool' = Used \cup InPool
           /\ \A i \in Registered' : /\ timers'[i] = timers[i]
                                     /\ record'[timers[i]] = fields[timers[i]]
<1>1. TypeOK /\ Apart
  BY DEF IInv, RecordsApart, Apart
<1>2. PICK order \in [1..Cardinality(ids) -> ids] :
        /\ \A i \in ids : \E n \in DOMAIN order : order[n] = i
        /\ pool' = pool \o [n \in DOMAIN order |-> timers[order[n]]]
  BY DEF Deleted, Forgets
<1>3. timers' = [i \in Ids |-> IF i \in ids THEN None ELSE timers[i]]
  BY DEF Deleted, Forgets
<1>4. Registered' = Registered \ ids /\ ids \subseteq Ids
  BY <1>3 DEF Registered
<1>5. /\ \A i \in ids : i \in Ids /\ timers[i] \in Records
      /\ \A i \in Registered : i \in Ids /\ timers[i] \in Records
  BY <1>1 DEF Registered, TypeOK
<1>6. \A i \in Registered' : timers'[i] = timers[i] /\ i \in Registered /\ i \notin ids
  BY <1>3, <1>4 DEF Registered
<1>7. record' \in [Records -> Record]
  <2>1. \A r \in Records : [fields[r] EXCEPT !.callback = FALSE] \in Record
    BY ZenonT(60) DEF Record
  <2> QED
    BY <2>1 DEF Deleted, Forgets
<1>8. \A i \in Registered' : /\ record'[timers[i]] = fields[timers[i]]
                             /\ record'[timers[i]].id = record[timers[i]].id
                             /\ record'[timers[i]].callback = record[timers[i]].callback
                             /\ record'[timers[i]].name = record[timers[i]].name
  <2> SUFFICES ASSUME NEW i \in Registered'
               PROVE  record'[timers[i]] = fields[timers[i]]
    BY <1>5, <1>6
  <2>1. \A j \in ids : timers[j] # timers[i]
    BY <1>1, <1>6 DEF Apart
  <2> QED
    BY <1>5, <1>6, <2>1 DEF Deleted, Forgets
<1> DEFINE gone == [n \in DOMAIN order |-> timers[order[n]]]
<1>9. Cardinality(ids) \in Nat /\ IsFiniteSet(ids)
  <2>1. IsFiniteSet(Ids)
    BY TimerAssumption, FS_Interval DEF Ids
  <2> QED
    BY <1>4, <2>1, FS_Subset, FS_CardinalityType
<1>10. /\ gone \in Seq(Records) /\ Len(gone) = Cardinality(ids) /\ DOMAIN gone = DOMAIN order
       /\ \A n \in DOMAIN gone : order[n] \in ids /\ gone[n] = timers[order[n]]
  BY <1>5, <1>9
<1>11. /\ pool' = pool \o gone /\ pool \in Seq(Records)
       /\ DOMAIN pool = 1..Len(pool) /\ DOMAIN gone = 1..Len(gone)
       /\ Len(pool) \in Nat /\ Len(gone) \in Nat
  BY <1>1, <1>2, <1>10 DEF TypeOK
<1> HIDE DEF gone
<1>12. /\ pool' \in Seq(Records) /\ DOMAIN pool' = 1..(Len(pool) + Len(gone))
       /\ \A n \in DOMAIN pool' :
             pool'[n] = IF n <= Len(pool) THEN pool[n] ELSE gone[n - Len(pool)]
  <2>1. /\ pool \o gone \in Seq(Records)
        /\ Len(pool \o gone) = Len(pool) + Len(gone)
        /\ \A n \in 1..(Len(pool) + Len(gone)) :
              (pool \o gone)[n] = IF n <= Len(pool) THEN pool[n] ELSE gone[n - Len(pool)]
    BY <1>10, <1>11, ConcatProperties
  <2>2. DOMAIN pool' = 1..Len(pool')
    BY <1>11, <2>1
  <2> QED
    BY <1>11, <2>1, <2>2
<1>13. \A n \in DOMAIN pool' : \/ n \in DOMAIN pool /\ pool'[n] = pool[n]
                               \/ /\ n > Len(pool) /\ n - Len(pool) \in DOMAIN gone
                                  /\ pool'[n] = gone[n - Len(pool)]
  BY <1>11, <1>12
<1>14. InPool' = InPool \cup {timers[i] : i \in ids}
  <2>1. ASSUME NEW n \in DOMAIN pool' PROVE pool'[n] \in InPool \cup {timers[i] : i \in ids}
    BY <1>10, <1>13 DEF InPool
  <2>2. ASSUME NEW n \in DOMAIN pool PROVE pool[n] \in InPool'
    <3>1. n \in DOMAIN pool' /\ pool'[n] = pool[n]
      BY <1>11, <1>12
    <3> QED
      BY <3>1 DEF InPool
  <2>3. ASSUME NEW i \in ids PROVE timers[i] \in InPool'
    <3>1. PICK n \in DOMAIN gone : order[n] = i
      BY <1>2, <1>10
    <3>2. n + Len(pool) \in DOMAIN pool' /\ pool'[n + Len(pool)] = gone[n]
      BY <1>11, <1>12
    <3> QED
      BY <1>10, <3>1, <3>2 DEF InPool
  <2> QED
    BY <2>1, <2>2, <2>3 DEF InPool
<1>15. Used' = Used \ {timers[i] : i \in ids}
  BY <1>1, <1>4, <1>6 DEF Used, Apart
<1>16. Used' \cup InPool' = Used \cup InPool
  <2>1. {timers[i] : i \in ids} \subseteq Used
    BY DEF Used
  <2> QED
    BY <1>14, <1>15, <2>1
<1>17. \A m, n \in DOMAIN pool' : pool'[m] = pool'[n] => m = n
  <2> SUFFICES ASSUME NEW m \in DOMAIN pool', NEW n \in DOMAIN pool', pool'[m] = pool'[n]
               PROVE  m = n
    OBVIOUS
  <2>1. ASSUME NEW j \in DOMAIN pool, NEW h \in DOMAIN gone PROVE pool[j] # gone[h]
    BY <1>1, <1>10 DEF Apart, InPool
  <2>2. \A h, j \in DOMAIN gone : gone[h] = gone[j] => h = j
    <3>1. \A h, j \in DOMAIN order : order[h] = order[j] => h = j
      BY <1>2, <1>9, OrderOnce
    <3> QED
      BY <1>1, <1>10, <3>1 DEF Apart
  <2>3. CASE m \in DOMAIN pool /\ n \in DOMAIN pool
    BY <1>1, <1>11, <1>12, <2>3 DEF Apart
  <2>4. CASE m - Len(pool) \in DOMAIN gone /\ n - Len(pool) \in DOMAIN gone
             /\ m > Len(pool) /\ n > Len(pool)
    <3>1. m - Len(pool) = n - Len(pool)
      BY <1>12, <2>2, <2>4
    <3> QED
      BY <1>11, <1>12, <3>1
  <2> QED
    BY <1>13, <2>1, <2>3, <2>4
<1>18. \A i, j \in Registered' : timers'[i] = timers'[j] => i = j
  BY <1>1, <1>6 DEF Apart
<1>19. \A i \in Registered' : timers'[i] \notin InPool'
  BY <1>1, <1>6, <1>14 DEF Apart
<1>20. \A n \in Names : named'[n] \subseteq {i \in Registered' : record'[timers'[i]].name = n}
  <2> SUFFICES ASSUME NEW n \in Names, NEW i \in named'[n]
               PROVE  i \in Registered' /\ record'[timers'[i]].name = n
    OBVIOUS
  <2>1. i \in named[n] /\ ~(i \in ids /\ record[timers[i]].name = n)
    BY DEF Deleted
  <2>2. i \in Registered /\ record[timers[i]].name = n
    BY <1>1, <2>1 DEF Apart
  <2>3. i \in Registered'
    BY <1>4, <2>1, <2>2
  <2> QED
    BY <1>6, <1>8, <2>2, <2>3
<1>21. Apart'
  BY <1>1, <1>6, <1>8, <1>17, <1>18, <1>19, <1>20 DEF Apart
<1>22. TablesTyped'
  <2>1. timers' \in [Ids -> Records \cup {None}]
    BY <1>1, <1>3 DEF TypeOK
  <2>2. named' \in [Names -> SUBSET Ids]
    BY <1>1 DEF Deleted, TypeOK
  <2> QED
    BY <1>7, <1>12, <2>1, <2>2 DEF TablesTyped
<1> QED
  BY <1>4, <1>6, <1>8, <1>16, <1>21, <1>22
-----------------------------------------------------------------------------
(* A new timer takes the last record of the pool, or one nobody uses.      *)
LEMMA RecordTaken ==
    ASSUME IInv, id < MaxId, NEW r, r = NextRecord,
           pool' = IF pool # <<>> THEN SubSeq(pool, 1, Len(pool) - 1) ELSE pool
    PROVE  /\ r \in Records /\ r \notin Used
           /\ pool' \in Seq(Records) /\ InPool' = InPool \ {r}
           /\ \A m, n \in DOMAIN pool' : pool'[m] = pool'[n] => m = n
<1>1. TypeOK /\ Apart
  BY DEF IInv, RecordsApart, Apart
<1>2. CASE pool = <<>>
  <2>1. r \in Unused
    BY <1>2, RecordLeft DEF NextRecord
  <2>2. r \in Records /\ r \notin Used /\ r \notin InPool
    BY <2>1 DEF Unused, Used
  <2> QED
    BY <1>1, <1>2, <2>2 DEF InPool, TypeOK
<1>3. CASE pool # <<>>
  <2> DEFINE m == Len(pool) - 1
  <2>1. /\ pool \in Seq(Records) /\ DOMAIN pool = 1..(m + 1) /\ m \in Nat
        /\ r = pool[m + 1] /\ m + 1 \in DOMAIN pool
        /\ 1..m \subseteq DOMAIN pool
    BY <1>1, <1>3 DEF TypeOK, NextRecord
  <2>2. \A n \in 1..m : pool[n] \in Records
    BY <2>1
  <2>3. pool' = SubSeq(pool, 1, m)
    BY <1>3
  <2> HIDE DEF m
  <2>4. /\ SubSeq(pool, 1, m) \in Seq(Records)
        /\ Len(SubSeq(pool, 1, m)) = IF 1 <= m THEN m - 1 + 1 ELSE 0
        /\ \A n \in 1..(m - 1 + 1) : SubSeq(pool, 1, m)[n] = pool[1 + n - 1]
    BY <2>1, <2>2, SubSeqProperties
  <2>5. /\ pool' \in Seq(Records) /\ DOMAIN pool' = 1..m
        /\ \A n \in 1..m : pool'[n] = pool[n]
    BY <2>1, <2>3, <2>4
  <2>6. \A n \in 1..m : pool[n] # r
    BY <1>1, <2>1 DEF Apart
  <2>7. InPool' = InPool \ {r}
    <3>1. \A n \in DOMAIN pool' : pool'[n] \in InPool \ {r}
      BY <2>1, <2>5, <2>6 DEF InPool
    <3>2. ASSUME NEW n \in DOMAIN pool, pool[n] # r PROVE pool[n] \in InPool'
      <4>1. n \in 1..m
        BY <2>1, <3>2
      <4> QED
        BY <2>5, <4>1 DEF InPool
    <3> QED
      BY <3>1, <3>2 DEF InPool
  <2>8. r \in InPool
    BY <2>1 DEF InPool
  <2>9. r \in Records /\ r \notin Used
    BY <1>1, <2>1, <2>8 DEF Used, Apart
  <2>10. \A h, n \in DOMAIN pool' : pool'[h] = pool'[n] => h = n
    BY <1>1, <2>1, <2>5 DEF Apart
  <2> QED
    BY <2>5, <2>7, <2>9, <2>10
<1> QED
  BY <1>2, <1>3

(* Making a timer preserves the invariant.                                 *)
LEMMA AddTimerIInv ==
    ASSUME IInv, NEW kind \in Kinds, NEW loopcnt \in Int, AddTimer(kind, loopcnt),
           Armed([id |-> GenId, kind |-> kind]) \/ ArmingFails([id |-> GenId, kind |-> kind])
    PROVE  IInv'
<1>1. TypeOK /\ Apart
  BY DEF IInv, RecordsApart, Apart
<1>2. PICK r : r = NextRecord
  OBVIOUS
<1>a. /\ id < MaxId
      /\ id' = id + 1
      /\ pool' = IF pool # <<>> THEN SubSeq(pool, 1, Len(pool) - 1) ELSE pool
      /\ timers' = [timers EXCEPT ![id + 1] = r]
      /\ \/ armed' = armed \cup {[id |-> id + 1, kind |-> kind]} /\ unarmed' = unarmed
         \/ armed' = armed /\ unarmed' = unarmed \cup {id + 1}
      /\ asked' = [asked EXCEPT ![id + 1] = loopcnt]
      /\ UNCHANGED <<named, running, calls, deleted, midway>>
  BY <1>2 DEF AddTimer, GenId, Armed, ArmingFails
<1> DEFINE made == Filled(record[r], id + 1, kind, loopcnt)
<1>b. record' = [record EXCEPT ![r] = made]
  BY <1>2 DEF AddTimer, GenId
<1>3. /\ r \in Records /\ r \notin Used
      /\ pool' \in Seq(Records) /\ InPool' = InPool \ {r}
      /\ \A m, n \in DOMAIN pool' : pool'[m] = pool'[n] => m = n
  BY <1>2, <1>a, RecordTaken, Zenon
<1>4. /\ id \in Nat /\ id + 1 \in Ids /\ id' \in 0..MaxId /\ r # None
      /\ \A i \in Registered : i <= id /\ i \in Ids
  <2>1. id \in Nat /\ id + 1 \in Ids /\ id' \in 0..MaxId
    BY <1>1, <1>a, TimerAssumption DEF TypeOK, Ids
  <2>2. \A i \in Registered : i <= id /\ i \in Ids
    BY DEF IInv, Traced, Registered
  <2> QED
    BY <1>3, <2>1, <2>2, NoneAssumption
<1>5. /\ record'[r] \in Record /\ record'[r].id = id + 1 /\ record'[r].callback
      /\ record'[r].name = record[r].name
      /\ \A s \in Records : s # r => record'[s] = record[s]
      /\ record' \in [Records -> Record]
  <2>1. record[r] \in Record /\ id + 1 \in 0..MaxId
    BY <1>1, <1>a, <1>3, <1>4 DEF TypeOK
  <2>2. made \in Record /\ made.id = id + 1 /\ made.callback /\ made.name = record[r].name
    BY <2>1 DEF Record, Filled
  <2> HIDE DEF made
  <2> QED
    BY <1>1, <1>3, <1>b, <2>2 DEF TypeOK
<1>6. /\ timers' \in [Ids -> Records \cup {None}] /\ timers'[id + 1] = r
      /\ \A i \in Ids : i # id + 1 => timers'[i] = timers[i]
  BY <1>1, <1>a, <1>3, <1>4 DEF TypeOK
<1>7. Registered' = Registered \cup {id + 1} /\ id + 1 \notin Registered
  BY <1>4, <1>6 DEF Registered
<1>8. \A i \in Registered : timers'[i] = timers[i] /\ timers[i] \in Records /\ timers[i] # r
  BY <1>1, <1>3, <1>4, <1>6 DEF Registered, Used, TypeOK
<1>9. Used' = Used \cup {r}
  BY <1>6, <1>7, <1>8 DEF Used
<1>10. TypeOK'
  <2>1. [id |-> id + 1, kind |-> kind] \in Closure
    BY <1>4 DEF Closure
  <2>2. armed' \in SUBSET Closure /\ asked' \in [Ids -> Int] /\ unarmed' \in SUBSET Ids
    BY <1>1, <1>a, <1>4, <2>1 DEF TypeOK
  <2> QED
    BY <1>1, <1>a, <1>3, <1>4, <1>5, <1>6, <2>2 DEF TypeOK
<1>11. Apart'
  <2>1. \A i, j \in Registered' : timers'[i] = timers'[j] => i = j
    BY <1>1, <1>6, <1>7, <1>8 DEF Apart
  <2>2. \A i \in Registered' : /\ timers'[i] \notin InPool'
                               /\ record'[timers'[i]].id = i /\ record'[timers'[i]].callback
    BY <1>1, <1>3, <1>5, <1>6, <1>7, <1>8 DEF Apart
  <2>3. \A n \in Names : named'[n] \subseteq {i \in Registered' : record'[timers'[i]].name = n}
    BY <1>1, <1>a, <1>5, <1>7, <1>8 DEF Apart
  <2> QED
    BY <1>3, <2>1, <2>2, <2>3 DEF Apart
<1>12. Traced'
  <2>1. \A f \in running' : f.obj \in Used' \cup InPool'
    BY <1>a, <1>3, <1>9 DEF IInv, Traced
  <2>2. \A i \in Registered' : i <= id'
    BY <1>a, <1>4, <1>7, TimerAssumption DEF Ids
  <2> QED
    BY <2>1, <2>2 DEF Traced
<1>13. Awaited'
  <2> DEFINE new == [id |-> id + 1, kind |-> kind]
  <2>1. /\ new.id = id + 1 /\ running' = running /\ id' = id + 1
        /\ \/ armed' = armed \cup {new} /\ unarmed' = unarmed
           \/ armed' = armed /\ unarmed' = unarmed \cup {id + 1}
    BY <1>a
  <2> HIDE DEF new
  <2>2. \A c \in armed : c.id <= id /\ c.id \in Int
    BY <1>1 DEF IInv, Awaited, TypeOK, Closure, Ids
  <2>3. \A f \in running : f.closure.id <= id /\ f.closure.id \in Int
    BY <1>1 DEF IInv, Awaited, TypeOK, Closure, Ids
  <2>4. CASE armed' = armed \cup {new} /\ unarmed' = unarmed
    BY <1>4, <1>7, <2>1, <2>2, <2>3, <2>4 DEF IInv, Awaited
  <2>5. CASE armed' = armed /\ unarmed' = unarmed \cup {id + 1}
    BY <1>4, <1>7, <2>1, <2>2, <2>3, <2>5 DEF IInv, Awaited
  <2> QED
    BY <2>1, <2>4, <2>5
<1> QED
  BY <1>10, <1>11, <1>12, <1>13 DEF IInv, RecordsApart, Apart

(* Naming a timer preserves the invariant: nobody else has its record.     *)
LEMMA NameIInv ==
    ASSUME IInv, NEW i \in Ids, NEW n \in Names, Name(i, n)
    PROVE  IInv'
<1>1. TypeOK /\ Apart
  BY DEF IInv, RecordsApart, Apart
<1>2. PICK r : r = timers[i]
  OBVIOUS
<1>3. /\ i \in Registered
      /\ named' = [m \in Names |-> IF m = n THEN named[m] \cup {i}
                                   ELSE IF m = record[r].name THEN named[m] \ {i}
                                   ELSE named[m]]
      /\ record' = [record EXCEPT ![r].name = n]
      /\ UNCHANGED <<id, timers, pool, armed, running, calls, asked, deleted, midway, unarmed>>
  BY <1>2 DEF Name
<1>4. r \in Records /\ record[r] \in Record
  BY <1>1, <1>2, <1>3 DEF Registered, TypeOK
<1>5. /\ record' \in [Records -> Record]
      /\ record'[r].name = n /\ record'[r].id = record[r].id
      /\ record'[r].callback = record[r].callback
      /\ \A s \in Records : s # r => record'[s] = record[s]
  <2>1. [record[r] EXCEPT !.name = n] \in Record
    BY <1>4 DEF Record
  <2>2. record' = [record EXCEPT ![r] = [record[r] EXCEPT !.name = n]]
    BY <1>3
  <2>3. record \in [Records -> Record]
    BY <1>1 DEF TypeOK
  <2> QED
    BY <1>4, <2>1, <2>2, <2>3 DEF Record
<1>6. Registered' = Registered /\ InPool' = InPool /\ Used' = Used
  BY <1>3 DEF Registered, InPool, Used
<1>7. TypeOK'
  <2>1. named' \in [Names -> SUBSET Ids]
    BY <1>1, <1>3 DEF TypeOK
  <2> QED
    BY <1>1, <1>3, <1>5, <2>1 DEF TypeOK
<1>8. \A j \in Registered : /\ timers[j] \in Records
                            /\ j # i => timers[j] # r
  BY <1>1, <1>2, <1>3 DEF Registered, Apart, TypeOK
<1>9. Apart'
  <2>1. \A m \in Names : named'[m] \subseteq {j \in Registered : record'[timers[j]].name = m}
    <3> SUFFICES ASSUME NEW m \in Names, NEW j \in named'[m]
                 PROVE  j \in Registered /\ record'[timers[j]].name = m
      OBVIOUS
    <3>1. CASE j = i
      <4>1. m = n
        BY <1>1, <1>2, <1>3, <3>1 DEF Apart
      <4> QED
        BY <1>2, <1>3, <1>5, <3>1, <4>1
    <3>2. CASE j # i
      <4>1. j \in named[m]
        BY <1>3, <3>2
      <4>2. j \in Registered /\ record[timers[j]].name = m
        BY <1>1, <4>1 DEF Apart
      <4> QED
        BY <1>5, <1>8, <3>2, <4>2
    <3> QED
      BY <3>1, <3>2
  <2>2. \A j \in Registered : /\ record'[timers[j]].id = j
                              /\ record'[timers[j]].callback
    BY <1>1, <1>2, <1>5, <1>8 DEF Apart
  <2> QED
    BY <1>1, <1>3, <1>6, <2>1, <2>2 DEF Apart
<1>10. Traced' /\ Awaited'
  BY <1>3, <1>6 DEF IInv, Traced, Awaited
<1> QED
  BY <1>7, <1>9, <1>10 DEF IInv, RecordsApart, Apart

(* Deleting timers that are there preserves the invariant, whatever runs.  *)
LEMMA DeletedIInv ==
    ASSUME IInv, NEW ids \in SUBSET Registered, Deleted(ids, record),
           deleted' = deleted \cup ids, midway' = midway \cup CalledBack(ids),
           UNCHANGED <<id, armed, running, calls, asked, unarmed>>
    PROVE  IInv'
<1>1. /\ TypeOK
      /\ TablesTyped' /\ Apart'
      /\ Registered' = Registered \ ids
      /\ Used' \cup InPool' = Used \cup InPool
  <2>1. TypeOK /\ record \in [Records -> Record]
    BY DEF IInv, RecordsApart, TypeOK
  <2> QED
    BY <2>1, DeletedKeeps
<1>2. ids \subseteq Ids /\ CalledBack(ids) \subseteq ids
  BY DEF Registered, CalledBack
<1>3. TypeOK'
  BY <1>1, <1>2 DEF TypeOK, TablesTyped
<1>4. Traced' /\ Awaited'
  BY <1>1 DEF IInv, Traced, Awaited
<1> QED
  BY <1>1, <1>3, <1>4 DEF IInv, RecordsApart, Apart

(* So does a closure that runs: it is in its callback, or finds no timer.  *)
LEMMA FireIInv ==
    ASSUME IInv, NEW c \in armed, Fire(c)
    PROVE  IInv'
<1>1. TypeOK /\ Apart
  BY DEF IInv, RecordsApart, Apart
<1>2. /\ armed' = armed \ {c}
      /\ UNCHANGED <<id, timers, named, record, pool, asked, deleted, midway, unarmed>>
  BY DEF Fire
<1>3. Registered' = Registered /\ InPool' = InPool /\ Used' = Used
  BY <1>2 DEF Registered, InPool, Used
<1>4. c \in Closure /\ c.id \in Ids
  BY <1>1 DEF TypeOK, Closure
<1>5. Apart'
  BY <1>1, <1>2, <1>3 DEF Apart
<1>6. CASE c.id \in Registered
  <2> DEFINE g == [closure |-> c, obj |-> timers[c.id]]
  <2>1. running' = running \cup {g} /\ calls' = [calls EXCEPT ![c.id] = @ + 1]
    BY <1>6 DEF Fire
  <2>2. /\ g.closure = c /\ g.obj = timers[c.id] /\ timers[c.id] \in Records
        /\ g \in [closure : Closure, obj : Records]
    BY <1>1, <1>4, <1>6 DEF Registered, TypeOK
  <2> HIDE DEF g
  <2>3. TypeOK'
    BY <1>1, <1>2, <1>4, <2>1, <2>2 DEF TypeOK
  <2>4. Traced'
    BY <1>2, <1>3, <1>6, <2>1, <2>2 DEF IInv, Traced, Used
  <2>5. Awaited'
    BY <1>2, <1>3, <2>1, <2>2 DEF IInv, Awaited
  <2> QED
    BY <1>5, <2>3, <2>4, <2>5 DEF IInv, RecordsApart, Apart
<1>7. CASE c.id \notin Registered
  <2>1. running' = running /\ calls' = calls
    BY <1>7 DEF Fire
  <2>2. TypeOK'
    BY <1>1, <1>2, <2>1 DEF TypeOK
  <2>3. Traced' /\ Awaited'
    BY <1>2, <1>3, <1>7, <2>1 DEF IInv, Traced, Awaited
  <2> QED
    BY <1>5, <2>2, <2>3 DEF IInv, RecordsApart, Apart
<1> QED
  BY <1>6, <1>7

(* A callback that returns deletes its timer, if it is still there, or     *)
(* waits for it again.                                                     *)
LEMMA ReturnIInv ==
    ASSUME IInv, NEW f \in running, OnceReturns(f) \/ LoopReturns(f) \/ CronReturns(f)
    PROVE  IInv'
<1>1. TypeOK /\ Apart
  BY DEF IInv, RecordsApart, Apart
<1>2. PICK i, c : i = f.closure.id /\ c = f.closure
  OBVIOUS
<1>3. /\ c \in Closure /\ c.id = i /\ i \in Ids /\ f.obj \in Records
      /\ running' = running \ {f} /\ UNCHANGED <<id, calls, asked, deleted, midway>>
  BY <1>1, <1>2 DEF TypeOK, Closure, OnceReturns, LoopReturns, CronReturns
<1>4. ASSUME NEW ids \in SUBSET ({i} \cap Registered), NEW fields \in [Records -> Record],
             \A r \in Records : /\ fields[r].id = record[r].id
                                /\ fields[r].callback = record[r].callback
                                /\ fields[r].name = record[r].name,
             Deleted(ids, fields), unarmed' = unarmed,
             armed' = armed \cup {c} \/ (armed' = armed /\ ids = {i} \cap Registered)
      PROVE  IInv'
  <2>1. /\ TablesTyped' /\ Apart'
        /\ Registered' = Registered \ ids
        /\ Used' \cup InPool' = Used \cup InPool
    <3>1. ids \in SUBSET Registered
      OBVIOUS
    <3> QED
      BY <1>4, <3>1, DeletedKeeps
  <2>2. TypeOK'
    BY <1>1, <1>3, <1>4, <2>1 DEF TypeOK, TablesTyped
  <2>3. Traced'
    BY <1>3, <2>1 DEF IInv, Traced
  <2>4. Awaited'
    <3>1. CASE armed' = armed \cup {c}
      BY <1>2, <1>3, <1>4, <2>1, <3>1 DEF IInv, Awaited
    <3>2. CASE armed' = armed /\ ids = {i} \cap Registered
      BY <1>2, <1>3, <1>4, <2>1, <3>2 DEF IInv, Awaited
    <3> QED
      BY <1>4, <3>1, <3>2
  <2> QED
    BY <2>1, <2>2, <2>3, <2>4 DEF IInv, RecordsApart, Apart
<1>5. CASE OnceReturns(f)
  <2>1. Deleted({i} \cap Registered, record) /\ armed' = armed /\ unarmed' = unarmed
    BY <1>2, <1>5 DEF OnceReturns
  <2> QED
    BY <1>1, <1>4, <2>1 DEF TypeOK
<1>6. CASE LoopReturns(f)
  <2> DEFINE r == f.obj
             counted == [record EXCEPT ![r].cnt = @ + 1]
             over == record[r].loopcnt # -1 /\ counted[r].cnt >= record[r].loopcnt
             ids == IF over THEN {i} \cap Registered ELSE {}
  <2>1. /\ Deleted(ids, counted) /\ armed' = IF over THEN armed ELSE armed \cup {c}
        /\ unarmed' = unarmed
    BY <1>2, <1>6 DEF LoopReturns
  <2>2. /\ counted \in [Records -> Record]
        /\ \A s \in Records : /\ counted[s].id = record[s].id
                              /\ counted[s].callback = record[s].callback
                              /\ counted[s].name = record[s].name
    <3>1. record \in [Records -> Record] /\ record[r] \in Record
      BY <1>1, <1>3 DEF TypeOK
    <3>2. [record[r] EXCEPT !.cnt = @ + 1] \in Record
      BY <3>1 DEF Record
    <3> QED
      BY <1>3, <3>1, <3>2 DEF Record
  <2>3. /\ ids \in SUBSET ({i} \cap Registered)
        /\ armed' = armed \cup {c} \/ (armed' = armed /\ ids = {i} \cap Registered)
    BY <2>1
  <2> QED
    <3> HIDE DEF counted, over, ids, r
    <3> QED
      BY <1>4, <2>1, <2>2, <2>3
<1>7. CASE CronReturns(f)
  <2>1. /\ UNCHANGED <<timers, named, record, pool>>
        /\ \/ armed' = armed \cup {c} /\ unarmed' = unarmed
           \/ armed' = armed /\ unarmed' = unarmed \cup {i}
    BY <1>2, <1>3, <1>7 DEF CronReturns, Armed, ArmingFails
  <2>2. Registered' = Registered /\ InPool' = InPool /\ Used' = Used
    BY <2>1 DEF Registered, InPool, Used
  <2>3. TypeOK'
    BY <1>1, <1>3, <2>1 DEF TypeOK
  <2>4. Apart'
    BY <1>1, <2>1, <2>2 DEF Apart
  <2>5. Traced'
    BY <1>3, <2>1, <2>2 DEF IInv, Traced
  <2>6. Awaited'
    <3>1. CASE armed' = armed \cup {c} /\ unarmed' = unarmed
      BY <1>2, <1>3, <2>1, <2>2, <3>1 DEF IInv, Awaited
    <3>2. CASE armed' = armed /\ unarmed' = unarmed \cup {i}
      BY <1>2, <1>3, <2>1, <2>2, <3>2 DEF IInv, Awaited
    <3> QED
      BY <2>1, <3>1, <3>2
  <2> QED
    BY <2>3, <2>4, <2>5, <2>6 DEF IInv, RecordsApart, Apart
<1> QED
  BY <1>5, <1>6, <1>7
-----------------------------------------------------------------------------
(* The inductive invariant holds initially.                                *)
LEMMA InitIInv == Init => IInv
<1> SUFFICES ASSUME Init PROVE IInv
  OBVIOUS
<1>1. Registered = {} /\ pool = <<>> /\ armed = {} /\ running = {}
  BY DEF Init, Registered
<1>2. pool \in Seq(Records) /\ DOMAIN pool = {} /\ InPool = {}
  BY <1>1 DEF InPool
<1>3. TypeOK
  <2>1. id \in 0..MaxId
    BY TimerAssumption DEF Init
  <2>2. record \in [Records -> Record]
    <3>1. [id |-> 0, callback |-> FALSE, cnt |-> 0, loopcnt |-> 0, name |-> None] \in Record
      BY TimerAssumption DEF Record
    <3> QED
      BY <3>1 DEF Init
  <2>3. timers \in [Ids -> Records \cup {None}] /\ named \in [Names -> SUBSET Ids]
    BY DEF Init
  <2>4. calls \in [Ids -> Nat] /\ asked \in [Ids -> Int] /\ deleted = {} /\ midway = {}
        /\ unarmed = {}
    BY DEF Init
  <2> QED
    BY <1>1, <1>2, <2>1, <2>2, <2>3, <2>4 DEF TypeOK
<1>4. Apart
  BY <1>1, <1>2 DEF Init, Apart
<1>5. Traced /\ Awaited
  BY <1>1 DEF Traced, Awaited
<1> QED
  BY <1>3, <1>4, <1>5 DEF IInv, RecordsApart, Apart

(* Every step of the timers preserves it.                                  *)
LEMMA NextIInv == IInv /\ [Next]_vars => IInv'
<1> SUFFICES ASSUME IInv, [Next]_vars PROVE IInv'
  OBVIOUS
<1>1. CASE UNCHANGED vars
  BY <1>1 DEF vars, IInv, RecordsApart, TypeOK, Traced, Awaited, Used, InPool, Registered
<1>2. CASE Timeout \/ TimeLoop \/ TimeLoopFails \/ CronTimeout \/ CronTimeoutFails
  <2>1. {"once", "loop", "cron"} = Kinds /\ 0 \in Int /\ LoopCounts \subseteq Int
    BY TimerAssumption DEF Kinds
  <2> QED
    BY <1>2, <2>1, AddTimerIInv
    DEF Timeout, TimeLoop, TimeLoopFails, CronTimeout, CronTimeoutFails, Added, AddedUnarmed
<1>3. ASSUME NEW i \in Ids, DelTimer(i) PROVE IInv'
  <2>1. {i} \in SUBSET Registered
    BY <1>3 DEF DelTimer
  <2> QED
    BY <1>3, <2>1, DeletedIInv DEF DelTimer
<1>4. ASSUME NEW i \in Ids, NEW n \in Names, Name(i, n) PROVE IInv'
  BY <1>4, NameIInv
<1>5. ASSUME NEW n \in Names, UnTimeout(n) PROVE IInv'
  <2> DEFINE ids == named[n] \cap Registered
  <2>1. /\ ids \in SUBSET Registered /\ Deleted(ids, record)
        /\ deleted' = deleted \cup ids /\ midway' = midway \cup CalledBack(ids)
        /\ UNCHANGED <<id, armed, running, calls, asked, unarmed>>
    BY <1>5 DEF UnTimeout
  <2> HIDE DEF ids
  <2> QED
    BY <2>1, DeletedIInv
<1>6. ASSUME NEW c \in armed, Fire(c) PROVE IInv'
  BY <1>6, FireIInv
<1>7. ASSUME NEW f \in running, OnceReturns(f) \/ LoopReturns(f) \/ CronReturns(f)
      PROVE  IInv'
  BY <1>7, ReturnIInv
<1> QED
  BY <1>1, <1>2, <1>3, <1>4, <1>5, <1>6, <1>7 DEF Next

(* Every reachable state of the timers satisfies the inductive invariant.  *)
THEOREM Inductive == Spec => []IInv
BY InitIInv, NextIInv, PTL DEF Spec

(* No two timers share a record, and no pooled record is a timer's,        *)
(* whatever callbacks delete and make before they return.                  *)
THEOREM RecordsStayApart == Spec => []RecordsApart
<1>1. IInv => RecordsApart
  BY DEF IInv
<1> QED
  BY <1>1, Inductive, PTL

(* No timer has two closures that wait for it or call it back, and every   *)
(* timer there is has one, but for those whose arming raised an error.     *)
THEOREM EachWaitedForOnce == Spec => []WaitedForOnce
<1>1. IInv => WaitedForOnce
  <2> SUFFICES ASSUME IInv, NEW i \in Ids
               PROVE  Waits(i) <= 1 /\ (i \in Registered \ unarmed => Waits(i) = 1)
    BY DEF WaitedForOnce
  <2>1. Cardinality({}) = 0
    BY FS_EmptySet
  <2>2. ASSUME NEW c \in armed, c.id = i
        PROVE  /\ {d \in armed : d.id = i} = {c}
               /\ {f \in running : f.closure.id = i} = {}
    BY <2>2 DEF IInv, Awaited
  <2>3. ASSUME NEW f \in running, f.closure.id = i
        PROVE  /\ {g \in running : g.closure.id = i} = {f}
               /\ {c \in armed : c.id = i} = {}
    BY <2>3 DEF IInv, Awaited
  <2>4. \A x : Cardinality({x}) = 1
    BY FS_Singleton
  <2>5. i \in Registered \ unarmed =>
            (\E c \in armed : c.id = i) \/ (\E f \in running : f.closure.id = i)
    BY DEF IInv, Awaited
  <2>6. CASE \E c \in armed : c.id = i
    <3>1. PICK c \in armed : c.id = i
      BY <2>6
    <3> DEFINE A == {d \in armed : d.id = i}
               B == {g \in running : g.closure.id = i}
    <3>2. A = {c} /\ B = {}
      BY <2>2, <3>1
    <3>3. Cardinality(A) = 1 /\ Cardinality(B) = 0
      BY <2>1, <2>4, <3>2, Zenon
    <3> QED
      BY <3>3 DEF Waits
  <2>7. CASE \E f \in running : f.closure.id = i
    <3>1. PICK f \in running : f.closure.id = i
      BY <2>7
    <3> DEFINE A == {d \in armed : d.id = i}
               B == {g \in running : g.closure.id = i}
    <3>2. A = {} /\ B = {f}
      BY <2>3, <3>1
    <3>3. Cardinality(A) = 0 /\ Cardinality(B) = 1
      BY <2>1, <2>4, <3>2, Zenon
    <3> QED
      BY <3>3 DEF Waits
  <2>8. CASE ~(\E c \in armed : c.id = i) /\ ~(\E f \in running : f.closure.id = i)
    <3>1. {c \in armed : c.id = i} = {} /\ {f \in running : f.closure.id = i} = {}
      BY <2>8
    <3>2. Waits(i) = 0
      BY <2>1, <3>1 DEF Waits
    <3> QED
      BY <2>5, <2>8, <3>2
  <2> QED
    BY <2>6, <2>7, <2>8
<1> QED
  BY <1>1, Inductive, PTL
-----------------------------------------------------------------------------
(* Counting the calls.  While no timer is deleted in the middle of its     *)
(* callback, a callback that runs holds the record of its own timer, and   *)
(* the record of a loop counts its calls, but for the one that runs.       *)
Busy(i) == IF \E f \in running : f.closure.id = i THEN 1 ELSE 0

LoopOK(i) ==
    LET r == record[timers[i]] IN
    r.loopcnt = asked[i] /\ r.cnt < asked[i] /\ calls[i] = r.cnt + Busy(i)

Kept == \A f \in running : f.closure.id \in Registered /\ f.obj = timers[f.closure.id]

Ended ==
    \A i \in Ids \ Registered :
        asked[i] > 0 => calls[i] <= asked[i] /\ (i \in deleted \/ calls[i] = asked[i])

Counted == Kept /\ (\A i \in Registered : asked[i] > 0 => LoopOK(i)) /\ Ended

(* Only closures of loops belong to a timer that was given a count, and    *)
(* nothing is known of a timer that is not yet made.                       *)
Kinded ==
    /\ \A c \in armed : asked[c.id] > 0 => c.kind = "loop"
    /\ \A f \in running : asked[f.closure.id] > 0 => f.closure.kind = "loop"
    /\ \A i \in Ids : i > id => asked[i] = 0 /\ calls[i] = 0

CInv == IInv /\ Kinded /\ (midway = {} => Counted)

(* What the count says follows.                                            *)
LEMMA CountedIsAsOften == CInv => LoopsAsOften
<1> SUFFICES ASSUME CInv, midway = {}, NEW i \in 1..id, asked[i] > 0
             PROVE  /\ calls[i] <= asked[i]
                    /\ i \notin Registered \cup deleted => calls[i] = asked[i]
  BY DEF LoopsAsOften, AsOften
<1>1. i \in Ids /\ TypeOK /\ Counted
  BY TimerAssumption DEF CInv, IInv, RecordsApart, TypeOK, Ids
<1>2. CASE i \in Registered
  <2>1. LoopOK(i) /\ Busy(i) \in {0, 1}
    BY <1>1, <1>2 DEF Counted, Busy
  <2>2. record[timers[i]] \in Record
    BY <1>1, <1>2 DEF TypeOK, Registered
  <2>3. record[timers[i]].cnt \in Nat /\ asked[i] \in Int
    BY <1>1, <2>2 DEF Record, TypeOK
  <2> QED
    BY <1>2, <2>1, <2>3 DEF LoopOK
<1>3. CASE i \notin Registered
  BY <1>1, <1>3 DEF Counted, Ended
<1> QED
  BY <1>2, <1>3

(* A new loop starts to count at zero.                                     *)
LEMMA AddTimerCounts ==
    ASSUME CInv, NEW kind \in Kinds, NEW loopcnt \in Int, kind = "loop" \/ loopcnt = 0,
           AddTimer(kind, loopcnt),
           Armed([id |-> GenId, kind |-> kind]) \/ ArmingFails([id |-> GenId, kind |-> kind])
    PROVE  Kinded' /\ (midway' = {} => Counted')
<1>1. IInv /\ TypeOK /\ Apart /\ Kinded
  BY DEF CInv, IInv, RecordsApart, Apart
<1>2. PICK r : r = NextRecord
  OBVIOUS
<1>3. /\ id < MaxId
      /\ id' = id + 1
      /\ pool' = IF pool # <<>> THEN SubSeq(pool, 1, Len(pool) - 1) ELSE pool
      /\ timers' = [timers EXCEPT ![id + 1] = r]
      /\ \/ armed' = armed \cup {[id |-> id + 1, kind |-> kind]} /\ unarmed' = unarmed
         \/ armed' = armed /\ unarmed' = unarmed \cup {id + 1}
      /\ asked' = [asked EXCEPT ![id + 1] = loopcnt]
      /\ UNCHANGED <<named, running, calls, deleted, midway>>
  BY <1>2 DEF AddTimer, GenId, Armed, ArmingFails
<1> DEFINE made == Filled(record[r], id + 1, kind, loopcnt)
<1>4. record' = [record EXCEPT ![r] = made]
  BY <1>2 DEF AddTimer, GenId
<1>5. r \in Records /\ r \notin Used
  BY <1>1, <1>2, <1>3, RecordTaken, Zenon
<1>6. /\ id \in Nat /\ id + 1 \in Ids /\ r # None
      /\ \A i \in Registered : i <= id /\ i \in Ids
  <2>1. id \in Nat /\ id + 1 \in Ids
    BY <1>1, <1>3, TimerAssumption DEF TypeOK, Ids
  <2>2. \A i \in Registered : i <= id /\ i \in Ids
    BY <1>1 DEF IInv, Traced, Registered
  <2> QED
    BY <1>5, <2>1, <2>2, NoneAssumption
<1>7. /\ kind = "loop" => record'[r].cnt = 0 /\ record'[r].loopcnt = loopcnt
      /\ \A s \in Records : s # r => record'[s] = record[s]
  <2>1. record[r] \in Record
    BY <1>1, <1>5 DEF TypeOK
  <2>2. kind = "loop" => made.cnt = 0 /\ made.loopcnt = loopcnt
    BY <2>1 DEF Record, Filled
  <2> HIDE DEF made
  <2> QED
    BY <1>1, <1>4, <1>5, <2>2 DEF TypeOK
<1>8. /\ timers'[id + 1] = r /\ asked'[id + 1] = loopcnt
      /\ \A i \in Ids : i # id + 1 => timers'[i] = timers[i] /\ asked'[i] = asked[i]
  BY <1>1, <1>3, <1>5, <1>6 DEF TypeOK
<1>9. Registered' = Registered \cup {id + 1} /\ id + 1 \notin Registered
  BY <1>6, <1>8 DEF Registered
<1>10. \A i \in Registered : timers'[i] = timers[i] /\ timers[i] \in Records /\ timers[i] # r
  BY <1>1, <1>5, <1>6, <1>8 DEF Registered, Used, TypeOK
<1>11. /\ \A c \in armed : c.id <= id /\ c.id \in Ids
       /\ \A f \in running : f.closure.id <= id /\ f.closure.id \in Ids
  BY <1>1 DEF IInv, Awaited, TypeOK, Closure
<1>12. Kinded'
  <2> DEFINE new == [id |-> id + 1, kind |-> kind]
  <2>1. new.id = id + 1 /\ new.kind = kind /\ armed' \subseteq armed \cup {new}
    BY <1>3
  <2> HIDE DEF new
  <2>2. \A c \in armed' : asked'[c.id] > 0 => c.kind = "loop"
    BY <1>1, <1>6, <1>8, <1>11, <2>1 DEF Kinded
  <2>3. \A f \in running' : asked'[f.closure.id] > 0 => f.closure.kind = "loop"
    BY <1>1, <1>3, <1>6, <1>8, <1>11 DEF Kinded
  <2>4. \A i \in Ids : i > id' => asked'[i] = 0 /\ calls'[i] = 0
    BY <1>1, <1>3, <1>6, <1>8 DEF Kinded, Ids
  <2> QED
    BY <2>2, <2>3, <2>4 DEF Kinded
<1>13. ASSUME midway' = {} PROVE Counted'
  <2>1. Counted
    BY <1>3, <1>13 DEF CInv
  <2>2. Kept'
    BY <1>3, <1>6, <1>9, <1>10, <2>1 DEF Counted, Kept
  <2>3. ASSUME NEW i \in Registered', asked'[i] > 0 PROVE LoopOK(i)'
    <3>1. CASE i = id + 1
      <4>1. kind = "loop" /\ loopcnt > 0
        BY <1>8, <2>3, <3>1
      <4>2. calls'[i] = 0
        BY <1>1, <1>3, <1>6, <3>1 DEF Kinded
      <4>3. Busy(i)' = 0
        BY <1>3, <1>6, <1>11, <3>1 DEF Busy
      <4> QED
        BY <1>7, <1>8, <3>1, <4>1, <4>2, <4>3 DEF LoopOK
    <3>2. CASE i # id + 1
      <4>1. i \in Registered /\ i \in Ids /\ LoopOK(i)
        BY <1>6, <1>8, <1>9, <2>1, <2>3, <3>2 DEF Counted
      <4>2. Busy(i)' = Busy(i)
        BY <1>3 DEF Busy
      <4> QED
        BY <1>3, <1>7, <1>8, <1>10, <3>2, <4>1, <4>2 DEF LoopOK
    <3> QED
      BY <3>1, <3>2
  <2>4. Ended'
    BY <1>3, <1>8, <1>9, <2>1 DEF Counted, Ended
  <2> QED
    BY <2>2, <2>3, <2>4 DEF Counted
<1> QED
  BY <1>12, <1>13

(* A deletion outside the callback of the timer leaves the counts.         *)
LEMMA DeletedCounts ==
    ASSUME CInv, NEW ids \in SUBSET Registered, Deleted(ids, record),
           deleted' = deleted \cup ids, midway' = midway \cup CalledBack(ids),
           UNCHANGED <<id, armed, running, calls, asked, unarmed>>
    PROVE  Kinded' /\ (midway' = {} => Counted')
<1>1. /\ Registered' = Registered \ ids
      /\ \A i \in Registered' : timers'[i] = timers[i] /\ record'[timers[i]] = record[timers[i]]
  <2>1. IInv /\ record \in [Records -> Record]
    BY DEF CInv, IInv, RecordsApart, TypeOK
  <2> QED
    BY <2>1, DeletedKeeps
<1>2. Kinded'
  BY DEF CInv, Kinded
<1>3. ASSUME midway' = {} PROVE Counted'
  <2>1. Counted /\ \A f \in running : f.closure.id \notin ids
    BY <1>3 DEF CInv, CalledBack
  <2>2. Kept'
    BY <1>1, <2>1 DEF Counted, Kept
  <2>3. ASSUME NEW i \in Registered', asked'[i] > 0 PROVE LoopOK(i)'
    <3>1. i \in Registered /\ LoopOK(i) /\ Busy(i)' = Busy(i)
      BY <1>1, <2>1, <2>3 DEF Counted, Busy
    <3> QED
      BY <1>1, <2>3, <3>1 DEF LoopOK
  <2>4. Ended'
    <3> SUFFICES ASSUME NEW i \in Ids \ Registered', asked[i] > 0
                 PROVE  calls[i] <= asked[i] /\ (i \in deleted' \/ calls[i] = asked[i])
      BY DEF Ended
    <3>1. CASE i \in ids
      <4>1. LoopOK(i) /\ Busy(i) = 0 /\ i \in Registered
        BY <2>1, <3>1 DEF Counted, Busy
      <4>2. record[timers[i]].cnt \in Nat /\ asked[i] \in Int
        BY <4>1 DEF CInv, IInv, RecordsApart, TypeOK, Registered, Record
      <4> QED
        BY <3>1, <4>1, <4>2 DEF LoopOK
    <3>2. CASE i \notin ids
      BY <1>1, <2>1, <3>2 DEF Counted, Ended
    <3> QED
      BY <3>1, <3>2
  <2> QED
    BY <2>2, <2>3, <2>4 DEF Counted
<1> QED
  BY <1>2, <1>3

(* A name is nothing the counts depend on.                                 *)
LEMMA NameCounts ==
    ASSUME CInv, NEW i \in Ids, NEW n \in Names, Name(i, n)
    PROVE  Kinded' /\ (midway' = {} => Counted')
<1>1. IInv /\ TypeOK /\ i \in Registered
  BY DEF CInv, IInv, RecordsApart, Name
<1>2. /\ record' = [record EXCEPT ![timers[i]].name = n]
      /\ UNCHANGED <<id, timers, pool, armed, running, calls, asked, deleted, midway, unarmed>>
  BY DEF Name
<1>3. \A r \in Records : record'[r].cnt = record[r].cnt /\ record'[r].loopcnt = record[r].loopcnt
  <2>1. /\ timers[i] \in Records /\ record \in [Records -> Record]
        /\ record[timers[i]] \in Record
    BY <1>1 DEF TypeOK, Registered
  <2> QED
    BY <1>2, <2>1 DEF Record
<1>4. Registered' = Registered /\ \A j \in Registered : timers[j] \in Records /\ Busy(j)' = Busy(j)
  BY <1>1, <1>2 DEF Registered, TypeOK, Busy
<1>5. Kinded'
  BY <1>2 DEF CInv, Kinded
<1>6. ASSUME midway' = {} PROVE Counted'
  <2>1. Counted
    BY <1>2, <1>6 DEF CInv
  <2>2. Kept' /\ Ended'
    BY <1>2, <1>4, <2>1 DEF Counted, Kept, Ended
  <2>3. ASSUME NEW j \in Registered', asked'[j] > 0 PROVE LoopOK(j)'
    <3>1. LoopOK(j) /\ j \in Registered
      BY <1>2, <1>4, <2>1, <2>3 DEF Counted
    <3> QED
      BY <1>2, <1>3, <1>4, <3>1 DEF LoopOK
  <2> QED
    BY <2>2, <2>3 DEF Counted
<1> QED
  BY <1>5, <1>6

(* A call is counted for its timer when it begins.                         *)
LEMMA FireCounts ==
    ASSUME CInv, NEW c \in armed, Fire(c)
    PROVE  Kinded' /\ (midway' = {} => Counted')
<1>1. IInv /\ TypeOK /\ Kinded /\ c \in Closure /\ c.id \in Ids
  BY DEF CInv, IInv, RecordsApart, TypeOK, Closure
<1>2. /\ armed' = armed \ {c}
      /\ UNCHANGED <<id, timers, named, record, pool, asked, deleted, midway, unarmed>>
  BY DEF Fire
<1>3. Registered' = Registered
  BY <1>2 DEF Registered
<1>4. CASE c.id \notin Registered
  <2>1. running' = running /\ calls' = calls
    BY <1>4 DEF Fire
  <2> QED
    BY <1>1, <1>2, <1>3, <2>1 DEF CInv, Kinded, Counted, Kept, Ended, LoopOK, Busy
<1>5. CASE c.id \in Registered
  <2> DEFINE g == [closure |-> c, obj |-> timers[c.id]]
  <2>1. running' = running \cup {g} /\ calls' = [calls EXCEPT ![c.id] = @ + 1]
    BY <1>5 DEF Fire
  <2>2. g.closure = c /\ g.obj = timers[c.id]
    OBVIOUS
  <2> HIDE DEF g
  <2>3. /\ calls'[c.id] = calls[c.id] + 1
        /\ \A i \in Ids : i # c.id => calls'[i] = calls[i]
    BY <1>1, <2>1 DEF TypeOK
  <2>4. c.id <= id /\ \A f \in running : f.closure.id # c.id
    BY <1>1 DEF IInv, Awaited
  <2>5. Kinded'
    <3>1. \A i \in Ids : i > id => i # c.id
      BY <1>1, <2>4 DEF TypeOK, Ids
    <3> QED
      BY <1>1, <1>2, <2>1, <2>2, <2>3, <3>1 DEF Kinded
  <2>6. ASSUME midway' = {} PROVE Counted'
    <3>1. Counted
      BY <1>2, <2>6 DEF CInv
    <3>2. Kept'
      BY <1>2, <1>3, <1>5, <2>1, <2>2, <3>1 DEF Counted, Kept
    <3>3. Ended'
      BY <1>2, <1>3, <1>5, <2>3, <3>1 DEF Counted, Ended
    <3>4. ASSUME NEW i \in Registered', asked'[i] > 0 PROVE LoopOK(i)'
      <4>1. i \in Registered /\ i \in Ids /\ LoopOK(i)
        BY <1>2, <1>3, <3>1, <3>4 DEF Counted, Registered
      <4>2. record[timers[i]].cnt \in Nat
        BY <1>1, <4>1 DEF TypeOK, Registered, Record
      <4>3. CASE i = c.id
        <5>1. Busy(i) = 0 /\ Busy(i)' = 1
          BY <2>1, <2>2, <2>4, <4>3 DEF Busy
        <5> QED
          BY <1>2, <2>3, <4>1, <4>2, <4>3, <5>1 DEF LoopOK
      <4>4. CASE i # c.id
        <5>1. Busy(i)' = Busy(i)
          BY <2>1, <2>2, <4>4 DEF Busy
        <5> QED
          BY <1>2, <2>3, <4>1, <4>4, <5>1 DEF LoopOK
      <4> QED
        BY <4>3, <4>4
    <3> QED
      BY <3>2, <3>3, <3>4 DEF Counted
  <2> QED
    BY <2>5, <2>6
<1> QED
  BY <1>4, <1>5

(* A loop that returns is counted in its record; it is over when the count *)
(* is what was asked for.                                                  *)
LEMMA ReturnCounts ==
    ASSUME CInv, NEW f \in running, OnceReturns(f) \/ LoopReturns(f) \/ CronReturns(f)
    PROVE  Kinded' /\ (midway' = {} => Counted')
<1>1. IInv /\ TypeOK /\ Apart /\ Kinded
  BY DEF CInv, IInv, RecordsApart, Apart
<1>2. PICK i, c, r : i = f.closure.id /\ c = f.closure /\ r = f.obj
  OBVIOUS
<1>3. /\ c \in Closure /\ c.id = i /\ i \in Ids /\ r \in Records
      /\ running' = running \ {f} /\ UNCHANGED <<id, calls, asked, deleted, midway>>
      /\ armed' \subseteq armed \cup {c}
      /\ asked[i] > 0 => c.kind = "loop"
  BY <1>1, <1>2
  DEF TypeOK, Closure, Kinded, OnceReturns, LoopReturns, CronReturns, Armed, ArmingFails
<1>4. Kinded'
  BY <1>1, <1>3 DEF Kinded
<1>5. \A g \in running' : g \in running /\ g.closure.id # i
  BY <1>1, <1>2, <1>3 DEF IInv, Awaited
<1>6. Busy(i) = 1 /\ Busy(i)' = 0 /\ \A j \in Ids : j # i => Busy(j)' = Busy(j)
  BY <1>2, <1>3, <1>5 DEF Busy
<1>7. SUFFICES ASSUME midway' = {} PROVE Counted'
  BY <1>4
<1>8. Counted /\ i \in Registered /\ r = timers[i]
  BY <1>2, <1>3, <1>7 DEF CInv, Counted, Kept
<1>9. \A j \in Registered : /\ j \in Ids /\ timers[j] \in Records
                            /\ j # i => timers[j] # r
  BY <1>1, <1>8 DEF Registered, Apart, TypeOK
<1> DEFINE counted == [record EXCEPT ![r].cnt = @ + 1]
           over == record[r].loopcnt # -1 /\ counted[r].cnt >= record[r].loopcnt
<1>10. /\ counted \in [Records -> Record]
       /\ counted[r].cnt = record[r].cnt + 1 /\ counted[r].loopcnt = record[r].loopcnt
       /\ \A s \in Records : /\ counted[s].id = record[s].id
                             /\ counted[s].callback = record[s].callback
                             /\ counted[s].name = record[s].name
                             /\ s # r => counted[s] = record[s]
  <2>1. record \in [Records -> Record] /\ record[r] \in Record
    BY <1>1, <1>3 DEF TypeOK
  <2>2. [record[r] EXCEPT !.cnt = @ + 1] \in Record
    BY <2>1 DEF Record
  <2> QED
    BY <1>3, <2>1, <2>2 DEF Record
<1>11. record[r].cnt \in Nat /\ record[r].loopcnt \in Int /\ asked[i] \in Int
  BY <1>1, <1>3 DEF TypeOK, Record
(* What remains of the tables, in each of the three cases.                 *)
<1>12. ASSUME NEW ids \in SUBSET {i}, NEW fields \in [Records -> Record],
              Registered' = Registered \ ids,
              \A j \in Registered' : /\ timers'[j] = timers[j]
                                     /\ record'[timers[j]] = fields[timers[j]],
              \A s \in Records : s # r => fields[s] = record[s],
              asked[i] > 0 => /\ fields[r].cnt = record[r].cnt + 1
                              /\ fields[r].loopcnt = record[r].loopcnt
                              /\ i \in ids <=> fields[r].cnt >= asked[i]
       PROVE  Counted'
  <2>1. Kept'
    BY <1>3, <1>5, <1>8, <1>12 DEF Counted, Kept
  <2>2. ASSUME NEW j \in Registered', asked'[j] > 0 PROVE LoopOK(j)'
    <3>1. j \in Registered /\ j \in Ids /\ LoopOK(j) /\ j \notin ids
      BY <1>3, <1>8, <1>9, <1>12, <2>2 DEF Counted
    <3>2. CASE j = i
      <4>1. asked[i] > 0 /\ fields[r].cnt < asked[i]
        BY <1>3, <1>10, <1>11, <1>12, <2>2, <3>1, <3>2
      <4> QED
        BY <1>3, <1>6, <1>8, <1>11, <1>12, <3>1, <3>2, <4>1 DEF LoopOK
    <3>3. CASE j # i
      BY <1>3, <1>6, <1>9, <1>12, <3>1, <3>3 DEF LoopOK
    <3> QED
      BY <3>2, <3>3
  <2>3. Ended'
    <3> SUFFICES ASSUME NEW j \in Ids \ Registered', asked[j] > 0
                 PROVE  calls[j] <= asked[j] /\ (j \in deleted \/ calls[j] = asked[j])
      BY <1>3 DEF Ended
    <3>1. CASE j \in ids
      <4>1. j = i /\ LoopOK(i) /\ fields[r].cnt >= asked[i]
            /\ fields[r].cnt = record[r].cnt + 1
        BY <1>8, <1>12, <3>1 DEF Counted
      <4> QED
        BY <1>6, <1>8, <1>11, <4>1 DEF LoopOK
    <3>2. CASE j \notin ids
      BY <1>8, <1>12, <3>2 DEF Counted, Ended
    <3> QED
      BY <3>1, <3>2
  <2> QED
    BY <1>3, <2>1, <2>2, <2>3 DEF Counted
<1>13. CASE OnceReturns(f)
  <2>1. ~(asked[i] > 0) /\ record \in [Records -> Record]
    BY <1>1, <1>2, <1>3, <1>13 DEF OnceReturns, TypeOK
  <2>2. Deleted({i}, record) /\ {i} \in SUBSET Registered
    <3>1. {f.closure.id} \cap Registered = {i}
      BY <1>2, <1>8
    <3> QED
      BY <1>8, <1>13, <3>1 DEF OnceReturns
  <2>3. /\ Registered' = Registered \ {i}
        /\ \A j \in Registered' : timers'[j] = timers[j] /\ record'[timers[j]] = record[timers[j]]
    BY <1>1, <2>1, <2>2, DeletedKeeps
  <2> QED
    BY <1>12, <2>1, <2>3
<1>14. CASE LoopReturns(f)
  <2> DEFINE ids == IF over THEN {i} ELSE {}
  <2>1. Deleted(ids, counted)
    <3>1. {f.closure.id} \cap Registered = {i}
      BY <1>2, <1>8
    <3> QED
      BY <1>2, <1>14, <3>1 DEF LoopReturns
  <2>2. ids \in SUBSET Registered /\ ids \in SUBSET {i}
    BY <1>8
  <2>3. asked[i] > 0 => (i \in ids <=> counted[r].cnt >= asked[i])
    <3>1. asked[i] > 0 => record[r].loopcnt = asked[i]
      BY <1>8 DEF Counted, LoopOK
    <3> QED
      BY <1>11, <3>1
  <2> HIDE DEF counted, ids, over
  <2>4. /\ Registered' = Registered \ ids
        /\ \A j \in Registered' : timers'[j] = timers[j] /\ record'[timers[j]] = counted[timers[j]]
    <3>1. \A s \in Records : /\ counted[s].id = record[s].id
                              /\ counted[s].callback = record[s].callback
                              /\ counted[s].name = record[s].name
      BY <1>10
    <3>2. counted \in [Records -> Record]
      BY <1>10
    <3> QED
      BY <1>1, <2>1, <2>2, <3>1, <3>2, DeletedKeeps
  <2> QED
    BY <1>10, <1>12, <2>2, <2>3, <2>4
<1>15. CASE CronReturns(f)
  <2>1. ~(asked[i] > 0) /\ record \in [Records -> Record]
    BY <1>1, <1>2, <1>3, <1>15 DEF CronReturns, TypeOK
  <2>2. Registered' = Registered /\ timers' = timers /\ record' = record
    BY <1>15 DEF CronReturns, Registered
  <2>3. {} \in SUBSET {i}
    OBVIOUS
  <2> QED
    BY <1>12, <2>1, <2>2, <2>3
<1> QED
  BY <1>13, <1>14, <1>15

(* A loop is called back as often as timeloop was told, once at least,     *)
(* unless timers are deleted in the middle of their callbacks.             *)
THEOREM LoopsAreCalledAsOften == Spec => []LoopsAsOften
<1>1. Init => CInv
  <2> SUFFICES ASSUME Init PROVE CInv
    OBVIOUS
  <2>1. IInv
    BY InitIInv
  <2>2. /\ Registered = {} /\ running = {} /\ armed = {}
        /\ \A i \in Ids : asked[i] = 0 /\ calls[i] = 0
    BY DEF Init, Registered
  <2> QED
    BY <2>1, <2>2 DEF CInv, Kinded, Counted, Kept, Ended
<1>2. CInv /\ [Next]_vars => CInv'
  <2> SUFFICES ASSUME CInv, [Next]_vars PROVE Kinded' /\ (midway' = {} => Counted')
    BY NextIInv DEF CInv
  <2>1. CASE UNCHANGED vars
    BY <2>1 DEF vars, CInv, Kinded, Counted, Kept, Ended, LoopOK, Busy, Registered
  <2>2. CASE Timeout \/ TimeLoop \/ TimeLoopFails \/ CronTimeout \/ CronTimeoutFails
    <3>1. {"once", "loop", "cron"} = Kinds /\ 0 \in Int /\ LoopCounts \subseteq Int
      BY TimerAssumption DEF Kinds
    <3> QED
      BY <2>2, <3>1, AddTimerCounts
      DEF Timeout, TimeLoop, TimeLoopFails, CronTimeout, CronTimeoutFails, Added, AddedUnarmed
  <2>3. ASSUME NEW i \in Ids, DelTimer(i) PROVE Kinded' /\ (midway' = {} => Counted')
    <3>1. {i} \in SUBSET Registered
      BY <2>3 DEF DelTimer
    <3> QED
      BY <2>3, <3>1, DeletedCounts DEF DelTimer
  <2>4. ASSUME NEW i \in Ids, NEW n \in Names, Name(i, n)
        PROVE  Kinded' /\ (midway' = {} => Counted')
    BY <2>4, NameCounts
  <2>5. ASSUME NEW n \in Names, UnTimeout(n) PROVE Kinded' /\ (midway' = {} => Counted')
    <3> DEFINE ids == named[n] \cap Registered
    <3>1. /\ ids \in SUBSET Registered /\ Deleted(ids, record)
          /\ deleted' = deleted \cup ids /\ midway' = midway \cup CalledBack(ids)
          /\ UNCHANGED <<id, armed, running, calls, asked, unarmed>>
      BY <2>5 DEF UnTimeout
    <3> HIDE DEF ids
    <3> QED
      BY <3>1, DeletedCounts
  <2>6. ASSUME NEW c \in armed, Fire(c) PROVE Kinded' /\ (midway' = {} => Counted')
    BY <2>6, FireCounts
  <2>7. ASSUME NEW f \in running, OnceReturns(f) \/ LoopReturns(f) \/ CronReturns(f)
        PROVE  Kinded' /\ (midway' = {} => Counted')
    BY <2>7, ReturnCounts
  <2> QED
    BY <2>1, <2>2, <2>3, <2>4, <2>5, <2>6, <2>7 DEF Next
<1> QED
  BY <1>1, <1>2, CountedIsAsOften, PTL DEF Spec
=============================================================================
