---------------------------- MODULE BucketProofs ----------------------------
(***************************************************************************)
(* Proofs about Bucket, for every set of items and every amount by which   *)
(* the bucket grows: its types, and that a caller who looks sees exactly   *)
(* what was added and not removed.                                         *)
(*                                                                         *)
(* ViewExact speaks of the slots in use only.  It is kept because of what  *)
(* the other slots hold: removals leave stale copies there, so _add, which *)
(* looks for the first empty slot and not for the one after those in use,  *)
(* is right only as long as no stale copy lies in front of an empty slot.  *)
(***************************************************************************)
EXTENDS Bucket, FiniteSetTheorems, SequenceTheorems, TLAPS

Slot == Items \cup {NULL}

Types ==
  /\ items \in Seq(Slot) /\ bytes \in Nat
  /\ n_outputs_free \in Nat /\ n_outputs_used \in Nat
  /\ locked \in BOOLEAN /\ members \in SUBSET Items

\* The slots in use hold different things, and no NULL.
Distinct ==
  /\ \A i \in 1..n_outputs_used : items[i] # NULL
  /\ \A i, j \in 1..n_outputs_used : items[i] = items[j] => i = j

Counted ==
  /\ n_outputs_free + n_outputs_used = n_outputs
  /\ members = {items[i] : i \in 1..n_outputs_used}
  /\ IsFiniteSet(members) /\ Cardinality(members) = n_outputs_used

\* Behind the slots in use no stale copy lies in front of an empty slot.
EmptyFirst ==
  \A i, j \in 1..n_outputs :
    n_outputs_used < j /\ j <= i /\ items[i] = NULL => items[j] = NULL

IInv == Types /\ Distinct /\ Counted /\ EmptyFirst

-----------------------------------------------------------------------------
\* The first of a set of slots is the one that is not behind another.
LEMMA FirstIs ==
  ASSUME NEW S \in SUBSET Int, NEW k \in S, \A j \in S : k <= j
  PROVE  First(S) = k
<1>1. k \in S /\ \A j \in S : k <= j
  OBVIOUS
<1>2. First(S) \in S /\ \A j \in S : First(S) <= j
  BY <1>1, Zenon DEF First
<1>3. First(S) \in Int /\ k \in Int
  BY <1>1, <1>2
<1>4. First(S) <= k /\ k <= First(S)
  BY <1>1, <1>2
<1>5. QED
  BY <1>3, <1>4

\* What the array is after data has been put into the slot behind those in use.
LEMMA PutKeeps ==
  ASSUME NEW a \in Seq(Slot), NEW u \in Nat, u < Len(a), NEW data \in Items,
         \A i \in 1..u : a[i] # NULL,
         a[u + 1] = NULL
  PROVE  /\ PutFirst(a, data) \in Seq(Slot)
         /\ Len(PutFirst(a, data)) = Len(a)
         /\ \A j \in 1..Len(a) : PutFirst(a, data)[j] = IF j = u + 1 THEN data ELSE a[j]
<1> DEFINE empty == {i \in DOMAIN a : a[i] = NULL}
<1>1. Len(a) \in Nat /\ DOMAIN a = 1..Len(a)
  BY LenProperties
<1>2. u + 1 \in empty /\ empty \in SUBSET Int /\ \A j \in empty : u + 1 <= j
  BY <1>1
<1>3. First(empty) = u + 1
  <2> HIDE DEF empty
  <2> QED
    BY <1>2, FirstIs
<1>4. PutFirst(a, data) = [a EXCEPT ![u + 1] = data]
  BY <1>3 DEF PutFirst
<1>5. u + 1 \in 1..Len(a) /\ data \in Slot
  BY <1>1 DEF Slot
<1>6. QED
  BY <1>4, <1>5, ExceptSeq

\* One thing more is in the bucket: array a, in which the slots in use are those of
\* items, gets data in the first slot behind them.
LEMMA PutCounts ==
  ASSUME IInv, NEW data \in Items, data \notin members,
         NEW a \in Seq(Slot), n_outputs_used < Len(a),
         \A i \in 1..n_outputs_used : a[i] = items[i],
         a[n_outputs_used + 1] = NULL,
         \A i, j \in 1..Len(a) : n_outputs_used < j /\ j <= i /\ a[i] = NULL => a[j] = NULL,
         items' = PutFirst(a, data),
         n_outputs_used' = n_outputs_used + 1,
         n_outputs_free' = Len(a) - n_outputs_used - 1,
         members' = members \cup {data}, bytes' \in Nat, locked' = locked
  PROVE  IInv'
<1> USE BucketAssumptions
<1>1. /\ items \in Seq(Slot) /\ n_outputs_used \in Nat /\ members \in SUBSET Items
      /\ IsFiniteSet(members) /\ Cardinality(members) = n_outputs_used
      /\ members = {items[i] : i \in 1..n_outputs_used}
      /\ locked \in BOOLEAN /\ Len(a) \in Nat
  BY LenProperties DEF IInv, Types, Counted
<1>2. \A i \in 1..n_outputs_used : a[i] # NULL /\ a[i] # data
  BY <1>1, ZenonT(30) DEF IInv, Distinct
<1>3. /\ items' \in Seq(Slot) /\ Len(items') = Len(a)
      /\ \A j \in 1..Len(a) : items'[j] = IF j = n_outputs_used + 1 THEN data ELSE a[j]
  <2>1. \A i \in 1..n_outputs_used : a[i] # NULL
    BY <1>2
  <2>2. /\ PutFirst(a, data) \in Seq(Slot)
        /\ Len(PutFirst(a, data)) = Len(a)
        /\ \A j \in 1..Len(a) : PutFirst(a, data)[j] = IF j = n_outputs_used + 1 THEN data ELSE a[j]
    BY <1>1, <2>1, PutKeeps
  <2>3. QED
    BY <2>2, Zenon
<1>4. Types'
  BY <1>1, <1>3, SMT DEF Types
<1>5. Distinct'
  <2>1. \A i \in 1..(n_outputs_used + 1) : items'[i] # NULL
    BY <1>1, <1>2, <1>3
  <2>2. ASSUME NEW i \in 1..(n_outputs_used + 1), NEW j \in 1..(n_outputs_used + 1), items'[i] = items'[j]
        PROVE  i = j
    <3>1. \A k, l \in 1..n_outputs_used : items[k] = items[l] => k = l
      BY DEF IInv, Distinct
    <3>2. QED
      BY <1>1, <1>2, <1>3, <2>2, <3>1
  <2>3. QED
    BY <2>1, <2>2 DEF Distinct
<1>6. Counted'
  <2>1. members' = {items'[i] : i \in 1..n_outputs_used'}
    <3>1. \A i \in 1..n_outputs_used : items'[i] = items[i]
      BY <1>1, <1>3
    <3>2. items'[n_outputs_used + 1] = data
      BY <1>1, <1>3
    <3>3. 1..(n_outputs_used + 1) = (1..n_outputs_used) \cup {n_outputs_used + 1}
      BY <1>1
    <3>4. {items'[i] : i \in 1..n_outputs_used} = members
      <4>1. members = {items[i] : i \in 1..n_outputs_used}
        BY <1>1
      <4>2. QED
        BY <3>1, <4>1
    <3>5. {items'[i] : i \in (1..n_outputs_used) \cup {n_outputs_used + 1}}
            = {items'[i] : i \in 1..n_outputs_used} \cup {items'[n_outputs_used + 1]}
      OBVIOUS
    <3>6. QED
      BY <3>2, <3>3, <3>4, <3>5
  <2>2. IsFiniteSet(members') /\ Cardinality(members') = n_outputs_used'
    BY <1>1, FS_AddElement
  <2>3. QED
    BY <1>1, <1>3, <2>1, <2>2, SMTT(30) DEF Counted, n_outputs
<1>7. EmptyFirst'
  BY <1>1, <1>3 DEF EmptyFirst, n_outputs
<1>8. QED
  BY <1>4, <1>5, <1>6, <1>7 DEF IInv

-----------------------------------------------------------------------------
(* The steps of the bucket.                                                *)

LEMMA InitHolds == Init => IInv
<1> SUFFICES ASSUME Init PROVE IInv
  OBVIOUS
<1>1. items = <<>> /\ items \in Seq(Slot) /\ Len(items) = 0
  BY EmptySeq DEF Init
<1>2. Types
  BY <1>1 DEF Init, Types
<1>3. Distinct
  BY DEF Init, Distinct
<1>4. Counted
  BY <1>1, FS_EmptySet DEF Init, Counted, n_outputs
<1>5. EmptyFirst
  BY <1>1 DEF EmptyFirst, n_outputs
<1>6. QED
  BY <1>2, <1>3, <1>4, <1>5 DEF IInv

\* What every step may use.
LEMMA Facts ==
  ASSUME IInv
  PROVE  /\ items \in Seq(Slot) /\ Len(items) \in Nat /\ DOMAIN items = 1..Len(items)
         /\ \A i \in 1..Len(items) : items[i] \in Slot
         /\ n_outputs_used \in Nat /\ n_outputs_free \in Nat /\ bytes \in Nat /\ locked \in BOOLEAN
         /\ n_outputs_free = Len(items) - n_outputs_used
         /\ members \in SUBSET Items /\ members = {items[i] : i \in 1..n_outputs_used}
         /\ IsFiniteSet(members) /\ Cardinality(members) = n_outputs_used
BY LenProperties, ElementOfSeq DEF IInv, Types, Counted, n_outputs

\* An empty slot that is found lies behind the slots in use, so that the one after
\* these is empty.
LEMMA AddHolds ==
  ASSUME IInv, NEW data \in Items, Add(data)
  PROVE  IInv'
<1>1. PICK e \in 1..Len(items) : items[e] = NULL
  BY Facts DEF Add, SlotsOf
<1>2. n_outputs_used + 1 <= e
  BY <1>1, Facts DEF IInv, Distinct
<1>3. items[n_outputs_used + 1] = NULL
  BY <1>1, <1>2, Facts DEF IInv, EmptyFirst, n_outputs
<1>4. \A i, j \in 1..Len(items) :
        n_outputs_used < j /\ j <= i /\ items[i] = NULL => items[j] = NULL
  BY DEF IInv, EmptyFirst, n_outputs
<1>5. /\ items' = PutFirst(items, data) /\ data \notin members
      /\ n_outputs_used' = n_outputs_used + 1
      /\ n_outputs_free' = Len(items) - n_outputs_used - 1
      /\ members' = members \cup {data} /\ bytes' \in Nat /\ locked' = locked
  BY Facts DEF Add
<1>6. n_outputs_used < Len(items)
  BY <1>1, <1>2, Facts
<1>7. QED
  BY <1>3, <1>4, <1>5, <1>6, Facts, PutCounts

\* A bucket without a free slot has all of them in use: the new ones come first.
LEMMA GrowHolds ==
  ASSUME IInv, NEW data \in Items, Grow(data)
  PROVE  IInv'
<1> DEFINE new == [i \in 1..Extra |-> NULL]
           a == items \o new
<1>1. Extra \in Nat /\ Extra > 0 /\ Extra * Pointer \in Nat
  BY BucketAssumptions
<1>2. new \in Seq(Slot) /\ Len(new) = Extra /\ \A i \in 1..Extra : new[i] = NULL
  BY <1>1 DEF Slot
<1>3. n_outputs_used = Len(items)
  BY Facts DEF Grow
<1>4. /\ a \in Seq(Slot) /\ Len(a) = Len(items) + Extra
      /\ \A i \in 1..Len(items) : a[i] = items[i]
      /\ \A i \in 1..(Len(items) + Extra) : i > Len(items) => a[i] = NULL
  <2> HIDE DEF new
  <2>1. /\ a \in Seq(Slot) /\ Len(a) = Len(items) + Extra
        /\ \A i \in 1..(Len(items) + Extra) :
             a[i] = IF i <= Len(items) THEN items[i] ELSE new[i - Len(items)]
    BY <1>1, <1>2, Facts, ConcatProperties, ZenonT(30)
  <2>2. QED
    BY <1>1, <1>2, <2>1, Facts
<1>5. /\ items' = PutFirst(a, data) /\ data \notin members
      /\ n_outputs_used' = n_outputs_used + 1
      /\ members' = members \cup {data} /\ locked' = locked
  BY DEF Grow
<1>6. bytes' \in Nat
  BY <1>1, Facts DEF Grow, n_outputs
<1> HIDE DEF a
<1>7. n_outputs_free' = Len(a) - n_outputs_used - 1
  BY <1>1, <1>3, <1>4, Facts DEF Grow
<1>8. /\ n_outputs_used < Len(a) /\ a[n_outputs_used + 1] = NULL
      /\ \A i \in 1..n_outputs_used : a[i] = items[i]
      /\ \A i, j \in 1..Len(a) : n_outputs_used < j /\ j <= i /\ a[i] = NULL => a[j] = NULL
  BY <1>1, <1>3, <1>4, Facts, SMTT(30)
<1>9. QED
  BY <1>4, <1>5, <1>6, <1>7, <1>8, PutCounts

\* A removal moves down what lies behind; the stale copy it leaves in the last slot
\* is behind every empty slot there is.
LEMMA RemoveHolds ==
  ASSUME IInv, NEW data \in Items, Remove(data)
  PROVE  IInv'
<1> DEFINE n == Len(items)
           u == n_outputs_used
<1>1. data \in members
  BY DEF Remove
<1>2. PICK k \in 1..u : items[k] = data
  BY <1>1, Facts
<1>3. u \in Nat /\ n \in Nat /\ u <= n /\ k \in 1..n /\ data # NULL
  BY Facts, BucketAssumptions
<1>4. First(SlotsOf(data)) = k
  <2> DEFINE S == SlotsOf(data)
  <2>1. S \in SUBSET Int /\ k \in S
    BY <1>2, <1>3, Facts DEF SlotsOf
  <2>2. ASSUME NEW j \in S PROVE k <= j
    <3>1. j \in 1..n /\ items[j] = data
      BY Facts DEF SlotsOf
    <3>2. CASE j <= u
      BY <1>2, <3>1, <3>2, Facts DEF IInv, Distinct
    <3>3. CASE ~(j <= u)
      BY <1>3, <3>1, <3>3
    <3>4. QED
      BY <3>2, <3>3
  <2>3. \A j \in S : k <= j
    BY <2>2
  <2>4. QED
    <3> HIDE DEF S
    <3>1. First(S) = k
      BY <2>1, <2>3, FirstIs
    <3>2. QED
      BY <3>1 DEF S
<1>5. \A j \in 1..n : items'[j] = IF j < k THEN items[j] ELSE IF j < n THEN items[j + 1]
                                 ELSE IF k = n THEN NULL ELSE items[j]
  BY <1>4, Facts DEF Remove, Shift, n_outputs
<1>6. items' \in Seq(Slot) /\ Len(items') = n
  <2>1. items' \in [1..n -> Slot]
    <3>1. items' = [j \in 1..n |-> IF j < k THEN items[j] ELSE IF j < n THEN items[j + 1]
                                   ELSE IF k = n THEN NULL ELSE items[j]]
      BY <1>4, Facts DEF Remove, Shift, n_outputs
    <3>2. \A j \in 1..n : j < n => j + 1 \in 1..n
      BY <1>3
    <3>3. NULL \in Slot /\ \A i \in 1..n : items[i] \in Slot
      BY Facts DEF Slot
    <3>4. QED
      BY <3>1, <3>2, <3>3
  <2>2. QED
    BY <1>3, <2>1
<1>7. /\ n_outputs_used' = u - 1 /\ n_outputs_free' = n_outputs_free + 1
      /\ members' = members \ {data} /\ bytes' = bytes /\ locked' = locked
  BY DEF Remove
<1>8. \A j \in 1..u : j < u => items'[j] = IF j < k THEN items[j] ELSE items[j + 1]
  BY <1>3, <1>5
<1>9. Types'
  BY <1>3, <1>6, <1>7, Facts DEF Types
<1>10. Distinct'
  <2>1. \A i \in 1..u : items[i] # NULL
    BY DEF IInv, Distinct
  <2>2. \A i, j \in 1..u : items[i] = items[j] => i = j
    BY DEF IInv, Distinct
  <2>3. \A i \in 1..(u - 1) : items'[i] # NULL
    BY <1>3, <1>8, <2>1
  <2>4. \A i, j \in 1..(u - 1) : items'[i] = items'[j] => i = j
    BY <1>3, <1>8, <2>2
  <2>5. QED
    BY <1>7, <2>3, <2>4 DEF Distinct
<1>11. Counted'
  <2>1. members' = {items'[i] : i \in 1..(u - 1)}
    <3>1. ASSUME NEW x \in members' PROVE \E i \in 1..(u - 1) : items'[i] = x
      <4>1. PICK i \in 1..u : items[i] = x /\ i # k
        BY <1>2, <1>7, Facts
      <4>2. CASE i < k
        BY <1>3, <1>8, <4>1, <4>2
      <4>3. CASE i > k
        <5>1. i - 1 \in 1..(u - 1) /\ ~(i - 1 < k) /\ (i - 1) + 1 = i
          BY <1>3, <4>1, <4>3
        <5>2. items'[i - 1] = items[i]
          BY <1>3, <1>8, <5>1
        <5>3. QED
          BY <4>1, <5>1, <5>2
      <4>4. QED
        BY <1>3, <4>1, <4>2, <4>3
    <3>2. ASSUME NEW i \in 1..(u - 1) PROVE items'[i] \in members'
      <4>1. PICK j \in 1..u : items'[i] = items[j] /\ j # k
        BY <1>3, <1>8, SMTT(30)
      <4>2. items[j] # items[k]
        BY <4>1, <1>2 DEF IInv, Distinct
      <4>3. QED
        BY <1>2, <1>7, <4>1, <4>2, Facts
    <3>3. QED
      BY <3>1, <3>2
  <2>2. IsFiniteSet(members') /\ Cardinality(members') = u - 1
    BY <1>1, <1>7, Facts, FS_RemoveElement
  <2>3. n_outputs_free' + n_outputs_used' = Len(items')
    BY <1>3, <1>6, <1>7, Facts
  <2>4. QED
    BY <1>7, <2>1, <2>2, <2>3 DEF Counted, n_outputs
<1>12. EmptyFirst'
  <2>1. \A i, j \in 1..n : u < j /\ j <= i /\ items[i] = NULL => items[j] = NULL
    BY DEF IInv, EmptyFirst, n_outputs
  <2> SUFFICES ASSUME NEW i \in 1..n, NEW j \in 1..n, u - 1 < j, j <= i, items'[i] = NULL
               PROVE  items'[j] = NULL
    BY <1>6, <1>7 DEF EmptyFirst, n_outputs
  <2>2. CASE i = j
    BY <2>2
  <2>3. CASE j < i
    <3>1. k <= j /\ j < n /\ items'[j] = items[j + 1] /\ j + 1 \in 1..n /\ u < j + 1
      BY <1>3, <1>5, <2>3
    <3>2. CASE i < n
      BY <1>3, <1>5, <2>1, <2>3, <3>1, <3>2, SMTT(30)
    <3>3. CASE i = n
      BY <1>3, <1>5, <2>1, <2>3, <3>1, <3>3
    <3>4. QED
      BY <1>3, <3>2, <3>3
  <2>4. QED
    BY <1>3, <2>2, <2>3
<1>13. QED
  BY <1>9, <1>10, <1>11, <1>12 DEF IInv

\* A reset clears what is in use; the stale copies stay behind it.
LEMMA ResetHolds ==
  ASSUME IInv, Reset
  PROVE  IInv'
<1> DEFINE n == Len(items)
<1>1. /\ items' = [i \in 1..n |-> IF i <= n_outputs_used THEN NULL ELSE items[i]]
      /\ n_outputs_free' = n /\ n_outputs_used' = 0 /\ members' = {}
      /\ bytes' = bytes /\ locked' = locked
  BY Facts DEF Reset, n_outputs
<1>2. items' \in Seq(Slot) /\ Len(items') = n
  <2>1. items' \in [1..n -> Slot]
    BY <1>1, Facts DEF Slot
  <2>2. QED
    BY <2>1, Facts
<1>3. Types'
  BY <1>1, <1>2, Facts DEF Types
<1>4. Distinct'
  BY <1>1 DEF Distinct
<1>5. Counted'
  BY <1>1, <1>2, Facts, FS_EmptySet DEF Counted, n_outputs
<1>6. EmptyFirst'
  <2>1. \A i, j \in 1..n : n_outputs_used < j /\ j <= i /\ items[i] = NULL => items[j] = NULL
    BY DEF IInv, EmptyFirst, n_outputs
  <2>2. QED
    BY <1>1, <1>2, <2>1, Facts DEF EmptyFirst, n_outputs
<1>7. QED
  BY <1>3, <1>4, <1>5, <1>6 DEF IInv

\* Every step keeps the invariant.
LEMMA NextHolds == IInv /\ [Next]_vars => IInv'
<1> SUFFICES ASSUME IInv, [Next]_vars PROVE IInv'
  OBVIOUS
<1>1. ASSUME NEW data \in Items, Add(data) PROVE IInv'
  BY <1>1, AddHolds
<1>2. ASSUME NEW data \in Items, Grow(data) PROVE IInv'
  BY <1>2, GrowHolds
<1>3. ASSUME NEW data \in Items, Remove(data) PROVE IInv'
  BY <1>3, RemoveHolds
<1>4. CASE Reset
  BY <1>4, ResetHolds
<1>5. CASE Lock \/ Unlock
  <2>1. /\ items' = items /\ bytes' = bytes /\ n_outputs_free' = n_outputs_free
        /\ n_outputs_used' = n_outputs_used /\ members' = members /\ locked' \in BOOLEAN
    BY <1>5 DEF Lock, Unlock
  <2>2. QED
    BY <2>1 DEF IInv, Types, Distinct, Counted, EmptyFirst, n_outputs
<1>6. CASE UNCHANGED vars
  BY <1>6 DEF IInv, Types, Distinct, Counted, EmptyFirst, n_outputs, vars
<1>7. QED
  BY <1>1, <1>2, <1>3, <1>4, <1>5, <1>6 DEF Next

\* Every variable stays in its type and the counters within the array, whatever is added
\* and removed in which order.
THEOREM BucketTypes == Spec => []TypeOK
<1>1. IInv => TypeOK
  <2> SUFFICES ASSUME IInv PROVE TypeOK
    OBVIOUS
  <2>1. /\ n_outputs_used \in Nat /\ n_outputs_free \in Nat /\ n_outputs \in Nat
        /\ n_outputs_free = n_outputs - n_outputs_used
    BY Facts DEF n_outputs
  <2>2. n_outputs_free \in 0..n_outputs /\ n_outputs_used \in 0..n_outputs
    BY <2>1
  <2> HIDE DEF n_outputs
  <2> QED BY <2>2 DEF IInv, Types, TypeOK, Slot
<1>2. QED
  BY <1>1, InitHolds, NextHolds, PTL DEF Spec

\* A caller who looks at the bucket finds exactly what was added and not removed
\* since, each thing once, for any number of items and any growth of the array.
THEOREM BucketView == Spec => []ViewExact
<1>1. IInv => ViewExact
  BY DEF IInv, Counted, ViewExact
<1>2. QED
  BY <1>1, InitHolds, NextHolds, PTL DEF Spec
=============================================================================
