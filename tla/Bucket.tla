-------------------------------- MODULE Bucket --------------------------------
(***************************************************************************)
(* The bucket in which every output API keeps its channels, src/src/       *)
(* bucket.c, built without BUCKET_THREADED: an array of slots that grows   *)
(* by Extra, counts of the free and the used ones, and a flag that is set  *)
(* while a caller looks at the array.                                      *)
(*                                                                         *)
(* Callers look at the first n_outputs_used slots only and dereference     *)
(* each of them (alsa_api.c:185-190), so these have to hold exactly the    *)
(* items that were added and not removed since: the variable members.      *)
(***************************************************************************)
EXTENDS Integers, Sequences, FiniteSets

CONSTANTS
  Items,     \* the things a caller may add: pointers to channels
  NULL,      \* an empty slot
  Extra,     \* slots added when the bucket is full (4 in the code)
  Pointer,   \* sizeof(void*) (8 on a 64-bit build)
  MaxSlots   \* bound: the bucket does not grow beyond this many slots

ASSUME BucketAssumptions ==
  /\ NULL \notin Items
  /\ Extra \in Nat \ {0} /\ Pointer \in Nat \ {0} /\ MaxSlots \in Nat

VARIABLES
  items,           \* the array, one element per slot
  bytes,           \* the size of the block realloc returned for it
  n_outputs_free,
  n_outputs_used,
  locked,
  members          \* what the callers have added and not removed

vars == <<items, bytes, n_outputs_free, n_outputs_used, locked, members>>

n_outputs == Len(items)

SlotsOf(x) == {i \in DOMAIN items : items[i] = x}
First(S)   == CHOOSE i \in S : \A j \in S : i <= j

\* bucket_create: calloc.
Init ==
  /\ items = <<>> /\ bytes = 0
  /\ n_outputs_free = 0 /\ n_outputs_used = 0
  /\ locked = FALSE /\ members = {}

\* _add: data goes into the first empty slot of array a.
PutFirst(a, data) ==
  LET empty == {i \in DOMAIN a : a[i] = NULL}
  IN  [a EXCEPT ![First(empty)] = data]

\* A caller adds what is not in the bucket: a channel it has just created.
Add(data) ==
  /\ ~locked /\ data \notin members
  /\ n_outputs_free > 0 /\ SlotsOf(NULL) # {}
  /\ items' = PutFirst(items, data)
  /\ n_outputs_free' = n_outputs_free - 1
  /\ n_outputs_used' = n_outputs_used + 1
  /\ members' = members \cup {data}
  /\ UNCHANGED <<bytes, locked>>

\* (Mutant of Grow: the new slots are not counted.)
GrowMiscounts(data) ==
  /\ ~locked /\ data \notin members
  /\ n_outputs_free = 0 /\ n_outputs + Extra <= MaxSlots
  /\ bytes' = n_outputs + Extra * Pointer
  /\ items' = PutFirst(items \o [i \in 1..Extra |-> NULL], data)
  /\ n_outputs_free' = n_outputs_free - 1
  /\ n_outputs_used' = n_outputs_used + 1
  /\ members' = members \cup {data}
  /\ UNCHANGED locked

\* _grow_and_add, when the counter says no slot is free.  A realloc that fails
\* leaves everything as it was; so does an add that finds no empty slot.
Grow(data) ==
  /\ ~locked /\ data \notin members
  /\ n_outputs_free = 0 /\ n_outputs + Extra <= MaxSlots
  /\ bytes' = n_outputs + Extra * Pointer
  /\ items' = PutFirst(items \o [i \in 1..Extra |-> NULL], data)
  /\ n_outputs_free' = n_outputs_free + Extra - 1
  /\ n_outputs_used' = n_outputs_used + 1
  /\ members' = members \cup {data}
  /\ UNCHANGED locked

\* (Mutant of Shift: the slot is emptied, the others stay where they are.)
ShiftNothing(i) == [items EXCEPT ![i] = NULL]

\* bucket_remove: the first slot that holds data is emptied, and the slots after
\* it are moved down by one.  The last slot keeps what it held.
Shift(i) ==
  [j \in DOMAIN items |->
     IF j < i THEN items[j]
     ELSE IF j < n_outputs THEN items[j + 1]
     ELSE IF i = n_outputs THEN NULL ELSE items[j]]

Remove(data) ==
  /\ ~locked /\ data \in members /\ SlotsOf(data) # {}
  /\ items' = Shift(First(SlotsOf(data)))
  /\ n_outputs_free' = n_outputs_free + 1
  /\ n_outputs_used' = n_outputs_used - 1
  /\ members' = members \ {data}
  /\ UNCHANGED <<bytes, locked>>

\* bucket_reset: only the slots in use are cleared.
Reset ==
  /\ ~locked /\ items # <<>>
  /\ items' = [i \in DOMAIN items |-> IF i <= n_outputs_used THEN NULL ELSE items[i]]
  /\ n_outputs_free' = n_outputs /\ n_outputs_used' = 0
  /\ members' = {}
  /\ UNCHANGED <<bytes, locked>>

\* bucket_lock and bucket_unlock: every other call fails in between.
Lock   == ~locked /\ locked' = TRUE
          /\ UNCHANGED <<items, bytes, n_outputs_free, n_outputs_used, members>>
Unlock == locked /\ locked' = FALSE
          /\ UNCHANGED <<items, bytes, n_outputs_free, n_outputs_used, members>>

Next ==
  \/ \E x \in Items : Add(x) \/ Grow(x) \/ Remove(x)
  \/ Reset \/ Lock \/ Unlock

Spec == Init /\ [][Next]_vars

-----------------------------------------------------------------------------
\* Every variable stays in its type, and the counters stay within the array: no caller
\* that looks at the slots in use (alsa_api.c:185-190) goes beyond its end.
TypeOK ==
  /\ items \in Seq(Items \cup {NULL}) /\ bytes \in Nat
  /\ n_outputs_free \in 0..n_outputs /\ n_outputs_used \in 0..n_outputs
  /\ locked \in BOOLEAN /\ members \in SUBSET Items

\* bucket_lock shows each thing that was added and not removed exactly once, and
\* nothing else: no NULL among the first n_outputs_used slots, no channel closed
\* before, none missed, however adds, removals and resets alternate and whatever
\* removals leave behind in the slots that are not shown.  The counters split the
\* slots between them.
ViewExact ==
  LET shown == {items[i] : i \in 1..n_outputs_used}
  IN  /\ shown = members /\ Cardinality(members) = n_outputs_used
      /\ n_outputs_free + n_outputs_used = n_outputs

\* The slots lie in the block of memory that was allocated for them, as a bucket
\* that grows whenever "no empty channels" are left (alsa_api.c:288) must ensure.
SlotsAllocated == n_outputs * Pointer <= bytes
=============================================================================
