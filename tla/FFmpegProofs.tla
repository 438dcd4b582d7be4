----------------------------- MODULE FFmpegProofs -----------------------------
(***************************************************************************)
(* Proofs about FFmpeg, for every file, however it is cut into packets,    *)
(* and every way of reading it: the types, that what is read are the       *)
(* samples of the file in their order, and where the end is reported.      *)
(***************************************************************************)
EXTENDS FFmpeg, Counting

-----------------------------------------------------------------------------
(* The samples before a packet.                                            *)

Lengths == [k \in 1..Len(file) |-> Carried(k)]

\* Before() is the sum of the packets' lengths.
LEMMA BeforeSum ==
  ASSUME file \in Seq(Packets)
  PROVE  \E g : IsSum(Lengths, Len(file), g) /\ \A c \in 1..(Len(file) + 1) : Before(c) = g[c - 1]
<1> DEFINE n == Len(file)
<1>1. n \in Nat /\ \A k \in 1..n : Lengths[k] = Carried(k) /\ Lengths[k] \in Nat
  BY DEF Lengths, Carried, Packets
<1>2. PICK g : IsSum(Lengths, n, g)
  BY <1>1, SumExists
<1>3. g \in [0..n -> Nat] /\ g[0] = 0 /\ \A k \in 1..n : g[k] = g[k - 1] + Carried(k)
  BY <1>1, <1>2 DEF IsSum
<1>4. ASSUME NEW c \in 1..(n + 1) PROVE Before(c) = g[c - 1]
  <2> DEFINE Is(f) == f = [k \in 1..c |-> IF k = 1 THEN 0 ELSE f[k - 1] + Carried(k - 1)]
             sum == CHOOSE f : Is(f)
  <2>1. Before(c) = sum[c]
    BY DEF Before
  <2>2. Is([k \in 1..c |-> g[k - 1]])
    <3>1. ASSUME NEW k \in 1..c
          PROVE  g[k - 1] = IF k = 1 THEN 0 ELSE [j \in 1..c |-> g[j - 1]][k - 1] + Carried(k - 1)
      <4>1. CASE k = 1
        BY <1>3, <4>1
      <4>2. CASE k # 1
        <5>1. k - 1 \in 1..c /\ k - 1 \in 1..n
          BY <1>1, <4>2
        <5>2. g[k - 1] = g[(k - 1) - 1] + Carried(k - 1)
          BY <1>3, <5>1
        <5> QED BY <4>2, <5>1, <5>2
      <4> QED BY <4>1, <4>2
    <3> QED BY <3>1
  <2>3. Is(sum)
    <3> HIDE DEF Is
    <3> QED BY <2>2
  <2> HIDE DEF sum
  <2> DEFINE S == {m \in Nat : m + 1 <= c => sum[m + 1] = g[m]}
  <2>4. 0 \in S
    <3>1. sum[1] = 0
      BY <2>3, <1>1
    <3> QED BY <1>3, <3>1
  <2>5. ASSUME NEW m \in Nat, m \in S PROVE m + 1 \in S
    <3> SUFFICES ASSUME (m + 1) + 1 <= c PROVE sum[(m + 1) + 1] = g[m + 1]
      OBVIOUS
    <3>1. (m + 1) + 1 \in 1..c /\ (m + 1) + 1 # 1 /\ ((m + 1) + 1) - 1 = m + 1 /\ m + 1 <= c
      BY <1>1
    <3>2. sum[(m + 1) + 1] = sum[m + 1] + Carried(m + 1)
      BY <2>3, <3>1
    <3>3. m + 1 \in 1..n /\ (m + 1) - 1 = m
      BY <1>1
    <3>4. g[m + 1] = g[m] + Carried(m + 1)
      BY <1>3, <3>3
    <3> QED BY <2>5, <3>1, <3>2, <3>4
  <2> HIDE DEF S
  <2>6. c - 1 \in S
    <3>1. c - 1 \in Nat
      BY <1>1
    <3> QED BY <2>4, <2>5, <3>1, SetInduction
  <2>7. (c - 1) + 1 = c /\ c <= c
    BY <1>1
  <2> QED BY <2>1, <2>6, <2>7 DEF S
<1> QED BY <1>2, <1>4

\* The packets' samples follow one another in the file.
LEMMA BeforeFacts ==
  ASSUME file \in Seq(Packets)
  PROVE  /\ Len(file) \in Nat /\ Total \in Nat /\ Before(1) = 0
         /\ \A c \in 1..(Len(file) + 1) : Before(c) \in Nat /\ Before(c) <= Total
         /\ \A c \in 1..Len(file) : Before(c + 1) = Before(c) + Carried(c)
         /\ \A c \in 1..(Len(file) + 1), d \in 1..(Len(file) + 1) :
              c <= d /\ (\A k \in c..(d - 1) : file[k] = 0) => Before(c) = Before(d)
<1> DEFINE n == Len(file)
<1>1. n \in Nat /\ \A k \in 1..n : Lengths[k] = Carried(k) /\ Lengths[k] \in Nat
  BY DEF Lengths, Carried, Packets
<1>2. PICK g : IsSum(Lengths, n, g) /\ \A c \in 1..(n + 1) : Before(c) = g[c - 1]
  BY BeforeSum
<1>3. g \in [0..n -> Nat] /\ g[0] = 0 /\ \A k \in 1..n : g[k] = g[k - 1] + Carried(k)
  BY <1>1, <1>2 DEF IsSum
<1>4. Before(1) = 0
  BY <1>1, <1>2, <1>3
<1>5. ASSUME NEW c \in 1..(n + 1) PROVE Before(c) \in Nat /\ Before(c) <= Total
  <2>1. c - 1 \in 0..n /\ n \in (c - 1)..n /\ n + 1 \in 1..(n + 1) /\ (n + 1) - 1 = n
    BY <1>1
  <2>2. g[c - 1] <= g[n]
    BY <1>1, <1>2, <2>1, SumGrows
  <2> QED BY <1>2, <1>3, <2>1, <2>2 DEF Total
<1>6. ASSUME NEW c \in 1..n PROVE Before(c + 1) = Before(c) + Carried(c)
  <2>1. c \in 1..(n + 1) /\ c + 1 \in 1..(n + 1) /\ (c + 1) - 1 = c
    BY <1>1
  <2> QED BY <1>2, <1>3, <2>1
<1>7. ASSUME NEW c \in 1..(n + 1), NEW d \in 1..(n + 1), c <= d, \A k \in c..(d - 1) : file[k] = 0
      PROVE  Before(c) = Before(d)
  <2>1. PICK a \in 0..n : a = c - 1
    BY <1>1
  <2>2. PICK b \in a..n : b = d - 1
    BY <1>1, <1>7, <2>1
  <2>3. \A k \in (a + 1)..b : Lengths[k] = 0
    <3> SUFFICES ASSUME NEW k \in (a + 1)..b PROVE Lengths[k] = 0
      OBVIOUS
    <3>1. k \in 1..n /\ k \in c..(d - 1)
      BY <1>1, <2>1, <2>2
    <3> QED BY <1>1, <1>7, <3>1 DEF Carried
  <2>4. g[a] = g[b]
    <3>1. Counts(Lengths, n)
      BY <1>1 DEF Counts
    <3>2. Zeros(Lengths, a, b)
      BY <2>3 DEF Zeros
    <3>3. n \in Nat /\ a \in 0..n /\ b \in a..n
      BY <1>1, <2>1, <2>2
    <3> HIDE DEF n
    <3> QED BY <1>2, <3>1, <3>2, <3>3, SumStays
  <2> QED BY <1>2, <2>1, <2>2, <2>4
<1>8. Total \in Nat
  <2>1. n + 1 \in 1..(n + 1)
    BY <1>1
  <2> QED BY <1>5, <2>1 DEF Total
<1> QED BY <1>1, <1>4, <1>5, <1>6, <1>7, <1>8

\* They depend on the file and nothing else.
LEMMA BeforeSame ==
  ASSUME file' = file, NEW c, cursor' = c
  PROVE  Before(cursor)' = Before(c)
BY DEF Before, Carried

LEMMA TotalSame ==
  ASSUME file' = file
  PROVE  Total' = Total
BY DEF Total, Before, Carried

-----------------------------------------------------------------------------
(* The inductive invariant: what was read, and what is left of the frame,  *)
(* are one piece of what there is to read.                                 *)

\* What there is to read: the rest of the frame of before the reset, and the file.
Whole(i) == IF i <= Len(stale) THEN stale[i] ELSE i - Len(stale)

\* What the frame has left.
Left == pFrame.nb_samples - processed

\* Until the end: what was read, and then what the frame has left.
Delivered ==
  ~lost /\ ~ate =>
    /\ Len(out) + Left = Len(stale) + Before(cursor)
    /\ \A i \in 1..Len(out) : out[i] = Whole(i)
    /\ \A j \in 1..Left : pFrame.first + processed + j - 1 = Whole(Len(out) + j)

\* The samples of the last frame.
Last == pFrame.first .. (pFrame.first + pFrame.nb_samples - 1)

\* From then on: everything, and then the last frame again.
Ended ==
  ~lost /\ ate =>
    /\ cursor = Len(file) + 1 /\ Len(out) >= Len(stale) + Total
    /\ \A i \in 1..Len(out) : IF i <= Len(stale) + Total THEN out[i] = Whole(i) ELSE out[i] \in Last

Inv == TypeOK /\ Delivered /\ Ended

\* The file is one of those that can be read.
LEMMA FileType ==
  ASSUME TypeOK
  PROVE  file \in Seq(Packets) /\ Len(file) \in Nat /\ Total \in Nat
<1>1. file \in Seq(Packets)
  BY FFmpegAssumptions DEF TypeOK
<1> QED BY <1>1, BeforeFacts

\* What Part() copies.
LEMMA PartFacts ==
  ASSUME NEW f, f.first \in Nat \ {0}, NEW p \in Nat, NEW k \in Nat, NEW t \in Nat,
         f.first + p + k <= t + 1
  PROVE  /\ Part(f, p, k) \in Seq(1..t) /\ Len(Part(f, p, k)) = k
         /\ \A i \in 1..k : Part(f, p, k)[i] = f.first + p + i - 1
<1>1. \A i \in 1..k : f.first + p + i - 1 \in 1..t
  OBVIOUS
<1> QED BY <1>1 DEF Part

\* One sequence after the other.
LEMMA ConcatFacts ==
  ASSUME NEW C, NEW s \in Seq(C), NEW r \in Seq(C)
  PROVE  /\ s \o r \in Seq(C) /\ Len(s \o r) = Len(s) + Len(r)
         /\ \A i \in 1..Len(s) : (s \o r)[i] = s[i]
         /\ \A i \in 1..Len(r) : (s \o r)[Len(s) + i] = r[i]
OBVIOUS

\* The frame of the next packet, if there is one.
LEMMA NextFrame ==
  ASSUME TypeOK, Ending # {}
  PROVE  /\ Min(Ending) \in cursor..Len(file) /\ file[Min(Ending)] \in Packets
         /\ file[Min(Ending)] # 0 /\ \A k \in cursor..(Min(Ending) - 1) : file[k] = 0
         /\ Before(Min(Ending)) = Before(cursor)
         /\ Before(cursor) \in Nat
         /\ Before(Min(Ending) + 1) = Before(cursor) + Carried(Min(Ending))
         /\ Before(cursor) + Carried(Min(Ending)) <= Total
<1>1. file \in Seq(Packets) /\ Len(file) \in Nat /\ cursor \in 1..(Len(file) + 1)
  BY FileType DEF TypeOK
<1>2. Ending \in SUBSET Nat /\ Ending # {}
  BY <1>1 DEF Ending
<1>3. Min(Ending) \in Ending /\ \A k \in Ending : Min(Ending) <= k
  <2>1. \E x \in Ending : \A y \in Ending : x <= y
    BY <1>2, LeastElement
  <2> QED BY <2>1 DEF Min
<1>4. PICK c \in cursor..Len(file) : c = Min(Ending) /\ file[c] # 0
  BY <1>3 DEF Ending
<1>5. \A k \in cursor..(c - 1) : file[k] = 0
  <2> SUFFICES ASSUME NEW k \in cursor..(c - 1), file[k] # 0 PROVE FALSE
    OBVIOUS
  <2>1. k \in Ending /\ ~(c <= k)
    BY <1>1, <1>4 DEF Ending
  <2> QED BY <1>3, <1>4, <2>1
<1>6. c \in 1..Len(file) /\ c \in 1..(Len(file) + 1) /\ cursor <= c /\ c + 1 \in 1..(Len(file) + 1)
  BY <1>1, <1>4
<1>7. Before(cursor) = Before(c) /\ Before(cursor) \in Nat
  BY <1>1, <1>5, <1>6, BeforeFacts
<1>8. Before(c + 1) = Before(c) + Carried(c) /\ Before(c + 1) <= Total
  BY <1>1, <1>6, BeforeFacts
<1>9. file[c] \in Packets
  BY <1>1, <1>6
<1> QED BY <1>4, <1>5, <1>7, <1>8, <1>9

\* The samples are all before the cursor when no packet with any is left.
LEMMA NoneLeft ==
  ASSUME TypeOK, Ending = {}
  PROVE  Before(cursor) = Total
<1>1. file \in Seq(Packets) /\ Len(file) \in Nat /\ cursor \in 1..(Len(file) + 1)
  BY FileType DEF TypeOK
<1>2. \A k \in cursor..((Len(file) + 1) - 1) : file[k] = 0
  BY <1>1 DEF Ending
<1>3. Len(file) + 1 \in 1..(Len(file) + 1) /\ cursor <= Len(file) + 1
  BY <1>1
<1> QED BY <1>1, <1>2, <1>3, BeforeFacts DEF Total

-----------------------------------------------------------------------------
(* The four ways a read can go.                                            *)

\* What no read changes.
Kept == file' = file /\ state' = state /\ stale' = stale /\ call' = "read"

\* The copy of what follows the first `from' samples of the frame.
Copies(from) ==
  \E k \in 0..(pFrame'.nb_samples - from) :
    out' = out \o Part(pFrame', from, k) /\ processed' = from + k

\* From the frame,
OfFrame == Copies(processed) /\ UNCHANGED <<cursor, pFrame, ate, lost>>

\* from the frame of the next packet,
OfNext(c) ==
  /\ processed = pFrame.nb_samples
  /\ c \in cursor..Len(file) /\ file[c] \in Nat /\ Carried(c) = file[c]
  /\ Before(c) = Before(cursor) /\ Before(c + 1) = Before(cursor) + file[c]
  /\ Before(cursor) \in Nat /\ Before(cursor) + file[c] <= Total
  /\ cursor' = c + 1 /\ pFrame' = [first |-> Before(cursor) + 1, nb_samples |-> file[c]]
  /\ UNCHANGED <<ate, lost>>
  /\ Copies(0)

\* from the last frame, at the end,
OfLast ==
  /\ processed = pFrame.nb_samples
  /\ Before(cursor) = Total /\ cursor' = Len(file) + 1
  /\ pFrame' \in {pFrame, NoFrame} /\ (cursor = Len(file) + 1 => pFrame' = pFrame)
  /\ ate' = TRUE /\ lost' = lost
  /\ Copies(0)

\* or after a packet that cannot be decoded.
OfDamaged ==
  /\ processed = pFrame.nb_samples
  /\ cursor \in 1..Len(file) /\ cursor' \in 1..(Len(file) + 1)
  /\ pFrame' \in {pFrame, NoFrame}
  /\ lost' = TRUE /\ ate' = ate
  /\ Copies(0)

\* Given() returns no more than there is.
LEMMA GivenBound ==
  ASSUME NEW n \in Asks, NEW left \in Nat
  PROVE  Given(n, left) \in 0..left
BY FFmpegAssumptions DEF Given

LEMMA ReadCases ==
  ASSUME TypeOK, NEW n \in Asks, Read(n)
  PROVE  Kept /\ (OfFrame \/ (\E c \in Nat : OfNext(c)) \/ OfLast \/ OfDamaged)
<1> USE DEF Kept
<1>0. /\ pFrame.nb_samples \in Nat /\ pFrame.first \in Nat \ {0} /\ processed \in 0..pFrame.nb_samples
      /\ cursor \in 1..(Len(file) + 1)
  BY DEF TypeOK
<1>1. Kept
  BY DEF Read
<1>2. CASE processed < pFrame.nb_samples
  <2>1. UNCHANGED <<cursor, pFrame, ate, lost>>
    BY <1>0, <1>2 DEF Read
  <2>2. Given(n, pFrame'.nb_samples - processed) \in 0..(pFrame'.nb_samples - processed)
    <3>1. pFrame'.nb_samples - processed \in Nat
      BY <1>0, <1>2, <2>1
    <3> QED BY <3>1, GivenBound
  <2>3. /\ out' = out \o Part(pFrame', processed, Given(n, pFrame'.nb_samples - processed))
        /\ processed' = processed + Given(n, pFrame'.nb_samples - processed)
    <3>1. ~(processed >= pFrame.nb_samples)
      BY <1>0, <1>2
    <3> QED BY <3>1 DEF Read
  <2>4. Copies(processed)
    BY <2>2, <2>3 DEF Copies
  <2> QED BY <1>1, <2>1, <2>4 DEF OfFrame
<1>3. CASE processed = pFrame.nb_samples
  <2>1. ReadPacket
    BY <1>0, <1>3 DEF Read
  <2>2. /\ out' = out \o Part(pFrame', 0, Given(n, pFrame'.nb_samples - 0))
        /\ processed' = 0 + Given(n, pFrame'.nb_samples - 0)
    BY <1>0, <1>3, SMTT(30) DEF Read
  <2>3. ASSUME pFrame'.nb_samples \in Nat PROVE Copies(0)
    <3>1. Given(n, pFrame'.nb_samples - 0) \in 0..(pFrame'.nb_samples - 0)
      BY <2>3, GivenBound
    <3> QED BY <2>2, <3>1 DEF Copies
  <2>4. CASE Ending = {}
    <3>1. Before(cursor) = Total
      BY <2>4, NoneLeft
    <3>2. cursor' = Len(file) + 1 /\ ate' = TRUE /\ lost' = lost /\ Incomplete(cursor <= Len(file))
      BY <2>1, <2>4 DEF ReadPacket
    <3>3. pFrame' \in {pFrame, NoFrame} /\ (cursor = Len(file) + 1 => pFrame' = pFrame)
      <4>1. Len(file) \in Nat
        BY FileType
      <4> QED BY <3>2, <4>1 DEF Incomplete
    <3>4. pFrame'.nb_samples \in Nat
      BY <1>0, <3>3 DEF NoFrame
    <3> QED BY <1>1, <1>3, <2>3, <3>1, <3>2, <3>3, <3>4 DEF OfLast
  <2>5. CASE Ending # {}
    <3>0. Len(file) \in Nat
      BY FileType
    <3>1. PICK c \in cursor..Len(file) : c = Min(Ending)
      BY <2>5, NextFrame
    <3>2. /\ file[c] \in Packets /\ file[c] # 0 /\ Before(c) = Before(cursor)
          /\ Before(c + 1) = Before(cursor) + Carried(c)
          /\ Before(cursor) \in Nat /\ Before(cursor) + Carried(c) <= Total
      BY <2>5, <3>1, NextFrame
    <3>3. /\ cursor' = c + 1 /\ ate' = ate
          /\ IF file[c] > 0
             THEN pFrame' = [first |-> Before(c) + 1, nb_samples |-> file[c]] /\ lost' = lost
             ELSE Incomplete(TRUE) /\ lost' = TRUE
      BY <2>1, <2>5, <3>1 DEF ReadPacket
    <3>4. CASE file[c] > 0
      <4>1. file[c] \in Nat /\ Carried(c) = file[c]
        BY <3>2, <3>4 DEF Carried, Packets
      <4>2. pFrame' = [first |-> Before(cursor) + 1, nb_samples |-> file[c]] /\ lost' = lost
        BY <3>2, <3>3, <3>4
      <4>3. Copies(0)
        BY <2>3, <4>1, <4>2
      <4>4. OfNext(c) /\ c \in Nat
        BY <1>0, <1>3, <3>0, <3>1, <3>2, <3>3, <4>1, <4>2, <4>3 DEF OfNext
      <4> QED BY <1>1, <4>4
    <3>5. CASE ~(file[c] > 0)
      <4>1. pFrame' \in {pFrame, NoFrame} /\ lost' = TRUE
        BY <3>3, <3>5 DEF Incomplete
      <4>2. pFrame'.nb_samples \in Nat
        BY <1>0, <4>1 DEF NoFrame
      <4>3. cursor \in 1..Len(file) /\ cursor' \in 1..(Len(file) + 1)
        BY <1>0, <3>0, <3>1, <3>3
      <4>4. OfDamaged
        BY <1>3, <2>3, <3>3, <4>1, <4>2, <4>3 DEF OfDamaged
      <4> QED BY <1>1, <4>4
    <3> QED BY <3>4, <3>5
  <2> QED BY <2>4, <2>5
<1> QED BY <1>0, <1>2, <1>3

\* What the copy adds to what was read.
LEMMA CopyFacts ==
  ASSUME TypeOK, NEW from \in Nat, Copies(from),
         pFrame'.first \in Nat \ {0}, pFrame'.nb_samples \in Nat, from <= pFrame'.nb_samples,
         pFrame'.first + pFrame'.nb_samples <= Total + 1
  PROVE  \E k \in 0..(pFrame'.nb_samples - from) :
           /\ processed' = from + k /\ processed' \in 0..pFrame'.nb_samples
           /\ out' \in Seq(1..Total) /\ Len(out') = Len(out) + k
           /\ \A i \in 1..Len(out) : out'[i] = out[i]
           /\ \A i \in 1..k : out'[Len(out) + i] = pFrame'.first + from + i - 1
<1>1. PICK k \in 0..(pFrame'.nb_samples - from) :
        out' = out \o Part(pFrame', from, k) /\ processed' = from + k
  BY DEF Copies
<1>2. Total \in Nat /\ out \in Seq(1..Total)
  BY FileType DEF TypeOK
<1>3. k \in Nat /\ pFrame'.first + from + k <= Total + 1
  BY <1>1, <1>2
<1> DEFINE p == Part(pFrame', from, k)
<1>4. p \in Seq(1..Total) /\ Len(p) = k /\ \A i \in 1..k : p[i] = pFrame'.first + from + i - 1
  BY <1>2, <1>3, PartFacts
<1> HIDE DEF p
<1>5. /\ out \o p \in Seq(1..Total) /\ Len(out \o p) = Len(out) + k
      /\ \A i \in 1..Len(out) : (out \o p)[i] = out[i]
      /\ \A i \in 1..k : (out \o p)[Len(out) + i] = p[i]
  <2>1. out \in Seq(1..Total) /\ p \in Seq(1..Total)
    BY <1>2, <1>4
  <2>2. /\ out \o p \in Seq(1..Total) /\ Len(out \o p) = Len(out) + Len(p)
        /\ \A i \in 1..Len(out) : (out \o p)[i] = out[i]
        /\ \A i \in 1..Len(p) : (out \o p)[Len(out) + i] = p[i]
    BY <2>1, ConcatFacts
  <2> QED BY <1>4, <2>2
<1>6. out' = out \o p
  BY <1>1 DEF p
<1>7. processed' \in 0..pFrame'.nb_samples
  BY <1>1
<1> QED BY <1>1, <1>4, <1>5, <1>6, <1>7

-----------------------------------------------------------------------------
(* Each of them keeps the invariant.                                       *)

\* The types, once the frame has its own.
LEMMA ReadTypes ==
  ASSUME TypeOK, Kept, cursor' \in 1..(Len(file) + 1), ate' \in BOOLEAN, lost' \in BOOLEAN,
         pFrame' \in [first : Nat \ {0}, nb_samples : Nat],
         pFrame'.first + pFrame'.nb_samples <= Total + 1,
         processed' \in 0..pFrame'.nb_samples, out' \in Seq(1..Total)
  PROVE  TypeOK'
<1>1. Total' = Total
  BY TotalSame DEF Kept
<1> HIDE DEF TypeOK
<1>2. file \in Files /\ state \in {"created", "open", "failed", "closed"} /\ stale \in Seq(1..Total)
  BY DEF TypeOK
<1> QED BY <1>1, <1>2 DEF TypeOK, Kept

LEMMA FrameTypes ==
  ASSUME TypeOK
  PROVE  /\ Total \in Nat /\ Len(file) \in Nat /\ cursor \in 1..(Len(file) + 1)
         /\ pFrame \in [first : Nat \ {0}, nb_samples : Nat]
         /\ pFrame.first + pFrame.nb_samples <= Total + 1
         /\ NoFrame \in [first : Nat \ {0}, nb_samples : Nat]
         /\ NoFrame.first + NoFrame.nb_samples <= Total + 1
         /\ processed \in 0..pFrame.nb_samples
         /\ ate \in BOOLEAN /\ lost \in BOOLEAN
         /\ Len(out) \in Nat /\ Len(stale) \in Nat
         /\ Before(cursor) \in Nat /\ Before(cursor) <= Total
BY FileType, BeforeFacts DEF TypeOK, NoFrame

\* What comes behind the first a.
LEMMA Behind ==
  ASSUME NEW a \in Nat, NEW k \in Nat, NEW i \in 1..(a + k), i \notin 1..a
  PROVE  \E j \in 1..k : i = a + j
<1>1. i - a \in 1..k /\ i = a + (i - a)
  OBVIOUS
<1> QED BY <1>1

LEMMA FrameInv ==
  ASSUME Inv, Kept, OfFrame
  PROVE  Inv'
<1>1. TypeOK
  BY DEF Inv
<1>2. /\ Total \in Nat /\ pFrame \in [first : Nat \ {0}, nb_samples : Nat]
      /\ pFrame.first + pFrame.nb_samples <= Total + 1 /\ processed \in 0..pFrame.nb_samples
      /\ Len(out) \in Nat /\ Len(stale) \in Nat /\ ate \in BOOLEAN /\ lost \in BOOLEAN
      /\ cursor \in 1..(Len(file) + 1)
  BY <1>1, FrameTypes
<1>3. cursor' = cursor /\ pFrame' = pFrame /\ ate' = ate /\ lost' = lost /\ Copies(processed)
  BY DEF OfFrame
<1>4. PICK k \in 0..(pFrame'.nb_samples - processed) :
           /\ processed' = processed + k /\ processed' \in 0..pFrame'.nb_samples
           /\ out' \in Seq(1..Total) /\ Len(out') = Len(out) + k
           /\ \A i \in 1..Len(out) : out'[i] = out[i]
           /\ \A i \in 1..k : out'[Len(out) + i] = pFrame'.first + processed + i - 1
  <2>1. /\ processed \in Nat /\ pFrame'.first \in Nat \ {0} /\ pFrame'.nb_samples \in Nat
        /\ processed <= pFrame'.nb_samples /\ pFrame'.first + pFrame'.nb_samples <= Total + 1
    BY <1>2, <1>3
  <2> QED BY <1>1, <1>3, <2>1, CopyFacts
<1>5. TypeOK'
  BY <1>1, <1>2, <1>3, <1>4, ReadTypes
<1>6. Total' = Total /\ stale' = stale /\ file' = file
  BY TotalSame DEF Kept
<1>7. \A i : Whole(i)' = Whole(i)
  BY <1>6 DEF Whole
<1>8. Delivered'
  <2> SUFFICES ASSUME ~lost, ~ate
               PROVE  /\ Len(out') + Left' = Len(stale') + Before(cursor)'
                      /\ \A i \in 1..Len(out') : out'[i] = Whole(i)'
                      /\ \A j \in 1..Left' : pFrame'.first + processed' + j - 1 = Whole(Len(out) + j)'
    BY <1>3 DEF Delivered
  <2>1. /\ Len(out) + Left = Len(stale) + Before(cursor)
        /\ \A i \in 1..Len(out) : out[i] = Whole(i)
        /\ \A j \in 1..Left : pFrame.first + processed + j - 1 = Whole(Len(out) + j)
    BY DEF Inv, Delivered
  <2>2. Left' = Left - k /\ Left \in Nat /\ k \in 0..Left
    BY <1>2, <1>3, <1>4 DEF Left
  <2>3. Before(cursor)' = Before(cursor)
    BY <1>3, <1>6, BeforeSame
  <2>4. Len(out') + Left' = Len(stale') + Before(cursor)'
    BY <1>2, <1>4, <1>6, <2>1, <2>2, <2>3
  <2>5. ASSUME NEW i \in 1..Len(out') PROVE out'[i] = Whole(i)'
    <3>1. CASE i \in 1..Len(out)
      BY <1>4, <1>7, <2>1, <3>1
    <3>2. CASE i \notin 1..Len(out)
      <4>1. PICK j \in 1..k : i = Len(out) + j
        <5>1. k \in Nat /\ Len(out) \in Nat /\ i \in 1..(Len(out) + k)
          BY <1>2, <1>4
        <5> QED BY <3>2, <5>1, Behind
      <4>2. j \in 1..Left
        BY <2>2, <4>1
      <4> QED BY <1>3, <1>4, <1>7, <2>1, <4>1, <4>2
    <3> QED BY <3>1, <3>2
  <2>6. ASSUME NEW j \in 1..Left' PROVE pFrame'.first + processed' + j - 1 = Whole(Len(out) + j)'
    <3>1. k + j \in 1..Left /\ Len(out') + j = Len(out) + (k + j)
      BY <1>2, <1>4, <2>2
    <3>2. pFrame.first + processed + (k + j) - 1 = Whole(Len(out) + (k + j))
      BY <2>1, <3>1
    <3>3. Whole(Len(out) + j)' = Whole(Len(out) + (k + j))
      BY <1>6, <3>1 DEF Whole
    <3> QED BY <1>2, <1>3, <1>4, <3>2, <3>3, SMTT(30)
  <2> QED BY <2>4, <2>5, <2>6
<1>9. Ended'
  <2> SUFFICES ASSUME ~lost, ate
               PROVE  /\ cursor' = Len(file') + 1 /\ Len(out') >= Len(stale') + Total'
                      /\ \A i \in 1..Len(out') :
                           IF i <= Len(stale') + Total' THEN out'[i] = Whole(i)' ELSE out'[i] \in Last'
    BY <1>3 DEF Ended
  <2>1. /\ cursor = Len(file) + 1 /\ Len(out) >= Len(stale) + Total
        /\ \A i \in 1..Len(out) : IF i <= Len(stale) + Total THEN out[i] = Whole(i) ELSE out[i] \in Last
    BY DEF Inv, Ended
  <2>2. Last' = Last /\ Last = pFrame.first .. (pFrame.first + pFrame.nb_samples - 1)
    BY <1>3 DEF Last
  <2>3. cursor' = Len(file') + 1 /\ Len(out') >= Len(stale') + Total'
    BY <1>2, <1>3, <1>4, <1>6, <2>1
  <2>4. ASSUME NEW i \in 1..Len(out')
        PROVE  IF i <= Len(stale) + Total THEN out'[i] = Whole(i) ELSE out'[i] \in Last
    <3>1. CASE i \in 1..Len(out)
      BY <1>4, <2>1, <3>1
    <3>2. CASE i \notin 1..Len(out)
      <4>1. PICK j \in 1..k : i = Len(out) + j
        <5>1. k \in Nat /\ Len(out) \in Nat /\ i \in 1..(Len(out) + k)
          BY <1>2, <1>4
        <5> QED BY <3>2, <5>1, Behind
      <4>2. out'[i] = pFrame.first + processed + j - 1
        BY <1>3, <1>4, <4>1
      <4>3. out'[i] \in Last /\ ~(i <= Len(stale) + Total)
        <5>1. /\ pFrame.first \in Nat /\ processed \in Nat /\ k \in 0..(pFrame.nb_samples - processed)
              /\ pFrame.nb_samples \in Nat /\ j \in 1..k
          BY <1>2, <1>3, <1>4, <4>1
        <5>2. pFrame.first + processed + j - 1 \in Last
          <6>1. /\ pFrame.first <= pFrame.first + processed + j - 1
                /\ pFrame.first + processed + j - 1 <= pFrame.first + pFrame.nb_samples - 1
            BY <5>1, SMTT(30)
          <6> QED BY <2>2, <5>1, <6>1
        <5>3. ~(Len(out) + j <= Len(stale) + Total)
          BY <1>2, <2>1, <5>1
        <5> QED BY <4>1, <4>2, <5>2, <5>3
      <4> QED BY <4>3
    <3> QED BY <3>1, <3>2
  <2> QED BY <1>6, <1>7, <2>2, <2>3, <2>4
<1> QED BY <1>5, <1>8, <1>9 DEF Inv

LEMMA NextInv ==
  ASSUME Inv, Kept, NEW c \in Nat, OfNext(c)
  PROVE  Inv'
<1>1. TypeOK
  BY DEF Inv
<1>2. /\ Total \in Nat /\ Len(file) \in Nat /\ cursor \in 1..(Len(file) + 1)
      /\ Len(out) \in Nat /\ Len(stale) \in Nat /\ ate \in BOOLEAN /\ lost \in BOOLEAN
      /\ pFrame.nb_samples \in Nat
  BY <1>1, FrameTypes
<1>3. /\ processed = pFrame.nb_samples /\ c \in cursor..Len(file) /\ file[c] \in Nat
      /\ Before(c + 1) = Before(cursor) + file[c]
      /\ Before(cursor) \in Nat /\ Before(cursor) + file[c] <= Total
      /\ cursor' = c + 1 /\ pFrame' = [first |-> Before(cursor) + 1, nb_samples |-> file[c]]
      /\ ate' = ate /\ lost' = lost /\ Copies(0)
  BY DEF OfNext
<1>3a. PICK b \in Nat : b = Before(cursor)
  BY <1>3
<1>3b. PICK m \in Nat : m = file[c] /\ b + m <= Total /\ b = Before(cursor)
  BY <1>3, <1>3a
<1>4. /\ pFrame' \in [first : Nat \ {0}, nb_samples : Nat] /\ pFrame'.first = b + 1
      /\ pFrame'.nb_samples = m /\ pFrame'.first + pFrame'.nb_samples <= Total + 1
  <2>1. pFrame' = [first |-> b + 1, nb_samples |-> m]
    BY <1>3, <1>3b
  <2>2. b + 1 \in Nat \ {0} /\ (b + 1) + m <= Total + 1
    <3>1. b \in Nat /\ m \in Nat /\ b + m <= Total /\ Total \in Nat
      BY <1>2, <1>3b
    <3> QED BY <3>1
  <2> QED BY <1>3b, <2>1, <2>2
<1>5. PICK k \in 0..(pFrame'.nb_samples - 0) :
           /\ processed' = 0 + k /\ processed' \in 0..pFrame'.nb_samples
           /\ out' \in Seq(1..Total) /\ Len(out') = Len(out) + k
           /\ \A i \in 1..Len(out) : out'[i] = out[i]
           /\ \A i \in 1..k : out'[Len(out) + i] = pFrame'.first + 0 + i - 1
  <2>1. 0 \in Nat /\ 0 <= pFrame'.nb_samples /\ pFrame'.first \in Nat \ {0} /\ pFrame'.nb_samples \in Nat
    BY <1>3, <1>4
  <2> QED BY <1>1, <1>3, <1>4, <2>1, CopyFacts
<1>6. TypeOK'
  <2>1. cursor' \in 1..(Len(file) + 1)
    BY <1>2, <1>3
  <2> QED BY <1>1, <1>2, <1>3, <1>4, <1>5, <2>1, ReadTypes
<1>7. Total' = Total /\ stale' = stale /\ file' = file
  BY TotalSame DEF Kept
<1>8. ~ate \/ lost
  <2> SUFFICES ASSUME ate, ~lost PROVE FALSE
    OBVIOUS
  <2>1. cursor = Len(file) + 1
    BY DEF Inv, Ended
  <2> QED BY <1>2, <1>3, <2>1
<1>9. Delivered'
  <2> SUFFICES ASSUME ~lost, ~ate
               PROVE  /\ Len(out') + Left' = Len(stale') + Before(cursor)'
                      /\ \A i \in 1..Len(out') : out'[i] = Whole(i)'
                      /\ \A j \in 1..Left' : pFrame'.first + processed' + j - 1 = Whole(Len(out) + j)'
    BY <1>3 DEF Delivered
  <2>1. /\ Len(out) + Left = Len(stale) + Before(cursor)
        /\ \A i \in 1..Len(out) : out[i] = Whole(i)
    BY DEF Inv, Delivered
  <2>2. Len(out) = Len(stale) + b
    <3>1. Left = 0
      BY <1>2, <1>3 DEF Left
    <3>2. Len(out) + Left = Len(stale) + b
      BY <1>3b, <2>1
    <3> QED BY <1>2, <3>1, <3>2
  <2>3. Left' = m - k /\ k \in 0..m
    BY <1>3b, <1>4, <1>5 DEF Left
  <2>4. Before(cursor)' = b + m
    <3>1. Before(cursor)' = Before(c + 1)
      BY <1>3, <1>7, BeforeSame
    <3> QED BY <1>3, <1>3b, <3>1
  <2>5. Len(out') + Left' = Len(stale') + Before(cursor)'
    <3>1. Len(out') = Len(out) + k /\ stale' = stale /\ k \in Nat
      BY <1>5, <1>7, <2>3
    <3>2. Len(stale) \in Nat /\ b \in Nat /\ m \in Nat
      BY <1>2, <1>3b
    <3> QED BY <2>2, <2>3, <2>4, <3>1, <3>2
  <2>6. ASSUME NEW i \in 1..Len(out') PROVE out'[i] = Whole(i)'
    <3>1. CASE i \in 1..Len(out)
      BY <1>5, <1>7, <2>1, <3>1 DEF Whole
    <3>2. CASE i \notin 1..Len(out)
      <4>1. PICK j \in 1..k : i = Len(out) + j
        <5>1. k \in Nat /\ Len(out) \in Nat /\ i \in 1..(Len(out) + k)
          BY <1>2, <1>5
        <5> QED BY <3>2, <5>1, Behind
      <4>2. out'[i] = i - Len(stale) /\ ~(i <= Len(stale))
        <5>1. out'[i] = (b + 1) + 0 + j - 1
          BY <1>4, <1>5, <4>1
        <5>2. b \in Nat /\ j \in Nat /\ j >= 1 /\ i = Len(stale) + b + j
          BY <1>3b, <1>5, <2>2, <4>1
        <5> QED BY <1>2, <5>1, <5>2
      <4> QED BY <1>7, <4>2 DEF Whole
    <3> QED BY <3>1, <3>2
  <2>7. ASSUME NEW j \in 1..Left' PROVE pFrame'.first + processed' + j - 1 = Whole(Len(out) + j)'
    <3>1. Len(out') + j = Len(stale) + b + k + j /\ ~(Len(out') + j <= Len(stale'))
      <4>1. Len(out') = Len(out) + k /\ stale' = stale
        BY <1>5, <1>7, <2>3
      <4>2. b \in Nat /\ j \in Nat /\ j >= 1 /\ k \in Nat /\ Len(stale) \in Nat
        BY <1>2, <1>3b, <2>3
      <4> QED BY <2>2, <4>1, <4>2
    <3>2. Whole(Len(out) + j)' = b + k + j
      <4>1. Whole(Len(out) + j)' = (Len(out') + j) - Len(stale')
        BY <3>1 DEF Whole
      <4>2. b \in Nat /\ j \in Nat /\ k \in Nat
        BY <1>3b, <2>3
      <4> QED BY <1>2, <1>7, <3>1, <4>1, <4>2
    <3> QED BY <1>3b, <1>4, <1>5, <2>3, <3>2
  <2> QED BY <2>5, <2>6, <2>7
<1>10. Ended'
  BY <1>3, <1>8 DEF Ended
<1> QED BY <1>6, <1>9, <1>10 DEF Inv

LEMMA LastInv ==
  ASSUME Inv, Kept, OfLast
  PROVE  Inv'
<1>1. TypeOK
  BY DEF Inv
<1>2. /\ Total \in Nat /\ Len(file) \in Nat /\ cursor \in 1..(Len(file) + 1)
      /\ Len(out) \in Nat /\ Len(stale) \in Nat /\ ate \in BOOLEAN /\ lost \in BOOLEAN
      /\ pFrame.nb_samples \in Nat
  BY <1>1, FrameTypes
<1>3. /\ processed = pFrame.nb_samples /\ Before(cursor) = Total /\ cursor' = Len(file) + 1
      /\ (cursor = Len(file) + 1 => pFrame' = pFrame)
      /\ ate' = TRUE /\ lost' = lost /\ Copies(0)
  BY DEF OfLast
<1>4. /\ pFrame' \in [first : Nat \ {0}, nb_samples : Nat] /\ pFrame'.first \in Nat \ {0}
      /\ pFrame'.nb_samples \in Nat /\ pFrame'.first + pFrame'.nb_samples <= Total + 1
  <2>1. pFrame' = pFrame \/ pFrame' = NoFrame
    BY DEF OfLast
  <2> QED BY <1>1, <2>1, FrameTypes
<1>5. PICK k \in 0..(pFrame'.nb_samples - 0) :
           /\ processed' = 0 + k /\ processed' \in 0..pFrame'.nb_samples
           /\ out' \in Seq(1..Total) /\ Len(out') = Len(out) + k
           /\ \A i \in 1..Len(out) : out'[i] = out[i]
           /\ \A i \in 1..k : out'[Len(out) + i] = pFrame'.first + 0 + i - 1
  <2>1. 0 \in Nat /\ 0 <= pFrame'.nb_samples
    BY <1>4
  <2> QED BY <1>1, <1>3, <1>4, <2>1, CopyFacts
<1>6. TypeOK'
  <2>1. cursor' \in 1..(Len(file) + 1) /\ ate' \in BOOLEAN /\ lost' \in BOOLEAN
    BY <1>2, <1>3
  <2> QED BY <1>1, <1>4, <1>5, <2>1, ReadTypes
<1>7. Total' = Total /\ stale' = stale /\ file' = file
  BY TotalSame DEF Kept
<1>8. Delivered'
  BY <1>3 DEF Delivered
<1>9. Ended'
  <2> SUFFICES ASSUME ~lost
               PROVE  /\ cursor' = Len(file') + 1 /\ Len(out') >= Len(stale') + Total'
                      /\ \A i \in 1..Len(out') :
                           IF i <= Len(stale') + Total' THEN out'[i] = Whole(i)' ELSE out'[i] \in Last'
    BY <1>3 DEF Ended
  <2>1. /\ Len(out) >= Len(stale) + Total
        /\ \A i \in 1..Len(out) : IF i <= Len(stale) + Total THEN out[i] = Whole(i) ELSE out[i] \in Last'
    <3>1. CASE ~ate
      <4>1. /\ Len(out) + Left = Len(stale) + Before(cursor)
            /\ \A i \in 1..Len(out) : out[i] = Whole(i)
        BY <3>1 DEF Inv, Delivered
      <4>2. Len(out) = Len(stale) + Total
        BY <1>2, <1>3, <4>1 DEF Left
      <4> QED BY <1>2, <4>1, <4>2
    <3>2. CASE ate
      <4>1. /\ cursor = Len(file) + 1 /\ Len(out) >= Len(stale) + Total
            /\ \A i \in 1..Len(out) : IF i <= Len(stale) + Total THEN out[i] = Whole(i) ELSE out[i] \in Last
        BY <3>2 DEF Inv, Ended
      <4>2. Last' = Last
        BY <1>3, <4>1 DEF Last
      <4> QED BY <4>1, <4>2
    <3> QED BY <1>2, <3>1, <3>2
  <2>2. Last' = pFrame'.first .. (pFrame'.first + pFrame'.nb_samples - 1)
    BY DEF Last
  <2>3. \A i : Whole(i)' = Whole(i)
    BY <1>7 DEF Whole
  <2>4. cursor' = Len(file') + 1 /\ Len(out') >= Len(stale') + Total'
    BY <1>2, <1>3, <1>5, <1>7, <2>1
  <2>5. ASSUME NEW i \in 1..Len(out')
        PROVE  IF i <= Len(stale) + Total THEN out'[i] = Whole(i) ELSE out'[i] \in Last'
    <3>1. CASE i \in 1..Len(out)
      BY <1>5, <2>1, <3>1
    <3>2. CASE i \notin 1..Len(out)
      <4>1. PICK j \in 1..k : i = Len(out) + j
        <5>1. k \in Nat /\ Len(out) \in Nat /\ i \in 1..(Len(out) + k)
          BY <1>2, <1>5
        <5> QED BY <3>2, <5>1, Behind
      <4>2. out'[i] = pFrame'.first + 0 + j - 1
        BY <1>5, <4>1
      <4>3. out'[i] \in Last' /\ ~(i <= Len(stale) + Total)
        <5>1. pFrame'.first \in Nat /\ pFrame'.nb_samples \in Nat /\ k \in 0..(pFrame'.nb_samples - 0) /\ j \in 1..k
          BY <1>4, <1>5, <4>1
        <5>2. pFrame'.first + 0 + j - 1 \in Last'
          BY <2>2, <5>1
        <5>3. ~(Len(out) + j <= Len(stale) + Total)
          BY <1>2, <2>1, <5>1
        <5> QED BY <4>1, <4>2, <5>2, <5>3
      <4> QED BY <4>3
    <3> QED BY <3>1, <3>2
  <2> QED BY <1>7, <2>3, <2>4, <2>5
<1> QED BY <1>6, <1>8, <1>9 DEF Inv

LEMMA DamagedInv ==
  ASSUME Inv, Kept, OfDamaged
  PROVE  Inv'
<1>1. TypeOK
  BY DEF Inv
<1>2. /\ cursor' \in 1..(Len(file) + 1) /\ lost' = TRUE /\ ate' = ate /\ Copies(0)
  BY DEF OfDamaged
<1>3. /\ pFrame' \in [first : Nat \ {0}, nb_samples : Nat] /\ pFrame'.first \in Nat \ {0}
      /\ pFrame'.nb_samples \in Nat /\ pFrame'.first + pFrame'.nb_samples <= Total + 1
  <2>1. pFrame' = pFrame \/ pFrame' = NoFrame
    BY DEF OfDamaged
  <2> QED BY <1>1, <2>1, FrameTypes
<1>4. processed' \in 0..pFrame'.nb_samples /\ out' \in Seq(1..Total)
  <2>1. 0 \in Nat /\ 0 <= pFrame'.nb_samples
    BY <1>3
  <2> QED BY <1>1, <1>2, <1>3, <2>1, CopyFacts
<1>5. TypeOK'
  <2>1. ate' \in BOOLEAN /\ lost' \in BOOLEAN
    BY <1>1, <1>2, FrameTypes
  <2> QED BY <1>1, <1>2, <1>3, <1>4, <2>1, ReadTypes
<1> QED BY <1>2, <1>5 DEF Inv, Delivered, Ended

LEMMA ReadInv ==
  ASSUME Inv, NEW n \in Asks, Read(n)
  PROVE  Inv'
<1>1. TypeOK
  BY DEF Inv
<1>2. Kept /\ (OfFrame \/ (\E c \in Nat : OfNext(c)) \/ OfLast \/ OfDamaged)
  BY <1>1, ReadCases
<1>3. CASE OfFrame
  BY <1>2, <1>3, FrameInv
<1>4. CASE \E c \in Nat : OfNext(c)
  <2>1. PICK c \in Nat : OfNext(c)
    BY <1>4
  <2> QED BY <1>2, <2>1, NextInv
<1>5. CASE OfLast
  BY <1>2, <1>5, LastInv
<1>6. CASE OfDamaged
  BY <1>2, <1>6, DamagedInv
<1> QED BY <1>2, <1>3, <1>4, <1>5, <1>6

\* The rewind makes what is left of the frame the start of what there is to read.
LEMMA ResetInv ==
  ASSUME Inv, Reset
  PROVE  Inv'
<1>1. TypeOK
  BY DEF Inv
<1>2. /\ Total \in Nat /\ pFrame \in [first : Nat \ {0}, nb_samples : Nat] /\ Len(file) \in Nat
      /\ pFrame.first + pFrame.nb_samples <= Total + 1 /\ processed \in 0..pFrame.nb_samples
      /\ cursor \in 1..(Len(file) + 1)
  BY <1>1, FrameTypes
<1>3. /\ file' = file /\ state' = state /\ pFrame' = pFrame /\ processed' = processed
      /\ ate' = FALSE /\ call' = "reset" /\ out' = <<>>
      /\ stale' = Part(pFrame, processed, pFrame.nb_samples - processed)
  BY DEF Reset
<1>4. lost' \in BOOLEAN /\ cursor' \in 1..(Len(file) + 1) /\ (~lost' => cursor' = 1)
  <2>1. PICK fails \in SeekFails : cursor' = (IF fails THEN cursor ELSE 1) /\ lost' = fails
    BY DEF Reset
  <2>2. fails \in BOOLEAN
    BY FFmpegAssumptions
  <2> QED BY <1>2, <2>1, <2>2
<1>5. Total' = Total
  BY <1>3, TotalSame
<1>6. /\ stale' \in Seq(1..Total) /\ Len(stale') = Left /\ Left \in Nat
      /\ \A i \in 1..Left : stale'[i] = pFrame.first + processed + i - 1
  <2>1. /\ pFrame.first \in Nat \ {0} /\ processed \in Nat /\ Left \in Nat
        /\ pFrame.first + processed + Left <= Total + 1
    BY <1>2 DEF Left
  <2>2. stale' = Part(pFrame, processed, Left)
    BY <1>3 DEF Left
  <2>3. PICK k \in Nat : k = Left /\ pFrame.first + processed + k <= Total + 1
    BY <2>1
  <2>4. PICK f \in {pFrame}, p \in Nat, m \in Nat : f = pFrame /\ p = processed /\ m = Total
    BY <1>2, <2>1
  <2>5. f.first \in Nat \ {0} /\ f.first + p + k <= m + 1
    BY <2>1, <2>3, <2>4
  <2>6. /\ Part(f, p, k) \in Seq(1..m) /\ Len(Part(f, p, k)) = k
        /\ \A i \in 1..k : Part(f, p, k)[i] = f.first + p + i - 1
    BY <2>5, PartFacts, SMTT(30)
  <2> QED BY <2>1, <2>2, <2>3, <2>4, <2>6
<1>7. TypeOK'
  <2>1. file \in Files /\ state \in {"created", "open", "failed", "closed"}
    BY <1>1 DEF TypeOK
  <2>2. out' \in Seq(1..Total)
    BY <1>3
  <2> QED BY <1>2, <1>3, <1>4, <1>5, <1>6, <2>1, <2>2 DEF TypeOK
<1>8. Delivered'
  <2> SUFFICES ASSUME ~lost'
               PROVE  /\ Len(out') + Left' = Len(stale') + Before(cursor)'
                      /\ \A i \in 1..Len(out') : out'[i] = Whole(i)'
                      /\ \A j \in 1..Left' : pFrame'.first + processed' + j - 1 = Whole(Len(out) + j)'
    BY DEF Delivered
  <2>1. Before(cursor)' = 0
    <3>1. Before(cursor)' = Before(1)
      BY <1>3, <1>4, BeforeSame
    <3>2. Before(1) = 0
      BY <1>1, FileType, BeforeFacts
    <3> QED BY <3>1, <3>2
  <2>2. Len(out') = 0 /\ Left' = Left
    BY <1>3 DEF Left
  <2>3. ASSUME NEW j \in 1..Left' PROVE pFrame'.first + processed' + j - 1 = Whole(Len(out) + j)'
    <3>1. Len(out') + j = j /\ j <= Len(stale')
      BY <1>6, <2>2
    <3>2. Whole(Len(out) + j)' = stale'[j]
      BY <3>1 DEF Whole
    <3> QED BY <1>3, <1>6, <2>2, <3>2
  <2>4. Len(out') + Left' = Len(stale') + Before(cursor)'
    BY <1>6, <2>1, <2>2
  <2>5. \A i \in 1..Len(out') : out'[i] = Whole(i)'
    BY <2>2
  <2> QED BY <2>3, <2>4, <2>5
<1>9. Ended'
  BY <1>3 DEF Ended
<1> QED BY <1>7, <1>8, <1>9 DEF Inv

\* Opening and closing leave what was read alone.
LEMMA RestInv ==
  ASSUME Inv, UNCHANGED <<file, frames, ate, out, stale, lost>>,
         state' \in {"created", "open", "failed", "closed"},
         call' \in {"none", "open", "read", "reset"}
  PROVE  Inv'
<1>1. /\ file' = file /\ cursor' = cursor /\ pFrame' = pFrame /\ processed' = processed /\ ate' = ate
      /\ out' = out /\ stale' = stale /\ lost' = lost
  BY DEF frames
<1>2. Total' = Total /\ Before(cursor)' = Before(cursor)
  BY <1>1, TotalSame, BeforeSame
<1>3. Left' = Left /\ Last' = Last /\ \A i : Whole(i)' = Whole(i)
  BY <1>1 DEF Left, Last, Whole
<1>4. TypeOK'
  BY <1>1, <1>2 DEF Inv, TypeOK
<1>5. Delivered'
  <2>1. Whole(Len(out) + 0)' = Whole(Len(out) + 0)
    BY <1>1 DEF Whole
  <2>2. \A j : Whole(Len(out) + j)' = Whole(Len(out) + j)
    BY <1>1 DEF Whole
  <2> QED BY <1>1, <1>2, <1>3, <2>2 DEF Inv, Delivered
<1>6. Ended'
  BY <1>1, <1>2, <1>3 DEF Inv, Ended
<1> QED BY <1>4, <1>5, <1>6 DEF Inv

LEMMA InitInv == Init => Inv
<1> SUFFICES ASSUME Init PROVE Inv
  OBVIOUS
<1>1. file \in Seq(Packets)
  BY FFmpegAssumptions DEF Init
<1>2. Len(file) \in Nat /\ Total \in Nat /\ Before(1) = 0
  BY <1>1, BeforeFacts
<1>3. TypeOK
  <2>1. /\ file \in Files /\ state = "created" /\ cursor = 1 /\ pFrame = [first |-> 1, nb_samples |-> 0]
        /\ processed = 0 /\ ate = FALSE /\ call = "none" /\ out = <<>> /\ stale = <<>> /\ lost = FALSE
    BY DEF Init, NoFrame
  <2>2. pFrame \in [first : Nat \ {0}, nb_samples : Nat] /\ pFrame.first + pFrame.nb_samples <= Total + 1
    BY <1>2, <2>1
  <2>3. cursor \in 1..(Len(file) + 1) /\ processed \in 0..pFrame.nb_samples
    BY <1>2, <2>1
  <2>4. out \in Seq(1..Total) /\ stale \in Seq(1..Total)
    BY <2>1
  <2> QED BY <2>1, <2>2, <2>3, <2>4 DEF TypeOK
<1>4. cursor = 1 /\ Len(out) = 0 /\ Len(stale) = 0 /\ Left = 0
  BY DEF Init, Left, NoFrame
<1>5. Delivered
  <2>1. Before(cursor) = 0
    BY <1>2, <1>4
  <2> QED BY <1>4, <2>1 DEF Delivered
<1>6. Ended
  BY DEF Init, Ended
<1> QED BY <1>3, <1>5, <1>6 DEF Inv

LEMMA StepInv == Inv /\ [Next]_vars => Inv'
<1> SUFFICES ASSUME Inv, [Next]_vars PROVE Inv'
  OBVIOUS
<1>0. state \in {"created", "open", "failed", "closed"} /\ call \in {"none", "open", "read", "reset"}
  BY DEF Inv, TypeOK
<1>1. CASE Open
  <2>1. UNCHANGED <<file, frames, ate, out, stale, lost>>
    BY <1>1 DEF Open
  <2>2. state' \in {"created", "open", "failed", "closed"} /\ call' \in {"none", "open", "read", "reset"}
    BY <1>1 DEF Open
  <2> QED BY <2>1, <2>2, RestInv
<1>2. CASE Reads
  BY <1>2, ReadInv DEF Reads
<1>3. CASE Reset
  BY <1>3, ResetInv
<1>4. CASE Close
  <2>1. UNCHANGED <<file, frames, ate, out, stale, lost>>
    BY <1>4 DEF Close, record
  <2>2. state' \in {"created", "open", "failed", "closed"} /\ call' \in {"none", "open", "read", "reset"}
    BY <1>0, <1>4 DEF Close, record
  <2> QED BY <2>1, <2>2, RestInv
<1>5. CASE UNCHANGED vars
  <2>1. UNCHANGED <<file, frames, ate, out, stale, lost>>
    BY <1>5 DEF vars, record
  <2>2. state' \in {"created", "open", "failed", "closed"} /\ call' \in {"none", "open", "read", "reset"}
    BY <1>0, <1>5 DEF vars, record
  <2> QED BY <2>1, <2>2, RestInv
<1> QED BY <1>1, <1>2, <1>3, <1>4, <1>5 DEF Next

LEMMA InvHolds == Spec => []Inv
<1> QED BY InitInv, StepInv, PTL DEF Spec

\* What there is to read, as a sequence.
LEMMA WholeFacts ==
  ASSUME TypeOK
  PROVE  /\ stale \o Stream \in Seq(1..Total) /\ Len(stale \o Stream) = Len(stale) + Total
         /\ \A i \in 1..(Len(stale) + Total) : (stale \o Stream)[i] = Whole(i)
<1>1. Total \in Nat /\ stale \in Seq(1..Total) /\ Len(stale) \in Nat
  BY FileType DEF TypeOK
<1>2. Stream \in Seq(1..Total) /\ Len(Stream) = Total /\ \A i \in 1..Total : Stream[i] = i
  BY <1>1 DEF Stream
<1>3. /\ stale \o Stream \in Seq(1..Total) /\ Len(stale \o Stream) = Len(stale) + Len(Stream)
      /\ \A i \in 1..Len(stale) : (stale \o Stream)[i] = stale[i]
      /\ \A i \in 1..Len(Stream) : (stale \o Stream)[Len(stale) + i] = Stream[i]
  <2>1. stale \in Seq(1..Total) /\ Stream \in Seq(1..Total)
    BY <1>1, <1>2
  <2> QED BY <2>1, ConcatFacts
<1>4. ASSUME NEW i \in 1..(Len(stale) + Total) PROVE (stale \o Stream)[i] = Whole(i)
  <2>1. CASE i \in 1..Len(stale)
    BY <1>1, <1>3, <2>1 DEF Whole
  <2>2. CASE i \notin 1..Len(stale)
    <3>1. PICK j \in 1..Total : i = Len(stale) + j
      BY <1>1, <2>2, Behind
    <3>2. (stale \o Stream)[i] = j
      BY <1>2, <1>3, <3>1
    <3>3. Whole(i) = j
      BY <1>1, <3>1 DEF Whole
    <3> QED BY <3>2, <3>3
  <2> QED BY <2>1, <2>2
<1> QED BY <1>2, <1>3, <1>4

-----------------------------------------------------------------------------
(* The theorems.                                                           *)

\* Every variable stays in its type: in particular no read copies from behind the
\* frame, and every sample returned is one of the file.
THEOREM TypeCorrect == Spec => []TypeOK
<1>1. Inv => TypeOK
  BY DEF Inv
<1> QED BY <1>1, InvHolds, PTL

\* However a file is cut into packets and the reads into numbers of samples, what
\* _impl_read returns until the end are the samples of the file in their order, after
\* what a reset left in the frame.
THEOREM InOrderCorrect == Spec => []InOrder
<1>1. Inv => InOrder
  <2> SUFFICES ASSUME Inv, ~ate, ~lost PROVE out = SubSeq(stale \o Stream, 1, Len(out))
    BY DEF InOrder
  <2>1. TypeOK
    BY DEF Inv
  <2>2. /\ Total \in Nat /\ Len(out) \in Nat /\ Len(stale) \in Nat
        /\ Before(cursor) \in Nat /\ Before(cursor) <= Total
        /\ pFrame \in [first : Nat \ {0}, nb_samples : Nat] /\ processed \in 0..pFrame.nb_samples
    BY <2>1, FrameTypes
  <2>3. /\ Len(out) + Left = Len(stale) + Before(cursor)
        /\ \A i \in 1..Len(out) : out[i] = Whole(i)
    BY DEF Inv, Delivered
  <2>4. Len(out) <= Len(stale) + Total
    <3>1. Left \in Nat
      BY <2>2 DEF Left
    <3>2. PICK b \in Nat : b = Before(cursor)
      BY <2>2
    <3>3. b <= Total /\ Len(out) + Left = Len(stale) + b
      BY <2>2, <2>3, <3>2
    <3> QED BY <2>2, <3>1, <3>3
  <2> DEFINE w == stale \o Stream
  <2>5. /\ w \in Seq(1..Total) /\ Len(w) = Len(stale) + Total
        /\ \A i \in 1..(Len(stale) + Total) : w[i] = Whole(i)
    BY <2>1, WholeFacts
  <2> HIDE DEF w
  <2>6. out = [i \in 1..Len(out) |-> out[i]]
    BY <2>1 DEF TypeOK
  <2>7. SubSeq(w, 1, Len(out)) = [i \in 1..Len(out) |-> w[i]]
    BY <2>2, <2>4, <2>5
  <2>8. \A i \in 1..Len(out) : out[i] = w[i]
    BY <2>2, <2>3, <2>4, <2>5, SMTT(30)
  <2>9. out = SubSeq(w, 1, Len(out))
    BY <2>6, <2>7, <2>8
  <2> QED BY <2>9 DEF w
<1> QED BY <1>1, InvHolds, PTL

\* Once _impl_atend answers yes everything has been read, and what _impl_read returned
\* behind the end is the last frame.
THEOREM EndCorrect == Spec => []EndExact
<1>1. Inv => EndExact
  <2> SUFFICES ASSUME Inv, ate, ~lost
               PROVE  /\ Len(out) >= Len(stale \o Stream)
                      /\ \A i \in 1..Len(out) :
                           IF i <= Len(stale \o Stream) THEN out[i] = (stale \o Stream)[i]
                           ELSE out[i] \in pFrame.first .. (pFrame.first + pFrame.nb_samples - 1)
    BY DEF EndExact
  <2>1. TypeOK
    BY DEF Inv
  <2>2. Total \in Nat /\ Len(out) \in Nat /\ Len(stale) \in Nat
    BY <2>1, FrameTypes
  <2>3. /\ Len(out) >= Len(stale) + Total
        /\ \A i \in 1..Len(out) : IF i <= Len(stale) + Total THEN out[i] = Whole(i) ELSE out[i] \in Last
    BY DEF Inv, Ended
  <2>4. /\ Len(stale \o Stream) = Len(stale) + Total
        /\ \A i \in 1..(Len(stale) + Total) : (stale \o Stream)[i] = Whole(i)
    BY <2>1, WholeFacts
  <2>5. ASSUME NEW i \in 1..Len(out)
        PROVE  IF i <= Len(stale) + Total THEN out[i] = (stale \o Stream)[i] ELSE out[i] \in Last
    <3>1. CASE i <= Len(stale) + Total
      <4>1. i \in 1..(Len(stale) + Total)
        BY <2>2, <3>1
      <4> QED BY <2>3, <2>4, <3>1, <4>1
    <3>2. CASE ~(i <= Len(stale) + Total)
      BY <2>3, <3>2
    <3> QED BY <3>1, <3>2
  <2>6. Last = pFrame.first .. (pFrame.first + pFrame.nb_samples - 1)
    BY DEF Last
  <2> QED BY <2>3, <2>4, <2>5, <2>6
<1> QED BY <1>1, InvHolds, PTL
=============================================================================
