----------------------------- MODULE S5PromProofs -----------------------------
(***************************************************************************)
(* The ADPCM sample keeps its types and ranges, restarts exactly and never *)
(* stalls, for every PROM, every pattern of reads and every failure.       *)
(***************************************************************************)
EXTENDS S5Prom, Counting

\* The limits of the decoder, as far as the proofs need them.
LEMMA Limits ==
  /\ MinSignal \in Int /\ MaxSignal \in Int /\ MinSignal <= 0 /\ 0 <= MaxSignal
  /\ MinStep \in Nat /\ MaxStep \in Nat /\ MinStep <= MaxStep
BY SMT DEF MinSignal, MaxSignal, MinStep, MaxStep

\* Clamping leaves a number within the limits.
LEMMA ClampRange ==
  ASSUME NEW x \in Int, NEW lo \in Int, NEW hi \in Int, lo <= hi
  PROVE  Clamp(x, lo, hi) \in lo..hi
BY DEF Clamp

\* The tables of the decoder.
LEMMA Tables ==
  ASSUME NEW data \in 0..15
  PROVE  /\ diff_lookup(data) \in Int
         /\ -15 <= diff_lookup(data) /\ diff_lookup(data) <= 15
         /\ index_scale(data) \in {230, 307, 409, 512, 614}
BY DEF diff_lookup, index_scale

\* One nibble keeps the amplitude within 16 bits and the step within its limits.
LEMMA DecoderRange ==
  ASSUME NEW sig \in Signals, NEW stp \in Steps, NEW data \in 0..15
  PROVE  /\ NextSignal(sig, stp, data) \in Signals
         /\ NextStep(stp, data) \in Steps
<1>1. sig \in Int /\ stp \in Nat
  BY Limits DEF Signals, Steps
<1>2. Quotient(stp * diff_lookup(data), 8) \in Int
  <2>1. stp * diff_lookup(data) \in Int
    BY <1>1, Tables
  <2> QED
    BY <2>1 DEF Quotient
<1>3. (stp * index_scale(data)) \div 256 \in Int
  <2>1. stp * index_scale(data) \in Int
    BY <1>1, Tables
  <2> QED
    BY <2>1
<1>4. NextSignal(sig, stp, data) \in Signals
  <2> DEFINE x == sig + Quotient(stp * diff_lookup(data), 8)
  <2>1. x \in Int
    BY <1>1, <1>2
  <2> HIDE DEF x
  <2>2. Clamp(x, MinSignal, MaxSignal) \in MinSignal..MaxSignal
    BY <2>1, Limits, ClampRange
  <2> QED
    BY <2>2 DEF NextSignal, Signals, x
<1>5. NextStep(stp, data) \in Steps
  <2> DEFINE x == (stp * index_scale(data)) \div 256
  <2> HIDE DEF x
  <2>1. x \in Int
    BY <1>3 DEF x
  <2>2. Clamp(x, MinStep, MaxStep) \in MinStep..MaxStep
    BY <2>1, Limits, ClampRange
  <2> QED
    BY <2>2 DEF NextStep, Steps, x
<1> QED
  BY <1>4, <1>5

\* The products _de_adpcm computes fit the 32 bits of an int.
LEMMA ProductsFit ==
  ASSUME NEW stp \in Steps, NEW data \in 0..15
  PROVE  /\ -2147483648 <= stp * diff_lookup(data) /\ stp * diff_lookup(data) <= 2147483647
         /\ 0 <= stp * index_scale(data) /\ stp * index_scale(data) <= 2147483647
<1>1. stp \in Int /\ 127 <= stp /\ stp <= 24576
  <2>1. stp \in Int /\ MinStep <= stp /\ stp <= MaxStep
    BY Limits DEF Steps
  <2> QED
    BY <2>1, SMT DEF MinStep, MaxStep
<1>2. -368640 <= stp * diff_lookup(data) /\ stp * diff_lookup(data) <= 368640
  BY <1>1, Tables, SMT
<1>3. 0 <= stp * index_scale(data) /\ stp * index_scale(data) <= 15089664
  BY <1>1, Tables, SMT
<1>4. stp * diff_lookup(data) \in Int /\ stp * index_scale(data) \in Int
  BY <1>1, Tables, SMT
<1> QED
  BY <1>2, <1>3, <1>4, SMT

\* VOLUME brings the amplitude nearer to zero.
LEMMA VolumeRange ==
  ASSUME NEW sig \in Signals
  PROVE  Volume(sig) \in Signals
<1>1. sig \in Int /\ MinSignal <= sig /\ sig <= MaxSignal
  BY Limits DEF Signals
<1>2. CASE sig >= 0
  BY <1>1, <1>2, Limits DEF Volume, Quotient, VOLUME, Signals
<1>3. CASE sig < 0
  <2>1. (-sig) \div 10 \in Nat /\ (-sig) \div 10 <= -sig
    BY <1>1, <1>3
  <2> QED
    BY <1>1, <1>3, <2>1, Limits DEF Volume, Quotient, VOLUME, Signals
<1> QED
  BY <1>1, <1>2, <1>3

\* A call returns whole bytes, all of those the packet has unless it was asked for
\* less, and none only if there is none or fewer than two samples were asked for.
LEMMA GrantedRange ==
  ASSUME NEW asked \in Nat, NEW left \in Nat, left % 2 = 0
  PROVE  /\ Granted(asked, left) \in Nat
         /\ Granted(asked, left) <= left
         /\ Granted(asked, left) % 2 = 0
         /\ asked >= 2 /\ left > 0 => Granted(asked, left) > 0
BY DEF Granted

\* What a packet has left is a whole number of bytes, too.
LEMMA LeftRange ==
  ASSUME NEW p \in Seq(Bytes), NEW done \in Nat, done % 2 = 0, done <= 2 * Len(p)
  PROVE  2 * Len(p) - done \in Nat /\ (2 * Len(p) - done) % 2 = 0
<1>1. Len(p) \in Nat
  OBVIOUS
<1>2. \A l \in Nat : done <= 2 * l => 2 * l - done \in Nat /\ (2 * l - done) % 2 = 0
  OBVIOUS
<1> QED
  BY <1>1, <1>2

\* A packet is a sequence of bytes; there is none only if the PROM fails or ends.
LEMMA PacketIsBytes ==
  ASSUME prom \in Proms, NEW c \in Nat \ {0}, NEW fails \in BOOLEAN
  PROVE  /\ PacketAt(c, fails) \in Seq(Bytes)
         /\ PacketAt(c, fails) # <<>> => c <= Len(prom) /\ PacketAt(c, fails) = prom[c]
         /\ PacketAt(c, fails) = <<>> => fails \/ c > Len(prom)
<1>1. prom \in Seq(Seq(Bytes) \ {<<>>})
  BY PromAssumptions
<1>2. c <= Len(prom) => prom[c] \in Seq(Bytes) \ {<<>>}
  BY <1>1
<1> QED
  BY <1>1, <1>2 DEF PacketAt

\* The high and the low nibble of a byte.
LEMMA NibbleRange ==
  ASSUME NEW data \in Bytes
  PROVE  data \div 16 \in 0..15 /\ data % 16 \in 0..15
<1>1. data \in Int /\ 0 <= data /\ data <= 255
  BY DEF Bytes
<1> QED
  BY <1>1

\* A packet without samples is no packet.
LEMMA EmptyPacket ==
  ASSUME NEW p \in Seq(Bytes), 2 * Len(p) = 0
  PROVE  p = <<>>
OBVIOUS

-----------------------------------------------------------------------------
(* The invariant: the types, and what the reset flag stands for.           *)

IInv == TypeOK /\ ResetInv /\ NoStall

\* The decoder at its start.
AtStart ==
  /\ out = <<>> /\ processed = 0 /\ signal = 0 /\ step = MinStep
  /\ \/ packet = <<>> /\ cursor = 1
     \/ prom # <<>> /\ packet = prom[1]

LEMMA InvInit == Init => IInv
<1> SUFFICES ASSUME Init PROVE IInv
  OBVIOUS
<1>1. signal \in Signals /\ step \in Steps
  BY Limits DEF Init, Signals, Steps
<1>2. packet \in Seq(Bytes) /\ out \in Seq(Signals) /\ Len(packet) = 0
  BY DEF Init
<1>3. call \in [op : {"none", "read", "reset"}, asked : Nat, got : Nat]
  BY DEF Init
<1>4. todo % 2 = 0 /\ processed % 2 = 0 /\ processed + todo <= nbsamples
  BY <1>2 DEF Init, nbsamples
<1>5. /\ prom \in Proms /\ cursor \in Nat \ {0} /\ processed \in Nat /\ todo \in Nat
      /\ is_reset \in BOOLEAN /\ ate \in BOOLEAN /\ failed \in BOOLEAN
  <2>1. prom \in Proms /\ cursor \in Nat \ {0} /\ processed \in Nat /\ todo \in Nat
    BY DEF Init
  <2>2. is_reset \in BOOLEAN /\ ate \in BOOLEAN /\ failed \in BOOLEAN
    BY Zenon DEF Init
  <2> QED
    BY <2>1, <2>2
<1>6. TypeOK
  BY <1>1, <1>2, <1>3, <1>4, <1>5 DEF TypeOK
<1> QED
  BY <1>6 DEF IInv, ResetInv, NoStall, Init

\* A rewind leaves the decoder at its start, with the first packet unless the PROM
\* failed or is empty.
LEMMA AfterRewind ==
  ASSUME prom \in Proms, Rewind, prom' = prom
  PROVE  /\ AtStart' /\ packet' \in Seq(Bytes) /\ cursor' \in {1, 2}
         /\ is_reset' = TRUE /\ ate' = FALSE /\ failed' \in BOOLEAN
<1>1. PICK fails \in Failures :
        /\ packet' = PacketAt(1, fails) /\ processed' = 0
        /\ signal' = 0 /\ step' = MinStep
        /\ cursor' = IF packet' = <<>> THEN 1 ELSE 2
        /\ is_reset' = TRUE /\ ate' = FALSE /\ out' = <<>> /\ failed' = fails
  BY DEF Rewind
<1>2. fails \in BOOLEAN
  BY PromAssumptions
<1>3. /\ packet' \in Seq(Bytes)
      /\ packet' # <<>> => 1 <= Len(prom) /\ packet' = prom[1]
  BY <1>1, <1>2, PacketIsBytes
<1>4. packet' # <<>> => prom' # <<>> /\ packet' = prom'[1]
  BY <1>3
<1> QED
  BY <1>1, <1>2, <1>3, <1>4 DEF AtStart

\* A rewind, however it is reached, re-establishes the invariant.
LEMMA RewindInv ==
  ASSUME prom \in Proms, Rewind, prom' = prom, todo' = 0,
         call' = [op |-> "reset", asked |-> 0, got |-> 0]
  PROVE  IInv'
<1>1. /\ AtStart' /\ packet' \in Seq(Bytes) /\ cursor' \in {1, 2}
      /\ is_reset' = TRUE /\ ate' = FALSE /\ failed' \in BOOLEAN
  BY AfterRewind
<1>2. signal' \in Signals /\ step' \in Steps /\ out' \in Seq(Signals)
  BY <1>1, Limits DEF AtStart, Signals, Steps
<1>3. call' \in [op : {"none", "read", "reset"}, asked : Nat, got : Nat]
  OBVIOUS
<1>4. processed' = 0 /\ todo' % 2 = 0 /\ processed' % 2 = 0 /\ processed' + todo' <= nbsamples'
  BY <1>1 DEF AtStart, nbsamples
<1>5. /\ prom' \in Proms /\ cursor' \in Nat \ {0} /\ processed' \in Nat /\ todo' \in Nat
      /\ is_reset' \in BOOLEAN /\ ate' \in BOOLEAN
  <2>1. is_reset' \in BOOLEAN /\ ate' \in BOOLEAN
    BY <1>1, Zenon
  <2> QED
    BY <1>1, <1>4, <2>1
<1>6. TypeOK'
  BY <1>1, <1>2, <1>3, <1>4, <1>5 DEF TypeOK
<1>7. ResetInv'
  BY <1>1 DEF ResetInv, AtStart
<1> QED
  BY <1>6, <1>7 DEF IInv, NoStall

\* The packet a call decodes from, fetched or kept: it is used up only at the end.
LEMMA AfterFetch ==
  ASSUME TypeOK, prom' = prom, Between,
         \/ \E fails \in Failures : Fetch(fails)
         \/ processed < nbsamples /\ UNCHANGED <<reader, ate, failed>>
  PROVE  /\ cursor' \in Nat \ {0} /\ packet' \in Seq(Bytes)
         /\ processed' \in Nat /\ processed' % 2 = 0 /\ processed' <= 2 * Len(packet')
         /\ ate' \in BOOLEAN /\ failed' \in BOOLEAN
         /\ processed' = 2 * Len(packet') => ate'
<1>1. CASE processed < nbsamples /\ UNCHANGED <<reader, ate, failed>>
  <2>1. packet' = packet /\ processed' = processed /\ cursor' = cursor
    BY <1>1 DEF reader
  <2> QED
    BY <1>1, <2>1 DEF TypeOK, nbsamples
<1>2. ASSUME NEW fails \in Failures, Fetch(fails)
      PROVE  /\ cursor' \in Nat \ {0} /\ packet' \in Seq(Bytes) /\ processed' = 0
             /\ ate' \in BOOLEAN /\ failed' \in BOOLEAN
             /\ packet' = <<>> => ate'
  <2>1. fails \in BOOLEAN
    BY PromAssumptions
  <2>2. packet' \in Seq(Bytes)
    BY <1>2, <2>1, PacketIsBytes DEF Fetch, TypeOK
  <2>3. cursor' \in Nat \ {0}
    BY <1>2 DEF Fetch, TypeOK
  <2>4. ate' \in BOOLEAN /\ failed' \in BOOLEAN /\ (packet' = <<>> => ate')
    BY <1>2, <2>1, Zenon DEF Fetch, TypeOK
  <2>5. processed' = 0
    BY <1>2 DEF Fetch
  <2> QED
    BY <2>2, <2>3, <2>4, <2>5
<1>3. CASE \E fails \in Failures : Fetch(fails)
  <2>1. /\ cursor' \in Nat \ {0} /\ packet' \in Seq(Bytes) /\ processed' = 0
        /\ ate' \in BOOLEAN /\ failed' \in BOOLEAN
        /\ packet' = <<>> => ate'
    BY <1>2, <1>3
  <2>2. processed' = 2 * Len(packet') => ate'
    BY <2>1, EmptyPacket
  <2> QED
    BY <2>1, <2>2
<1> QED
  BY <1>1, <1>3

\* What a call that returned nothing leaves of a decoder at its start.
LEMMA FetchAtStart ==
  ASSUME IInv, is_reset, prom' = prom, Between,
         \/ \E fails \in Failures : Fetch(fails)
         \/ processed < nbsamples /\ UNCHANGED <<reader, ate, failed>>
  PROVE  /\ processed' = 0
         /\ \/ packet' = <<>> /\ cursor' = 1
            \/ prom' # <<>> /\ packet' = prom'[1]
         /\ ate' => failed' \/ prom' = <<>>
<1>1. /\ processed = 0
      /\ \/ packet = <<>> /\ cursor = 1
         \/ prom # <<>> /\ packet = prom[1]
      /\ ate => failed \/ prom = <<>>
  BY DEF IInv, ResetInv
<1>2. CASE processed < nbsamples /\ UNCHANGED <<reader, ate, failed>>
  BY <1>1, <1>2 DEF reader
<1>3. ASSUME NEW fails \in Failures, Fetch(fails)
      PROVE  /\ processed' = 0
             /\ \/ packet' = <<>> /\ cursor' = 1
                \/ prom' # <<>> /\ packet' = prom'[1]
             /\ ate' => failed' \/ prom' = <<>>
  <2>1. prom \in Proms /\ prom \in Seq(Seq(Bytes) \ {<<>>}) /\ fails \in BOOLEAN
    BY PromAssumptions DEF IInv, TypeOK
  <2>2. packet = <<>> /\ cursor = 1
    <3>1. CASE prom # <<>> /\ packet = prom[1]
      <4>1. packet \in Seq(Bytes) /\ packet # <<>>
        BY <2>1, <3>1
      <4>2. nbsamples \in Nat /\ nbsamples > 0
        BY <4>1 DEF nbsamples
      <4> QED
        BY <1>1, <1>3, <4>2 DEF Fetch
    <3> QED
      BY <1>1, <3>1
  <2>3. packet' = PacketAt(1, fails) /\ processed' = 0
    BY <1>3, <2>2 DEF Fetch
  <2>4. packet' # <<>> => 1 <= Len(prom) /\ packet' = prom[1]
    BY <2>1, <2>3, PacketIsBytes
  <2>5. packet' # <<>> => prom' # <<>> /\ packet' = prom'[1]
    BY <2>4
  <2>6. packet' = <<>> => fails \/ prom' = <<>>
    <3>1. packet' = <<>> => fails \/ 1 > Len(prom)
      BY <2>1, <2>3, PacketIsBytes
    <3> QED
      BY <2>1, <3>1
  <2>7. packet' = <<>> => cursor' = 1
    BY <1>3, <2>2 DEF Fetch
  <2>8. ate' => failed' \/ prom' = <<>>
    BY <1>1, <1>3, <2>6, Zenon DEF Fetch
  <2> QED
    BY <2>3, <2>5, <2>7, <2>8
<1> QED
  BY <1>2, <1>3

LEMMA InvBegin ==
  ASSUME IInv, NEW n \in Asks, Begin(n)
  PROVE  IInv'
<1> DEFINE left == 2 * Len(packet') - processed'
<1>1. /\ prom' = prom /\ signal' = signal /\ step' = step /\ out' = out /\ Between
      /\ todo' = Granted(n, left)
      /\ call' = [op |-> "read", asked |-> n, got |-> todo']
      /\ is_reset' = (is_reset /\ todo' = 0)
  BY DEF Begin
<1>2. /\ cursor' \in Nat \ {0} /\ packet' \in Seq(Bytes)
      /\ processed' \in Nat /\ processed' % 2 = 0 /\ processed' <= 2 * Len(packet')
      /\ ate' \in BOOLEAN /\ failed' \in BOOLEAN
      /\ processed' = 2 * Len(packet') => ate'
  BY <1>1, AfterFetch DEF Begin, IInv
<1>3. left \in Nat /\ left % 2 = 0
  BY <1>2, LeftRange
<1>4. n \in Nat
  BY PromAssumptions
<1>5. /\ todo' \in Nat /\ todo' <= left /\ todo' % 2 = 0
      /\ n >= 2 /\ left > 0 => todo' > 0
  BY <1>1, <1>3, <1>4, GrantedRange
<1>6. TypeOK'
  <2>1. call' \in [op : {"none", "read", "reset"}, asked : Nat, got : Nat]
    BY <1>1, <1>4, <1>5
  <2>2. is_reset' \in BOOLEAN
    BY <1>1
  <2>3. processed' + todo' <= nbsamples'
    BY <1>2, <1>5 DEF nbsamples
  <2>4. /\ prom' \in Proms /\ signal' \in Signals /\ step' \in Steps
        /\ out' \in Seq(Signals)
    BY <1>1 DEF IInv, TypeOK
  <2> QED
    BY <1>2, <1>5, <2>1, <2>2, <2>3, <2>4 DEF TypeOK
<1>7. ResetInv'
  <2>1. call'.op = "read"
    BY <1>1
  <2>2. is_reset' => is_reset /\ todo' = 0
    BY <1>1
  <2>3. is_reset => out' = <<>> /\ signal' = 0 /\ step' = MinStep
    BY <1>1 DEF IInv, ResetInv
  <2>4. is_reset => /\ processed' = 0
                    /\ \/ packet' = <<>> /\ cursor' = 1
                       \/ prom' # <<>> /\ packet' = prom'[1]
                    /\ ate' => failed' \/ prom' = <<>>
    BY <1>1, FetchAtStart DEF Begin
  <2> QED
    BY <2>1, <2>2, <2>3, <2>4 DEF ResetInv
<1>8. NoStall'
  <2>1. n >= 2 /\ todo' = 0 => ate'
    BY <1>2, <1>3, <1>4, <1>5
  <2> QED
    BY <1>1, <2>1 DEF NoStall
<1> QED
  BY <1>6, <1>7, <1>8 DEF IInv

LEMMA InvByte ==
  ASSUME IInv, Byte
  PROVE  IInv'
<1> DEFINE data  == packet[processed \div 2 + 1]
           upper == data \div 16
           lower == data % 16
           mid   == NextSignal(signal, step, upper)
           half  == NextStep(step, upper)
<1>1. /\ packet' = packet /\ prom' = prom /\ cursor' = cursor /\ is_reset' = is_reset
      /\ ate' = ate /\ call' = call /\ failed' = failed
      /\ processed' = processed + 2 /\ todo' = todo - 2 /\ todo > 0
  BY DEF Byte
<1>2. data \in Bytes
  <2>1. processed \div 2 + 1 \in 1..Len(packet)
    BY <1>1 DEF IInv, TypeOK, nbsamples
  <2> QED
    BY <2>1 DEF IInv, TypeOK
<1>3. upper \in 0..15 /\ lower \in 0..15
  BY <1>2, NibbleRange
<1>4. mid \in Signals /\ half \in Steps
  BY <1>3, DecoderRange DEF IInv, TypeOK
<1>5. /\ signal' = NextSignal(mid, half, lower) /\ step' = NextStep(half, lower)
      /\ out' = out \o <<Volume(mid), Volume(signal')>>
  BY DEF Byte
<1>6. signal' \in Signals /\ step' \in Steps
  BY <1>3, <1>4, <1>5, DecoderRange
<1>7. out' \in Seq(Signals)
  <2>1. Volume(mid) \in Signals /\ Volume(signal') \in Signals
    BY <1>4, <1>6, VolumeRange
  <2> QED
    BY <1>5, <2>1 DEF IInv, TypeOK
<1>8. /\ processed' \in Nat /\ processed' % 2 = 0 /\ todo' \in Nat /\ todo' % 2 = 0
      /\ processed' + todo' <= nbsamples'
  BY <1>1 DEF IInv, TypeOK, nbsamples
<1>9. TypeOK'
  BY <1>1, <1>6, <1>7, <1>8 DEF IInv, TypeOK
<1>10. ResetInv'
  <2>1. ~is_reset /\ call.op = "read"
    BY <1>1 DEF IInv, TypeOK, ResetInv
  <2> QED
    BY <1>1, <2>1 DEF ResetInv
<1> QED
  BY <1>1, <1>9, <1>10 DEF IInv, NoStall

LEMMA InvNext == IInv /\ [Next]_vars => IInv'
<1> SUFFICES ASSUME IInv, [Next]_vars
             PROVE  IInv'
  OBVIOUS
<1>1. CASE UNCHANGED vars
  BY <1>1 DEF IInv, TypeOK, ResetInv, NoStall, vars, reader, nbsamples
<1>2. CASE Open
  <2>1. Rewind /\ prom' = prom /\ todo' = 0 /\ call' = [op |-> "reset", asked |-> 0, got |-> 0]
    BY <1>2 DEF Open, IInv, ResetInv
  <2> QED
    BY <2>1, RewindInv DEF IInv, TypeOK
<1>3. CASE Reset
  <2>1. /\ prom' = prom /\ todo' = 0 /\ todo' = todo
        /\ call' = [op |-> "reset", asked |-> 0, got |-> 0]
    BY <1>3 DEF Reset, Between
  <2>2. CASE is_reset
    <3>1. /\ cursor' = cursor /\ packet' = packet /\ processed' = processed
          /\ signal' = signal /\ step' = step /\ is_reset' = is_reset /\ ate' = ate
          /\ out' = out /\ failed' = failed
      BY <1>3, <2>2 DEF Reset, reader
    <3>2. TypeOK'
      BY <2>1, <3>1 DEF IInv, TypeOK, nbsamples
    <3>3. ResetInv'
      BY <2>1, <2>2, <3>1 DEF IInv, ResetInv
    <3> QED
      BY <2>1, <3>2, <3>3 DEF IInv, NoStall
  <2>3. CASE ~is_reset
    <3>1. Rewind
      BY <1>3, <2>3 DEF Reset
    <3> QED
      BY <2>1, <3>1, RewindInv DEF IInv, TypeOK
  <2> QED
    BY <2>2, <2>3
<1>4. CASE \E n \in Asks : Begin(n)
  BY <1>4, InvBegin
<1>5. CASE Byte
  BY <1>5, InvByte
<1> QED
  BY <1>1, <1>2, <1>3, <1>4, <1>5 DEF Next

LEMMA InvAlways == Spec => []IInv
BY InvInit, InvNext, PTL DEF Spec

-----------------------------------------------------------------------------
(* The reference.  Its recursive functions exist, and have their types.    *)

NibblesOf(bytes) ==
  [i \in 1 .. 2 * Len(bytes) |->
     LET b == bytes[(i + 1) \div 2] IN IF i % 2 = 1 THEN b \div 16 ELSE b % 16]

NibblesUpTo(p) ==
  LET upTo[k \in 0..Len(p)] == IF k = 0 THEN <<>> ELSE upTo[k - 1] \o NibblesOf(p[k]) IN upTo

LengthUpTo(p) ==
  LET upTo[k \in 0..Len(p)] == IF k = 0 THEN 0 ELSE upTo[k - 1] + 2 * Len(p[k]) IN upTo

StepsOf(p) ==
  LET data == Nibbles(p)
      steps[k \in 0..Len(data)] ==
        IF k = 0 THEN MinStep ELSE NextStep(steps[k - 1], data[k])
  IN  steps

SignalsOf(p) ==
  LET data == Nibbles(p)
      steps[k \in 0..Len(data)] ==
        IF k = 0 THEN MinStep ELSE NextStep(steps[k - 1], data[k])
      signals[k \in 0..Len(data)] ==
        IF k = 0 THEN 0 ELSE NextSignal(signals[k - 1], steps[k - 1], data[k])
  IN  signals

LEMMA ReferenceParts ==
  ASSUME NEW p
  PROVE  /\ Nibbles(p) = NibblesUpTo(p)[Len(p)]
         /\ Length(p) = LengthUpTo(p)[Len(p)]
         /\ Decoded(p) = [k \in DOMAIN Nibbles(p) |-> Volume(SignalsOf(p)[k])]
<1>1. Nibbles(p) = NibblesUpTo(p)[Len(p)]
  BY DEF Nibbles, NibblesUpTo, NibblesOf
<1>2. Length(p) = LengthUpTo(p)[Len(p)]
  BY DEF Length, LengthUpTo
<1>3. Decoded(p) = [k \in DOMAIN Nibbles(p) |-> Volume(SignalsOf(p)[k])]
  BY DEF Decoded, SignalsOf
<1> QED BY <1>1, <1>2, <1>3

\* The nibbles of a packet.
LEMMA NibblesOfFacts ==
  ASSUME NEW bytes \in Seq(Bytes)
  PROVE  NibblesOf(bytes) \in Seq(0..15) /\ Len(NibblesOf(bytes)) = 2 * Len(bytes)
<1>1. Len(bytes) \in Nat
  OBVIOUS
<1>2. ASSUME NEW i \in 1 .. 2 * Len(bytes) PROVE NibblesOf(bytes)[i] \in 0..15
  <2>1. (i + 1) \div 2 \in 1..Len(bytes)
    BY <1>1
  <2>2. bytes[(i + 1) \div 2] \in Bytes
    BY <2>1
  <2>3. bytes[(i + 1) \div 2] \div 16 \in 0..15 /\ bytes[(i + 1) \div 2] % 16 \in 0..15
    BY <2>2, NibbleRange
  <2> QED BY <2>3 DEF NibblesOf
<1>3. NibblesOf(bytes) = [i \in 1 .. 2 * Len(bytes) |-> NibblesOf(bytes)[i]] /\ 2 * Len(bytes) \in Nat
  BY <1>1 DEF NibblesOf
<1> HIDE DEF NibblesOf
<1> QED BY <1>2, <1>3

LEMMA NibblesUpToFacts ==
  ASSUME NEW p \in Seq(Seq(Bytes))
  PROVE  /\ NibblesUpTo(p)[0] = <<>> /\ \A k \in 0..Len(p) : NibblesUpTo(p)[k] \in Seq(0..15)
         /\ \A k \in 1..Len(p) : NibblesUpTo(p)[k] = NibblesUpTo(p)[k - 1] \o NibblesOf(p[k])
<1> DEFINE n == Len(p)
           V == Seq(0..15)
           Is(f) == f = [k \in 0..n |-> IF k = 0 THEN <<>> ELSE f[k - 1] \o NibblesOf(p[k])]
           u == NibblesUpTo(p)
<1>1. n \in Nat /\ \A k \in 1..n : p[k] \in Seq(Bytes)
  OBVIOUS
<1>2. \A k \in 1..n : NibblesOf(p[k]) \in V
  BY <1>1, NibblesOfFacts
<1>0. <<>> \in V /\ \A s, t \in V : s \o t \in V
  OBVIOUS
<1> HIDE DEF V
<1>3. \E f : Is(f)
  <2> DEFINE F == [x \in V \X (1..n) |-> x[1] \o NibblesOf(p[x[2]])]
  <2>1. F \in [V \X (1..n) -> V]
    BY <1>0, <1>2
  <2>2. PICK e \in V : e = <<>>
    BY <1>0
  <2>2a. n \in Nat
    BY <1>1
  <2>2b. IsStep(F, V, n)
    BY <2>1 DEF IsStep
  <2>2c. PICK f : AreSteps(f, V, e, n, F)
    <3> HIDE DEF F, n
    <3> QED BY <2>2, <2>2a, <2>2b, StepsExist
  <2>3. f \in [0..n -> V] /\ f[0] = <<>> /\ \A k \in 1..n : f[k] = F[<<f[k - 1], k>>]
    BY <2>2, <2>2c DEF AreSteps
  <2>4. ASSUME NEW k \in 0..n PROVE f[k] = IF k = 0 THEN <<>> ELSE f[k - 1] \o NibblesOf(p[k])
    <3>1. CASE k = 0
      BY <2>3, <3>1
    <3>2. CASE k # 0
      <4>1. k \in 1..n /\ k - 1 \in 0..n
        BY <1>1, <3>2
      <4>2. f[k - 1] \in V /\ f[k] = F[<<f[k - 1], k>>]
        BY <2>3, <4>1
      <4>3. F[<<f[k - 1], k>>] = f[k - 1] \o NibblesOf(p[k])
        BY <4>1, <4>2
      <4> QED BY <3>2, <4>2, <4>3
    <3> QED BY <3>1, <3>2
  <2>5. Is(f)
    BY <2>3, <2>4
  <2> QED BY <2>5
<1>4. Is(u)
  <2>1. u = CHOOSE f : Is(f)
    BY DEF NibblesUpTo
  <2> HIDE DEF Is, u
  <2> QED BY <1>3, <2>1
<1> HIDE DEF u
<1>5. u[0] = <<>>
  BY <1>1, <1>4
<1>6. ASSUME NEW k \in 1..n PROVE u[k] = u[k - 1] \o NibblesOf(p[k])
  <2>1. k \in 0..n /\ k # 0
    BY <1>1
  <2>2. u[k] = IF k = 0 THEN <<>> ELSE u[k - 1] \o NibblesOf(p[k])
    BY <1>4, <2>1
  <2> QED BY <2>1, <2>2
<1>7. \A k \in 0..n : u[k] \in V
  <2> DEFINE T == {k \in 0..n : u[k] \in V}
  <2>1. 0 \in T
    BY <1>0, <1>1, <1>5
  <2>2. ASSUME NEW k \in 1..n, k - 1 \in T PROVE k \in T
    <3>1. u[k - 1] \in V /\ NibblesOf(p[k]) \in V /\ k \in 0..n
      BY <1>1, <1>2, <2>2
    <3>2. u[k] = u[k - 1] \o NibblesOf(p[k])
      BY <1>6
    <3> QED BY <1>0, <3>1, <3>2
  <2>3. \A k \in 0..n : k \in T
    <3> HIDE DEF T, n
    <3> QED BY <1>1, <2>1, <2>2, UpToInduction
  <2> QED BY <2>3
<1> QED BY <1>5, <1>6, <1>7 DEF u, V

LEMMA LengthUpToFacts ==
  ASSUME NEW p \in Seq(Seq(Bytes))
  PROVE  /\ LengthUpTo(p)[0] = 0 /\ \A k \in 0..Len(p) : LengthUpTo(p)[k] \in Nat
         /\ \A k \in 1..Len(p) : LengthUpTo(p)[k] = LengthUpTo(p)[k - 1] + 2 * Len(p[k])
<1> DEFINE n == Len(p)
           Is(f) == f = [k \in 0..n |-> IF k = 0 THEN 0 ELSE f[k - 1] + 2 * Len(p[k])]
           u == LengthUpTo(p)
           v == [k \in 1..n |-> 2 * Len(p[k])]
<1>1. n \in Nat /\ \A k \in 1..n : p[k] \in Seq(Bytes)
  OBVIOUS
<1>2. \A k \in 1..n : v[k] \in Nat /\ v[k] = 2 * Len(p[k])
  <2> SUFFICES ASSUME NEW k \in 1..n PROVE 2 * Len(p[k]) \in Nat
    OBVIOUS
  <2>1. Len(p[k]) \in Nat
    BY <1>1
  <2> QED BY <2>1
<1> HIDE DEF v
<1>3. \E f : Is(f)
  <2>1. PICK g : IsSum(v, n, g)
    BY <1>1, <1>2, SumExists
  <2>2. ASSUME NEW k \in 0..n PROVE g[k] = IF k = 0 THEN 0 ELSE g[k - 1] + 2 * Len(p[k])
    <3>1. CASE k = 0
      BY <2>1, <3>1 DEF IsSum
    <3>2. CASE k # 0
      <4>1. k \in 1..n
        BY <1>1, <3>2
      <4>2. g[k] = g[k - 1] + v[k]
        BY <2>1, <4>1 DEF IsSum
      <4> QED BY <1>2, <3>2, <4>1, <4>2
    <3> QED BY <3>1, <3>2
  <2>3. Is(g)
    BY <2>1, <2>2 DEF IsSum
  <2> QED BY <2>3
<1>4. Is(u)
  <2>1. u = CHOOSE f : Is(f)
    BY DEF LengthUpTo
  <2> HIDE DEF Is, u
  <2> QED BY <1>3, <2>1
<1> HIDE DEF u
<1>5. u[0] = 0
  BY <1>1, <1>4
<1>6. ASSUME NEW k \in 1..n PROVE u[k] = u[k - 1] + 2 * Len(p[k])
  <2>1. k \in 0..n /\ k # 0
    BY <1>1
  <2>2. u[k] = IF k = 0 THEN 0 ELSE u[k - 1] + 2 * Len(p[k])
    BY <1>4, <2>1
  <2> QED BY <2>1, <2>2
<1>7. \A k \in 0..n : u[k] \in Nat
  <2> DEFINE T == {k \in 0..n : u[k] \in Nat}
  <2>1. 0 \in T
    BY <1>1, <1>5
  <2>2. ASSUME NEW k \in 1..n, k - 1 \in T PROVE k \in T
    <3>1. u[k - 1] \in Nat /\ 2 * Len(p[k]) \in Nat /\ k \in 0..n
      BY <1>1, <1>2, <2>2
    <3>2. u[k] = u[k - 1] + 2 * Len(p[k])
      BY <1>6
    <3> QED BY <3>1, <3>2
  <2>3. \A k \in 0..n : k \in T
    <3> HIDE DEF T, n
    <3> QED BY <1>1, <2>1, <2>2, UpToInduction
  <2> QED BY <2>3
<1> QED BY <1>5, <1>6, <1>7 DEF u

\* The packets lie one after the other in the stream of nibbles.
LEMMA Layout ==
  ASSUME NEW p \in Seq(Seq(Bytes))
  PROVE  /\ Nibbles(p) \in Seq(0..15) /\ Len(Nibbles(p)) = Length(p) /\ Length(p) \in Nat
         /\ \A k \in 1..Len(p) : LengthUpTo(p)[k] <= Length(p)
         /\ \A k \in 1..Len(p) : \A i \in 1 .. 2 * Len(p[k]) :
              Nibbles(p)[LengthUpTo(p)[k - 1] + i] = NibblesOf(p[k])[i]
<1> DEFINE n == Len(p)
           u == NibblesUpTo(p)
           l == LengthUpTo(p)
<1>1. n \in Nat /\ \A k \in 1..n : p[k] \in Seq(Bytes)
  OBVIOUS
<1>2. /\ u[0] = <<>> /\ \A k \in 0..n : u[k] \in Seq(0..15)
      /\ \A k \in 1..n : u[k] = u[k - 1] \o NibblesOf(p[k])
  BY NibblesUpToFacts
<1>3. /\ l[0] = 0 /\ \A k \in 0..n : l[k] \in Nat
      /\ \A k \in 1..n : l[k] = l[k - 1] + 2 * Len(p[k])
  BY LengthUpToFacts
<1>4. Nibbles(p) = u[n] /\ Length(p) = l[n]
  BY ReferenceParts
<1> HIDE DEF u, l, n
<1>5. ASSUME NEW k \in 1..n
      PROVE  /\ k - 1 \in 0..n /\ k \in 0..n
             /\ u[k - 1] \in Seq(0..15) /\ NibblesOf(p[k]) \in Seq(0..15)
             /\ Len(NibblesOf(p[k])) = 2 * Len(p[k]) /\ Len(p[k]) \in Nat
             /\ Len(u[k]) = Len(u[k - 1]) + 2 * Len(p[k])
             /\ \A i \in 1..Len(u[k - 1]) : u[k][i] = u[k - 1][i]
             /\ \A i \in 1 .. 2 * Len(p[k]) : u[k][Len(u[k - 1]) + i] = NibblesOf(p[k])[i]
  <2>1. k - 1 \in 0..n /\ k \in 0..n
    BY <1>1
  <2>2. NibblesOf(p[k]) \in Seq(0..15) /\ Len(NibblesOf(p[k])) = 2 * Len(p[k]) /\ Len(p[k]) \in Nat
    BY <1>1, NibblesOfFacts
  <2>3. u[k - 1] \in Seq(0..15) /\ u[k] = u[k - 1] \o NibblesOf(p[k])
    BY <1>2, <2>1
  <2>4. /\ Len(u[k]) = Len(u[k - 1]) + Len(NibblesOf(p[k]))
        /\ \A i \in 1..Len(u[k - 1]) : u[k][i] = u[k - 1][i]
        /\ \A i \in 1..Len(NibblesOf(p[k])) : u[k][Len(u[k - 1]) + i] = NibblesOf(p[k])[i]
    <3>1. PICK s \in Seq(0..15), r \in Seq(0..15) : s = u[k - 1] /\ r = NibblesOf(p[k])
      BY <2>2, <2>3
    <3>2. u[k] = s \o r
      BY <2>3, <3>1
    <3>3. /\ Len(s \o r) = Len(s) + Len(r)
          /\ \A i \in 1..Len(s) : (s \o r)[i] = s[i]
          /\ \A i \in 1..Len(r) : (s \o r)[Len(s) + i] = r[i]
      OBVIOUS
    <3> QED BY <3>1, <3>2, <3>3
  <2> QED BY <2>1, <2>2, <2>3, <2>4
<1>6. \A k \in 0..n : Len(u[k]) = l[k]
  <2> DEFINE T == {k \in 0..n : Len(u[k]) = l[k]}
  <2>1. 0 \in T
    BY <1>1, <1>2, <1>3
  <2>2. ASSUME NEW k \in 1..n, k - 1 \in T PROVE k \in T
    <3>1. k \in 0..n /\ Len(u[k - 1]) = l[k - 1] /\ Len(u[k]) = Len(u[k - 1]) + 2 * Len(p[k])
      BY <1>5, <2>2
    <3>2. l[k] = l[k - 1] + 2 * Len(p[k])
      BY <1>3
    <3> QED BY <3>1, <3>2
  <2>3. \A k \in 0..n : k \in T
    <3> HIDE DEF T
    <3> QED BY <1>1, <2>1, <2>2, UpToInduction
  <2> QED BY <2>3
<1>7. ASSUME NEW k \in 1..n
      PROVE  /\ l[k] <= l[n]
             /\ \A i \in 1 .. 2 * Len(p[k]) : u[n][l[k - 1] + i] = NibblesOf(p[k])[i]
  <2> DEFINE T == {m \in 0..n : m >= k =>
                     /\ l[k] <= l[m]
                     /\ \A i \in 1 .. 2 * Len(p[k]) : u[m][l[k - 1] + i] = NibblesOf(p[k])[i]}
  <2>1. 0 \in T
    BY <1>1
  <2>2. ASSUME NEW m \in 1..n, m - 1 \in T PROVE m \in T
    <3>1. m \in 0..n /\ m - 1 \in 0..n /\ k \in 0..n /\ k - 1 \in 0..n /\ m \in Nat /\ k \in Nat
      BY <1>1
    <3>2. Len(u[m - 1]) = l[m - 1] /\ Len(u[k - 1]) = l[k - 1]
      BY <1>6, <3>1
    <3>3. l[k - 1] \in Nat /\ l[m - 1] \in Nat /\ l[k] \in Nat /\ l[m] \in Nat /\ Len(p[m]) \in Nat /\ Len(p[k]) \in Nat
      BY <1>3, <1>5, <3>1
    <3>4. CASE m < k
      BY <3>1, <3>4
    <3>5. CASE m = k
      <4>1. \A i \in 1 .. 2 * Len(p[k]) : u[k][l[k - 1] + i] = NibblesOf(p[k])[i]
        BY <1>5, <3>2
      <4> QED BY <3>1, <3>3, <3>5, <4>1
    <3>6. CASE m > k
      <4>1. m - 1 >= k
        BY <3>1, <3>6
      <4>2. /\ l[k] <= l[m - 1]
            /\ \A i \in 1 .. 2 * Len(p[k]) : u[m - 1][l[k - 1] + i] = NibblesOf(p[k])[i]
        BY <2>2, <4>1
      <4>3. l[m] = l[m - 1] + 2 * Len(p[m]) /\ l[k] = l[k - 1] + 2 * Len(p[k])
        BY <1>3
      <4>4. l[k] <= l[m]
        BY <3>3, <4>2, <4>3, SMTT(30)
      <4>5. ASSUME NEW i \in 1 .. 2 * Len(p[k]) PROVE u[m][l[k - 1] + i] = NibblesOf(p[k])[i]
        <5>1. l[k - 1] + i \in 1..Len(u[m - 1])
          <6>1. i \in Nat /\ i >= 1 /\ i <= 2 * Len(p[k])
            BY <3>3
          <6>2. 1 <= l[k - 1] + i /\ l[k - 1] + i <= l[m - 1] /\ l[k - 1] + i \in Nat
            <7>1. l[k - 1] + 2 * Len(p[k]) <= l[m - 1]
              BY <4>2, <4>3
            <7>2. PICK a \in Nat, b \in Nat, c \in Nat :
                    a = l[k - 1] /\ b = l[m - 1] /\ c = 2 * Len(p[k])
              BY <3>3, SMTT(30)
            <7>3. a + c <= b /\ i <= c
              BY <6>1, <7>1, <7>2
            <7>4. 1 <= a + i /\ a + i <= b /\ a + i \in Nat
              BY <6>1, <7>3
            <7> QED BY <7>2, <7>4
          <6> QED BY <3>2, <3>3, <6>2
        <5>2. u[m][l[k - 1] + i] = u[m - 1][l[k - 1] + i]
          BY <1>5, <5>1
        <5> QED BY <4>2, <5>2
      <4> QED BY <3>1, <4>4, <4>5
    <3> QED BY <3>1, <3>4, <3>5, <3>6
  <2>3. n \in T
    <3>1. n \in 0..n
      BY <1>1
    <3> HIDE DEF T
    <3> QED BY <1>1, <2>1, <2>2, <3>1, UpToInduction
  <2>4. n >= k
    BY <1>1
  <2> QED BY <2>3, <2>4
<1>8. n \in 0..n
  BY <1>1
<1>9. Nibbles(p) \in Seq(0..15) /\ Len(Nibbles(p)) = Length(p) /\ Length(p) \in Nat
  BY <1>2, <1>3, <1>4, <1>6, <1>8
<1> QED BY <1>4, <1>7, <1>9 DEF u, l, n

\* The state of the decoder after so many nibbles.
LEMMA StepsOfFacts ==
  ASSUME NEW p \in Seq(Seq(Bytes))
  PROVE  /\ StepsOf(p)[0] = MinStep /\ \A k \in 0..Length(p) : StepsOf(p)[k] \in Steps
         /\ \A k \in 1..Length(p) : StepsOf(p)[k] = NextStep(StepsOf(p)[k - 1], Nibbles(p)[k])
<1> DEFINE d == Nibbles(p)
           n == Len(d)
           Is(f) == f = [k \in 0..n |-> IF k = 0 THEN MinStep ELSE NextStep(f[k - 1], d[k])]
           u == StepsOf(p)
<1>1. n \in Nat /\ (\A k \in 1..n : d[k] \in 0..15) /\ n = Length(p) /\ MinStep \in Steps
  BY Layout, Limits DEF Steps
<1>2. \A k \in 1..n, s \in Steps : NextStep(s, d[k]) \in Steps
  <2>1. 0 \in Signals
    BY Limits DEF Signals
  <2> QED BY <1>1, <2>1, DecoderRange
<1> HIDE DEF d
<1>3. \E f : Is(f)
  <2> DEFINE F == [x \in Steps \X (1..n) |-> NextStep(x[1], d[x[2]])]
  <2>1. F \in [Steps \X (1..n) -> Steps]
    BY <1>2
  <2>2. PICK e \in Steps : e = MinStep
    BY <1>1
  <2>3. n \in Nat
    BY <1>1
  <2>4. IsStep(F, Steps, n)
    BY <2>1 DEF IsStep
  <2>5. PICK f : AreSteps(f, Steps, e, n, F)
    <3> HIDE DEF F, n
    <3> QED BY <2>2, <2>3, <2>4, StepsExist
  <2>6. f \in [0..n -> Steps] /\ f[0] = MinStep /\ \A k \in 1..n : f[k] = F[<<f[k - 1], k>>]
    BY <2>2, <2>5 DEF AreSteps
  <2>7. ASSUME NEW k \in 0..n PROVE f[k] = IF k = 0 THEN MinStep ELSE NextStep(f[k - 1], d[k])
    <3>1. CASE k = 0
      BY <2>6, <3>1
    <3>2. CASE k # 0
      <4>1. k \in 1..n /\ k - 1 \in 0..n
        BY <1>1, <3>2
      <4>2. f[k - 1] \in Steps /\ f[k] = F[<<f[k - 1], k>>]
        BY <2>6, <4>1
      <4>3. F[<<f[k - 1], k>>] = NextStep(f[k - 1], d[k])
        BY <4>1, <4>2
      <4> QED BY <3>2, <4>2, <4>3
    <3> QED BY <3>1, <3>2
  <2>8. Is(f)
    BY <2>6, <2>7
  <2> QED BY <2>8
<1>4. Is(u)
  <2>1. u = CHOOSE f : Is(f)
    BY DEF StepsOf, d
  <2> HIDE DEF Is, u
  <2> QED BY <1>3, <2>1
<1> HIDE DEF u, d
<1>5. u[0] = MinStep
  BY <1>1, <1>4
<1>6. ASSUME NEW k \in 1..n PROVE u[k] = NextStep(u[k - 1], d[k])
  <2>1. k \in 0..n /\ k # 0
    BY <1>1
  <2>2. u[k] = IF k = 0 THEN MinStep ELSE NextStep(u[k - 1], d[k])
    BY <1>4, <2>1
  <2> QED BY <2>1, <2>2
<1>7. \A k \in 0..n : u[k] \in Steps
  <2> DEFINE T == {k \in 0..n : u[k] \in Steps}
  <2>1. 0 \in T
    BY <1>1, <1>5
  <2>2. ASSUME NEW k \in 1..n, k - 1 \in T PROVE k \in T
    <3>1. u[k - 1] \in Steps /\ k \in 0..n
      BY <1>1, <2>2
    <3>2. u[k] = NextStep(u[k - 1], d[k])
      BY <1>6
    <3> QED BY <1>2, <3>1, <3>2
  <2>3. \A k \in 0..n : k \in T
    <3> HIDE DEF T, n
    <3> QED BY <1>1, <2>1, <2>2, UpToInduction
  <2> QED BY <2>3
<1> QED BY <1>1, <1>5, <1>6, <1>7 DEF u, d

LEMMA SignalsOfFacts ==
  ASSUME NEW p \in Seq(Seq(Bytes))
  PROVE  /\ SignalsOf(p)[0] = 0 /\ \A k \in 0..Length(p) : SignalsOf(p)[k] \in Signals
         /\ \A k \in 1..Length(p) : SignalsOf(p)[k] = NextSignal(SignalsOf(p)[k - 1], StepsOf(p)[k - 1], Nibbles(p)[k])
<1> DEFINE d == Nibbles(p)
           n == Len(d)
           st == StepsOf(p)
           Is(f) == f = [k \in 0..n |-> IF k = 0 THEN 0 ELSE NextSignal(f[k - 1], st[k - 1], d[k])]
           u == SignalsOf(p)
<1>1. n \in Nat /\ (\A k \in 1..n : d[k] \in 0..15) /\ n = Length(p) /\ 0 \in Signals
  BY Layout, Limits DEF Signals
<1>2. \A k \in 1..n, s \in Signals : NextSignal(s, st[k - 1], d[k]) \in Signals
  <2> SUFFICES ASSUME NEW k \in 1..n, NEW s \in Signals
               PROVE  NextSignal(s, st[k - 1], d[k]) \in Signals
    OBVIOUS
  <2>1. k - 1 \in 0..Length(p)
    BY <1>1
  <2>2. st[k - 1] \in Steps
    BY <2>1, StepsOfFacts
  <2> QED BY <1>1, <2>2, DecoderRange
<1> HIDE DEF d, st
<1>3. \E f : Is(f)
  <2> DEFINE F == [x \in Signals \X (1..n) |-> NextSignal(x[1], st[x[2] - 1], d[x[2]])]
  <2>1. F \in [Signals \X (1..n) -> Signals]
    BY <1>2
  <2>2. PICK e \in Signals : e = 0
    BY <1>1
  <2>3. n \in Nat
    BY <1>1
  <2>4. IsStep(F, Signals, n)
    BY <2>1 DEF IsStep
  <2>5. PICK f : AreSteps(f, Signals, e, n, F)
    <3> HIDE DEF F, n
    <3> QED BY <2>2, <2>3, <2>4, StepsExist
  <2>6. f \in [0..n -> Signals] /\ f[0] = 0 /\ \A k \in 1..n : f[k] = F[<<f[k - 1], k>>]
    BY <2>2, <2>5 DEF AreSteps
  <2>7. ASSUME NEW k \in 0..n PROVE f[k] = IF k = 0 THEN 0 ELSE NextSignal(f[k - 1], st[k - 1], d[k])
    <3>1. CASE k = 0
      BY <2>6, <3>1
    <3>2. CASE k # 0
      <4>1. k \in 1..n /\ k - 1 \in 0..n
        BY <1>1, <3>2
      <4>2. f[k - 1] \in Signals /\ f[k] = F[<<f[k - 1], k>>]
        BY <2>6, <4>1
      <4>3. F[<<f[k - 1], k>>] = NextSignal(f[k - 1], st[k - 1], d[k])
        BY <4>1, <4>2
      <4> QED BY <3>2, <4>2, <4>3
    <3> QED BY <3>1, <3>2
  <2>8. Is(f)
    BY <2>6, <2>7
  <2> QED BY <2>8
<1>4. Is(u)
  <2>1. u = CHOOSE f : Is(f)
    BY DEF SignalsOf, StepsOf, d, st
  <2> HIDE DEF Is, u
  <2> QED BY <1>3, <2>1
<1> HIDE DEF u, d
<1>5. u[0] = 0
  BY <1>1, <1>4
<1>6. ASSUME NEW k \in 1..n PROVE u[k] = NextSignal(u[k - 1], st[k - 1], d[k])
  <2>1. k \in 0..n /\ k # 0
    BY <1>1
  <2>2. u[k] = IF k = 0 THEN 0 ELSE NextSignal(u[k - 1], st[k - 1], d[k])
    BY <1>4, <2>1
  <2> QED BY <2>1, <2>2
<1>7. \A k \in 0..n : u[k] \in Signals
  <2> DEFINE T == {k \in 0..n : u[k] \in Signals}
  <2>1. 0 \in T
    BY <1>1, <1>5
  <2>2. ASSUME NEW k \in 1..n, k - 1 \in T PROVE k \in T
    <3>1. u[k - 1] \in Signals /\ k \in 0..n
      BY <1>1, <2>2
    <3>2. u[k] = NextSignal(u[k - 1], st[k - 1], d[k])
      BY <1>6
    <3> QED BY <1>2, <3>1, <3>2
  <2>3. \A k \in 0..n : k \in T
    <3> HIDE DEF T, n
    <3> QED BY <1>1, <2>1, <2>2, UpToInduction
  <2> QED BY <2>3
<1> QED BY <1>1, <1>5, <1>6, <1>7 DEF u, d, st

\* What the whole PROM decodes to.
LEMMA DecodedFacts ==
  ASSUME NEW p \in Seq(Seq(Bytes))
  PROVE  /\ Length(p) \in Nat /\ Decoded(p) \in Seq(Signals) /\ Len(Decoded(p)) = Length(p)
         /\ \A k \in 1..Length(p) : Decoded(p)[k] = Volume(SignalsOf(p)[k])
<1>1. Length(p) \in Nat /\ DOMAIN Nibbles(p) = 1..Length(p)
  BY Layout
<1>2. Decoded(p) = [k \in 1..Length(p) |-> Volume(SignalsOf(p)[k])]
  BY <1>1, ReferenceParts
<1>3. ASSUME NEW k \in 1..Length(p) PROVE Volume(SignalsOf(p)[k]) \in Signals
  <2>1. k \in 0..Length(p)
    BY <1>1
  <2>2. SignalsOf(p)[k] \in Signals
    BY <2>1, SignalsOfFacts
  <2> QED BY <2>2, VolumeRange
<1> QED BY <1>1, <1>2, <1>3

-----------------------------------------------------------------------------
(* The second invariant: where the decoder is in the stream of nibbles.    *)

\* The packets before the cursor are decoded, but for what the last of them has left.
Placed ==
  /\ cursor \in 1..(Len(prom) + 1)
  /\ packet = <<>> \/ (cursor > 1 /\ packet = prom[cursor - 1])
  /\ Len(out) + 2 * Len(packet) - processed = LengthUpTo(prom)[cursor - 1]

\* The decoder is where the reference is after as many nibbles.
Decoding ==
  /\ \A i \in 1..Len(out) : out[i] = Volume(SignalsOf(prom)[i])
  /\ signal = SignalsOf(prom)[Len(out)] /\ step = StepsOf(prom)[Len(out)]

\* The end was found behind the last packet, or the PROM failed.
Finished == ate /\ ~failed => packet = <<>> /\ cursor = Len(prom) + 1

\* Nothing is read before the sample is opened.
Unopened == call.op = "none" => out = <<>> /\ todo = 0 /\ ~ate

StreamInv == Placed /\ Decoding /\ Finished /\ Unopened

Inv == IInv /\ StreamInv

LEMMA PromType ==
  ASSUME TypeOK
  PROVE  /\ prom \in Seq(Seq(Bytes)) /\ Len(prom) \in Nat
         /\ \A k \in 1..Len(prom) : prom[k] \in Seq(Bytes) /\ prom[k] # <<>>
<1>1. prom \in Seq(Seq(Bytes) \ {<<>>})
  BY PromAssumptions DEF TypeOK
<1>2. prom \in Seq(Seq(Bytes))
  BY <1>1
<1> QED BY <1>1, <1>2

LEMMA StreamInit == Init => StreamInv
<1> SUFFICES ASSUME Init PROVE StreamInv
  OBVIOUS
<1>1. prom \in Seq(Seq(Bytes)) /\ Len(prom) \in Nat
  BY InvInit, PromType DEF IInv
<1>2. /\ cursor = 1 /\ packet = <<>> /\ processed = 0 /\ signal = 0 /\ step = MinStep
      /\ out = <<>> /\ todo = 0 /\ ~ate
  BY DEF Init
<1>3. Placed
  <2>1. LengthUpTo(prom)[0] = 0
    BY <1>1, LengthUpToFacts
  <2> QED BY <1>1, <1>2, <2>1 DEF Placed
<1>4. Decoding
  <2>1. SignalsOf(prom)[0] = 0 /\ StepsOf(prom)[0] = MinStep
    BY <1>1, SignalsOfFacts, StepsOfFacts
  <2> QED BY <1>2, <2>1 DEF Decoding
<1> QED BY <1>2, <1>3, <1>4 DEF StreamInv, Finished, Unopened

LEMMA StreamRewind ==
  ASSUME TypeOK, Rewind, prom' = prom, call'.op = "reset"
  PROVE  StreamInv'
<1>1. prom \in Seq(Seq(Bytes)) /\ Len(prom) \in Nat /\ \A k \in 1..Len(prom) : prom[k] \in Seq(Bytes)
  BY PromType
<1>2. PICK fails \in Failures :
        /\ packet' = PacketAt(1, fails) /\ processed' = 0
        /\ signal' = 0 /\ step' = MinStep
        /\ cursor' = IF packet' = <<>> THEN 1 ELSE 2
        /\ ate' = FALSE /\ out' = <<>>
  BY DEF Rewind
<1>3. fails \in BOOLEAN /\ prom \in Proms
  BY PromAssumptions DEF TypeOK
<1>4. packet' # <<>> => 1 <= Len(prom) /\ packet' = prom[1]
  BY <1>2, <1>3, PacketIsBytes
<1>5. Placed'
  <2>1. LengthUpTo(prom)[0] = 0
    BY <1>1, LengthUpToFacts
  <2>2. CASE packet' = <<>>
    BY <1>1, <1>2, <2>1, <2>2 DEF Placed
  <2>3. CASE packet' # <<>>
    <3>1. 1 \in 1..Len(prom) /\ cursor' = 2 /\ packet' = prom[1] /\ 2 - 1 = 1 /\ 1 - 1 = 0
      BY <1>1, <1>2, <1>4, <2>3
    <3>2. LengthUpTo(prom)[1] = LengthUpTo(prom)[1 - 1] + 2 * Len(prom[1])
      BY <1>1, <3>1, LengthUpToFacts
    <3>3. Len(prom[1]) \in Nat
      BY <1>1, <3>1
    <3>4. LengthUpTo(prom)[2 - 1] = 2 * Len(prom[1])
      BY <2>1, <3>1, <3>2, <3>3
    <3>5. cursor' \in 1..(Len(prom') + 1) /\ cursor' > 1 /\ packet' = prom'[cursor' - 1]
      BY <1>1, <3>1
    <3>6. Len(out') + 2 * Len(packet') - processed' = LengthUpTo(prom')[cursor' - 1]
      <4>1. Len(out') = 0 /\ processed' = 0 /\ LengthUpTo(prom')[cursor' - 1] = LengthUpTo(prom)[2 - 1]
        BY <1>2, <3>1
      <4> QED BY <3>1, <3>3, <3>4, <4>1
    <3> QED BY <3>5, <3>6 DEF Placed
  <2> QED BY <2>2, <2>3
<1>6. Decoding'
  <2>1. SignalsOf(prom)[0] = 0 /\ StepsOf(prom)[0] = MinStep
    BY <1>1, SignalsOfFacts, StepsOfFacts
  <2> QED BY <1>2, <2>1 DEF Decoding
<1> QED BY <1>2, <1>5, <1>6 DEF StreamInv, Finished, Unopened

\* A fetch takes the next packet, or finds the end.
LEMMA StreamFetch ==
  ASSUME TypeOK, Placed, Finished, prom' = prom, out' = out, todo = 0, NEW fails \in Failures, Fetch(fails)
  PROVE  /\ Placed' /\ Finished'
         /\ packet' = <<>> => fails \/ Len(out) = Length(prom)
<1>1. prom \in Seq(Seq(Bytes)) /\ Len(prom) \in Nat /\ \A k \in 1..Len(prom) : prom[k] \in Seq(Bytes)
  BY PromType
<1>2. fails \in BOOLEAN /\ prom \in Proms /\ cursor \in Nat \ {0} /\ Len(out) \in Nat
  BY PromAssumptions DEF TypeOK
<1>3. /\ cursor \in 1..(Len(prom) + 1)
      /\ Len(out) + 2 * Len(packet) - processed = LengthUpTo(prom)[cursor - 1]
  BY DEF Placed
<1>4. Len(out) = LengthUpTo(prom)[cursor - 1]
  <2>1. processed >= 2 * Len(packet) /\ processed <= 2 * Len(packet) /\ processed \in Nat /\ Len(packet) \in Nat
    BY DEF Fetch, TypeOK, nbsamples
  <2> QED BY <1>2, <1>3, <2>1
<1>5. /\ packet' = PacketAt(cursor, fails) /\ processed' = 0
      /\ cursor' = IF packet' = <<>> THEN cursor ELSE cursor + 1
      /\ ate' = (ate \/ packet' = <<>>) /\ failed' = (failed \/ fails)
  BY DEF Fetch
<1>6. /\ packet' # <<>> => cursor <= Len(prom) /\ packet' = prom[cursor]
      /\ packet' = <<>> => fails \/ cursor > Len(prom)
  BY <1>2, <1>5, PacketIsBytes
<1>7. CASE packet' = <<>>
  <2>1. Placed'
    BY <1>2, <1>3, <1>4, <1>5, <1>7 DEF Placed
  <2>2. cursor' = cursor /\ (fails \/ cursor = Len(prom) + 1)
    BY <1>1, <1>3, <1>5, <1>6, <1>7
  <2>3. fails => failed'
    BY <1>5
  <2>4. Finished'
    BY <1>7, <2>2, <2>3 DEF Finished
  <2>5. fails \/ Len(out) = Length(prom)
    <3>1. (Len(prom) + 1) - 1 = Len(prom) /\ Length(prom) = LengthUpTo(prom)[Len(prom)]
      <4>1. Length(prom) = LengthUpTo(prom)[Len(prom)]
        BY ReferenceParts
      <4> QED BY <1>1, <4>1
    <3> QED BY <1>4, <2>2, <3>1
  <2> QED BY <2>1, <2>4, <2>5
<1>8. CASE packet' # <<>>
  <2>1. cursor \in 1..Len(prom) /\ packet' = prom[cursor] /\ cursor' = cursor + 1
    BY <1>1, <1>3, <1>5, <1>6, <1>8
  <2>2. LengthUpTo(prom)[cursor] = LengthUpTo(prom)[cursor - 1] + 2 * Len(prom[cursor])
    BY <1>1, <2>1, LengthUpToFacts
  <2>3. Placed'
    <3>1. cursor' \in 1..(Len(prom) + 1) /\ cursor' > 1 /\ cursor' - 1 = cursor
      BY <1>1, <2>1
    <3>2. Len(prom[cursor]) \in Nat
      BY <1>1, <2>1
    <3>3. Len(out) + 2 * Len(prom[cursor]) - 0 = LengthUpTo(prom)[cursor]
      BY <1>2, <1>4, <2>2, <3>2
    <3> QED BY <1>5, <2>1, <3>1, <3>3 DEF Placed
  <2>4. Finished'
    <3>1. ate' => ate
      BY <1>5, <1>8
    <3>2. ~failed' => ~failed
      BY <1>5
    <3>3. ate => failed
      BY <1>1, <2>1 DEF Finished
    <3> QED BY <3>1, <3>2, <3>3 DEF Finished
  <2> QED BY <1>8, <2>3, <2>4
<1> QED BY <1>7, <1>8

LEMMA StreamBegin ==
  ASSUME Inv, NEW n \in Asks, Begin(n)
  PROVE  StreamInv'
<1>1. TypeOK /\ Placed /\ Decoding /\ Finished
  BY DEF Inv, IInv, StreamInv
<1>2. /\ prom' = prom /\ signal' = signal /\ step' = step /\ out' = out /\ todo = 0 /\ call'.op = "read"
  BY DEF Begin, Between
<1>3. Placed' /\ Finished'
  <2>1. CASE \E fails \in Failures : Fetch(fails)
    <3>1. PICK fails \in Failures : Fetch(fails)
      BY <2>1
    <3> QED BY <1>1, <1>2, <3>1, StreamFetch
  <2>2. CASE UNCHANGED <<reader, ate, failed>>
    <3>1. cursor' = cursor /\ packet' = packet /\ processed' = processed /\ ate' = ate /\ failed' = failed
      BY <2>2 DEF reader
    <3>2. Placed'
      BY <1>1, <1>2, <3>1 DEF Placed
    <3>3. Finished'
      BY <1>1, <1>2, <3>1 DEF Finished
    <3> QED BY <3>2, <3>3
  <2> QED BY <2>1, <2>2 DEF Begin
<1>4. Decoding'
  BY <1>1, <1>2 DEF Decoding
<1> QED BY <1>2, <1>3, <1>4 DEF StreamInv, Unopened

\* The byte the loop of _de_adpcm reads holds the next two nibbles.
LEMMA NextNibbles ==
  ASSUME TypeOK, Placed, todo > 0
  PROVE  /\ Len(out) \in Nat /\ Len(out) + 1 \in 1..Length(prom) /\ Len(out) + 2 \in 1..Length(prom)
         /\ Nibbles(prom)[Len(out) + 1] = packet[processed \div 2 + 1] \div 16
         /\ Nibbles(prom)[Len(out) + 2] = packet[processed \div 2 + 1] % 16
<1>1. /\ prom \in Seq(Seq(Bytes)) /\ Len(prom) \in Nat
      /\ \A k \in 1..Len(prom) : prom[k] \in Seq(Bytes)
  BY PromType
<1>2. /\ processed \in Nat /\ processed % 2 = 0 /\ todo \in Nat /\ todo % 2 = 0
      /\ processed + todo <= 2 * Len(packet) /\ Len(packet) \in Nat /\ Len(out) \in Nat
  BY DEF TypeOK, nbsamples
<1>3. processed + 2 <= 2 * Len(packet)
  BY <1>2
<1>4. cursor \in 1..(Len(prom) + 1) /\ cursor > 1 /\ packet = prom[cursor - 1]
  <2>1. packet # <<>>
    BY <1>2, <1>3
  <2> QED BY <2>1 DEF Placed
<1>5. PICK c \in 1..Len(prom) : c = cursor - 1
  BY <1>1, <1>4
<1>6. /\ packet = prom[c] /\ LengthUpTo(prom)[c] \in Nat /\ LengthUpTo(prom)[c - 1] \in Nat
      /\ LengthUpTo(prom)[c] = LengthUpTo(prom)[c - 1] + 2 * Len(packet)
      /\ LengthUpTo(prom)[c] <= Length(prom) /\ Length(prom) \in Nat
  <2>1. c \in 0..Len(prom) /\ c - 1 \in 0..Len(prom)
    BY <1>1
  <2>2. packet = prom[c]
    BY <1>4, <1>5
  <2>3. LengthUpTo(prom)[c] \in Nat /\ LengthUpTo(prom)[c - 1] \in Nat
    BY <1>1, <2>1, LengthUpToFacts
  <2>4. LengthUpTo(prom)[c] = LengthUpTo(prom)[c - 1] + 2 * Len(prom[c])
    BY <1>1, LengthUpToFacts
  <2>5. LengthUpTo(prom)[c] <= Length(prom) /\ Length(prom) \in Nat
    BY <1>1, Layout
  <2> QED BY <2>2, <2>3, <2>4, <2>5
<1>7. PICK a \in Nat : a = LengthUpTo(prom)[c - 1]
  BY <1>6
<1>8. Len(out) = a + processed /\ a + 2 * Len(packet) <= Length(prom)
  <2>1. Len(out) + 2 * Len(packet) - processed = LengthUpTo(prom)[c]
    BY <1>5 DEF Placed
  <2>2. LengthUpTo(prom)[c] = a + 2 * Len(packet)
    BY <1>6, <1>7
  <2> QED BY <1>2, <1>6, <2>1, <2>2
<1>9. Len(out) + 1 \in 1..Length(prom) /\ Len(out) + 2 \in 1..Length(prom)
  BY <1>2, <1>3, <1>6, <1>8, SMTT(30)
<1>10. processed + 1 \in 1 .. 2 * Len(packet) /\ processed + 2 \in 1 .. 2 * Len(packet)
  BY <1>2, <1>3
<1>11. \A i \in 1 .. 2 * Len(packet) : Nibbles(prom)[a + i] = NibblesOf(packet)[i]
  BY <1>1, <1>6, <1>7, Layout
<1>12. NibblesOf(packet)[processed + 1] = packet[processed \div 2 + 1] \div 16
  <2>1. (processed + 1) % 2 = 1 /\ ((processed + 1) + 1) \div 2 = processed \div 2 + 1
    BY <1>2
  <2> QED BY <1>10, <2>1 DEF NibblesOf
<1>13. NibblesOf(packet)[processed + 2] = packet[processed \div 2 + 1] % 16
  <2>1. (processed + 2) % 2 = 0 /\ ((processed + 2) + 1) \div 2 = processed \div 2 + 1
    BY <1>2
  <2> QED BY <1>10, <2>1 DEF NibblesOf
<1>14. Len(out) + 1 = a + (processed + 1) /\ Len(out) + 2 = a + (processed + 2)
  BY <1>2, <1>8
<1> QED BY <1>2, <1>9, <1>10, <1>11, <1>12, <1>13, <1>14

LEMMA StreamByte ==
  ASSUME Inv, Byte
  PROVE  StreamInv'
<1> DEFINE data  == packet[processed \div 2 + 1]
           upper == data \div 16
           lower == data % 16
           mid   == NextSignal(signal, step, upper)
           half  == NextStep(step, upper)
           sg    == SignalsOf(prom)
           st    == StepsOf(prom)
           l     == Len(out)
<1>1. TypeOK /\ Placed /\ Decoding /\ Finished /\ Unopened
  BY DEF Inv, IInv, StreamInv
<1>2. /\ packet' = packet /\ prom' = prom /\ cursor' = cursor /\ ate' = ate /\ call' = call /\ failed' = failed
      /\ processed' = processed + 2 /\ todo' = todo - 2 /\ todo > 0
      /\ signal' = NextSignal(mid, half, lower) /\ step' = NextStep(half, lower)
      /\ out' = out \o <<Volume(mid), Volume(signal')>>
  BY DEF Byte
<1>3. /\ l \in Nat /\ l + 1 \in 1..Length(prom) /\ l + 2 \in 1..Length(prom)
      /\ Nibbles(prom)[l + 1] = upper /\ Nibbles(prom)[l + 2] = lower
  BY <1>1, <1>2, NextNibbles
<1>4. prom \in Seq(Seq(Bytes)) /\ Len(prom) \in Nat
  BY <1>1, PromType
<1>5. /\ signal = sg[l] /\ step = st[l] /\ \A i \in 1..l : out[i] = Volume(sg[i])
  BY <1>1 DEF Decoding
<1> HIDE DEF upper, lower, sg, st
<1>6. mid = sg[l + 1] /\ half = st[l + 1]
  <2>1. (l + 1) - 1 = l
    BY <1>3
  <2>2. sg[l + 1] = NextSignal(sg[(l + 1) - 1], st[(l + 1) - 1], Nibbles(prom)[l + 1])
    BY <1>3, <1>4, SignalsOfFacts DEF sg, st
  <2>3. st[l + 1] = NextStep(st[(l + 1) - 1], Nibbles(prom)[l + 1])
    BY <1>3, <1>4, StepsOfFacts DEF st
  <2> QED BY <1>3, <1>5, <2>1, <2>2, <2>3
<1> HIDE DEF mid, half
<1>7. signal' = sg[l + 2] /\ step' = st[l + 2]
  <2>1. (l + 2) - 1 = l + 1
    BY <1>3
  <2>2. sg[l + 2] = NextSignal(sg[(l + 2) - 1], st[(l + 2) - 1], Nibbles(prom)[l + 2])
    BY <1>3, <1>4, SignalsOfFacts DEF sg, st
  <2>3. st[l + 2] = NextStep(st[(l + 2) - 1], Nibbles(prom)[l + 2])
    BY <1>3, <1>4, StepsOfFacts DEF st
  <2> QED BY <1>2, <1>3, <1>6, <2>1, <2>2, <2>3
<1>8. /\ Len(out') = l + 2 /\ \A i \in 1..l : out'[i] = out[i]
      /\ out'[l + 1] = Volume(mid) /\ out'[l + 2] = Volume(signal')
  <2>1. out \in Seq(Signals)
    BY <1>1 DEF TypeOK
  <2> QED BY <1>2, <2>1
<1>9. Placed'
  <2>1. processed \in Nat /\ Len(packet) \in Nat
    BY <1>1 DEF TypeOK
  <2>2. /\ cursor \in 1..(Len(prom) + 1) /\ (packet = <<>> \/ (cursor > 1 /\ packet = prom[cursor - 1]))
        /\ l + 2 * Len(packet) - processed = LengthUpTo(prom)[cursor - 1]
    BY <1>1 DEF Placed
  <2>3. (l + 2) + 2 * Len(packet) - (processed + 2) = l + 2 * Len(packet) - processed
    BY <1>3, <2>1
  <2> QED BY <1>2, <1>8, <2>2, <2>3 DEF Placed
<1>10. Decoding'
  <2>1. ASSUME NEW i \in 1..(l + 2) PROVE out'[i] = Volume(sg[i])
    <3>1. i \in 1..l \/ i = l + 1 \/ i = l + 2
      BY <1>3
    <3> QED BY <1>5, <1>6, <1>7, <1>8, <3>1
  <2> QED BY <1>2, <1>7, <1>8, <2>1 DEF Decoding, sg, st
<1>11. Finished'
  BY <1>1, <1>2 DEF Finished
<1>12. Unopened'
  <2>1. call.op # "none"
    BY <1>1, <1>2 DEF Unopened
  <2> QED BY <1>2, <2>1 DEF Unopened
<1> QED BY <1>9, <1>10, <1>11, <1>12 DEF StreamInv

LEMMA StreamNext == Inv /\ [Next]_vars => Inv'
<1> SUFFICES ASSUME Inv, [Next]_vars PROVE Inv'
  OBVIOUS
<1>1. IInv'
  BY InvNext DEF Inv
<1>2. TypeOK
  BY DEF Inv, IInv
<1>3. CASE UNCHANGED vars
  <2>1. /\ prom' = prom /\ cursor' = cursor /\ packet' = packet /\ processed' = processed /\ signal' = signal
        /\ step' = step /\ ate' = ate /\ todo' = todo /\ call' = call /\ out' = out /\ failed' = failed
    BY <1>3 DEF vars, reader
  <2>2. StreamInv'
    BY <2>1 DEF Inv, StreamInv, Placed, Decoding, Finished, Unopened
  <2> QED BY <1>1, <2>2 DEF Inv
<1>4. CASE Open
  BY <1>1, <1>2, <1>4, StreamRewind DEF Open, Inv
<1>5. CASE Reset
  <2>1. CASE is_reset
    <3>1. /\ prom' = prom /\ cursor' = cursor /\ packet' = packet /\ processed' = processed /\ signal' = signal
          /\ step' = step /\ ate' = ate /\ out' = out /\ failed' = failed /\ call'.op = "reset"
      BY <1>5, <2>1 DEF Reset, reader
    <3>2. StreamInv'
      BY <3>1 DEF Inv, StreamInv, Placed, Decoding, Finished, Unopened
    <3> QED BY <1>1, <3>2 DEF Inv
  <2>2. CASE ~is_reset
    <3>1. Rewind /\ prom' = prom /\ call'.op = "reset"
      BY <1>5, <2>2 DEF Reset
    <3> QED BY <1>1, <1>2, <3>1, StreamRewind DEF Inv
  <2> QED BY <2>1, <2>2
<1>6. CASE \E n \in Asks : Begin(n)
  BY <1>1, <1>6, StreamBegin DEF Inv
<1>7. CASE Byte
  BY <1>1, <1>7, StreamByte DEF Inv
<1> QED BY <1>3, <1>4, <1>5, <1>6, <1>7 DEF Next

LEMMA StreamAlways == Spec => []Inv
<1>1. Init => Inv
  BY InvInit, StreamInit DEF Inv
<1> QED BY <1>1, StreamNext, PTL DEF Spec

-----------------------------------------------------------------------------
(* The theorems.                                                           *)

\* The ADPCM sample keeps its types: whatever the PROM holds, the decoder of
\* _de_adpcm stays in its range and within its packet.
THEOREM S5PromTypeCorrect == Spec => []TypeOK
<1>1. IInv => TypeOK
  BY DEF IInv
<1> QED
  BY <1>1, InvAlways, PTL

\* _impl_reset restarts the decoder also when its flag lets it skip the rewind.
THEOREM ResetRestartsCorrect == Spec => []ResetRestarts
<1>1. IInv => ResetRestarts
  BY DEF IInv, ResetInv, ResetRestarts
<1> QED
  BY <1>1, InvAlways, PTL

\* A read of two samples or more that returns none has found the end.
THEOREM NoStallCorrect == Spec => []NoStall
<1>1. IInv => NoStall
  BY DEF IInv
<1> QED
  BY <1>1, InvAlways, PTL

\* However a sample is cut into packets, and however its reader asks for it, what
\* _impl_read returns is the beginning of the decoded PROM, and all of it at the end.
THEOREM OutIsDecodeCorrect == Spec => []OutIsDecode
<1>1. Inv => OutIsDecode
  <2> SUFFICES ASSUME Inv PROVE OutIsDecode
    OBVIOUS
  <2>1. TypeOK /\ Placed /\ Decoding /\ Finished
    BY DEF Inv, IInv, StreamInv
  <2>2. prom \in Seq(Seq(Bytes)) /\ Len(prom) \in Nat /\ out \in Seq(Signals) /\ Len(out) \in Nat
    BY <2>1, PromType DEF TypeOK
  <2>3. /\ Length(prom) \in Nat /\ Decoded(prom) \in Seq(Signals) /\ Len(Decoded(prom)) = Length(prom)
        /\ \A k \in 1..Length(prom) : Decoded(prom)[k] = Volume(SignalsOf(prom)[k])
    BY <2>2, DecodedFacts
  <2>4. Len(out) <= Length(prom)
    <3>1. cursor \in 1..(Len(prom) + 1) /\ Len(out) + 2 * Len(packet) - processed = LengthUpTo(prom)[cursor - 1]
      BY <2>1 DEF Placed
    <3>2. processed \in Nat /\ Len(packet) \in Nat /\ processed <= 2 * Len(packet)
      BY <2>1 DEF TypeOK, nbsamples
    <3>3. LengthUpTo(prom)[cursor - 1] \in Nat /\ LengthUpTo(prom)[cursor - 1] <= Length(prom)
      <4>1. CASE cursor = 1
        <5>1. LengthUpTo(prom)[0] = 0 /\ cursor - 1 = 0
          BY <2>2, <4>1, LengthUpToFacts
        <5> QED BY <2>3, <5>1
      <4>2. CASE cursor # 1
        <5>1. cursor - 1 \in 1..Len(prom) /\ cursor - 1 \in 0..Len(prom)
          BY <2>2, <3>1, <4>2
        <5> QED BY <2>2, <5>1, LengthUpToFacts, Layout
      <4> QED BY <4>1, <4>2
    <3> QED BY <2>2, <2>3, <3>1, <3>2, <3>3
  <2>5. out = SubSeq(Decoded(prom), 1, Len(out))
    <3>1. out = [i \in 1..Len(out) |-> out[i]]
      BY <2>2
    <3>2. SubSeq(Decoded(prom), 1, Len(out)) = [i \in 1..Len(out) |-> Decoded(prom)[i]]
      BY <2>2, <2>3, <2>4
    <3>3. \A i \in 1..Len(out) : out[i] = Decoded(prom)[i]
      BY <2>1, <2>2, <2>3, <2>4 DEF Decoding
    <3> QED BY <3>1, <3>2, <3>3
  <2>6. ASSUME ate, ~failed PROVE Len(out) = Length(prom)
    <3>1. packet = <<>> /\ cursor = Len(prom) + 1
      BY <2>1, <2>6 DEF Finished
    <3>2. processed = 0 /\ Len(packet) = 0
      BY <2>1, <3>1 DEF TypeOK, nbsamples
    <3>3. Len(out) + 2 * Len(packet) - processed = LengthUpTo(prom)[cursor - 1] /\ cursor - 1 = Len(prom)
      BY <2>1, <2>2, <3>1 DEF Placed
    <3>4. Length(prom) = LengthUpTo(prom)[Len(prom)]
      BY ReferenceParts
    <3> QED BY <2>2, <3>2, <3>3, <3>4
  <2> QED BY <2>5, <2>6 DEF OutIsDecode
<1> QED BY <1>1, StreamAlways, PTL

-----------------------------------------------------------------------------
(* Refinement.                                                             *)

\* The sample an output sees.
Seen == [length |-> Length(prom), unit |-> 2, pos |-> Len(out) + todo,
         end |-> ate, fresh |-> is_reset \/ call.op = "none"]

LEMMA SampleInit ==
  ASSUME Init
  PROVE  S!Init
<1>1. TypeOK
  BY InvInit DEF IInv
<1>2. Length(prom) \in Nat
  BY <1>1, PromType, Layout
<1>3. (is_reset \/ call.op = "none") = TRUE
  BY Zenon DEF Init
<1>4. ate = FALSE /\ Len(out) + todo = 0
  BY DEF Init
<1>5. Seen = [length |-> Length(prom), unit |-> 2, pos |-> 0, end |-> FALSE, fresh |-> TRUE]
  BY <1>3, <1>4 DEF Seen
<1>6. Seen.length = Length(prom) /\ Seen.unit = 2
  BY DEF Seen
<1> QED BY <1>2, <1>5, <1>6 DEF S!Init, S!AtStart, Seen

\* Opening only loads the first packet, and a byte only delivers what was granted.
LEMMA SampleOpen ==
  ASSUME Inv, Open
  PROVE  Seen' = Seen
<1>1. prom' = prom /\ todo' = todo /\ out' = <<>> /\ is_reset' = TRUE /\ ate' = FALSE
  BY DEF Open, Rewind
<1>2. out = <<>> /\ ~ate /\ call.op = "none" /\ ate \in BOOLEAN
  BY DEF Open, Inv, IInv, TypeOK, StreamInv, Unopened
<1>3. (is_reset \/ call.op = "none") = TRUE
  BY <1>2, Zenon
<1>4. (is_reset \/ call.op = "none")' = TRUE
  BY <1>1, Zenon
<1>5. ate = FALSE
  BY <1>2, Zenon
<1>6. Seen = [length |-> Length(prom), unit |-> 2, pos |-> Len(out) + todo, end |-> FALSE, fresh |-> TRUE]
  BY <1>3, <1>5 DEF Seen
<1>7. Seen' = [length |-> Length(prom'), unit |-> 2, pos |-> Len(out') + todo', end |-> FALSE, fresh |-> TRUE]
  BY <1>1, <1>4 DEF Seen
<1> QED BY <1>1, <1>2, <1>6, <1>7

LEMMA SampleByte ==
  ASSUME Inv, Byte
  PROVE  Seen' = Seen
<1>1. /\ prom' = prom /\ is_reset' = is_reset /\ ate' = ate /\ call' = call /\ todo' = todo - 2
      /\ out' = out \o <<Volume(NextSignal(signal, step, packet[processed \div 2 + 1] \div 16)),
                         Volume(signal')>>
  BY DEF Byte
<1>2. out \in Seq(Signals) /\ todo \in Nat
  BY DEF Inv, IInv, TypeOK
<1>3. Len(out') = Len(out) + 2
  <2> DEFINE a == Volume(NextSignal(signal, step, packet[processed \div 2 + 1] \div 16))
             b == Volume(signal')
  <2>1. out' = out \o <<a, b>>
    BY <1>1
  <2> HIDE DEF a, b
  <2> QED BY <1>2, <2>1
<1>4. Len(out') + todo' = Len(out) + todo
  BY <1>1, <1>2, <1>3
<1> QED BY <1>1, <1>4 DEF Seen

\* A reset goes back to the start.
LEMMA SampleReset ==
  ASSUME Inv, Reset
  PROVE  Seen' = S!AfterReset(Seen)
<1>1. prom' = prom /\ todo = 0 /\ todo' = 0 /\ call.op # "none" /\ call'.op = "reset"
  BY DEF Reset, Between
<1>2. CASE is_reset
  <2>1. is_reset' = is_reset /\ ate' = ate /\ out' = out
    BY <1>2 DEF Reset
  <2>2. (is_reset \/ call.op = "none") = TRUE
    BY <1>2, Zenon
  <2>3. (is_reset \/ call.op = "none")' = TRUE
    BY <1>2, <2>1, Zenon
  <2>4. Seen = [length |-> Length(prom), unit |-> 2, pos |-> Len(out) + todo, end |-> ate, fresh |-> TRUE]
    BY <2>2 DEF Seen
  <2>5. Seen' = [length |-> Length(prom'), unit |-> 2, pos |-> Len(out') + todo', end |-> ate', fresh |-> TRUE]
    BY <2>3 DEF Seen
  <2>6. Seen.fresh
    BY <2>4
  <2>7. Seen' = Seen
    BY <1>1, <2>1, <2>4, <2>5
  <2> QED BY <2>6, <2>7 DEF S!AfterReset
<1>3. CASE ~is_reset
  <2>1. is_reset' = TRUE /\ ate' = FALSE /\ out' = <<>>
    BY <1>3 DEF Reset, Rewind
  <2>2. (is_reset \/ call.op = "none") = FALSE
    BY <1>1, <1>3, Zenon
  <2>3. (is_reset \/ call.op = "none")' = TRUE
    BY <2>1, Zenon
  <2>4. Seen = [length |-> Length(prom), unit |-> 2, pos |-> Len(out) + todo, end |-> ate, fresh |-> FALSE]
    BY <2>2 DEF Seen
  <2>5. Len(out') + todo' = 0
    BY <1>1, <2>1
  <2>6. Seen' = [length |-> Length(prom), unit |-> 2, pos |-> 0, end |-> FALSE, fresh |-> TRUE]
    BY <1>1, <2>1, <2>3, <2>5 DEF Seen
  <2>7. ~Seen.fresh /\ Seen.length = Length(prom) /\ Seen.unit = 2
    BY <2>4
  <2> QED BY <2>6, <2>7 DEF S!AfterReset, S!AtStart
<1> QED BY <1>2, <1>3

\* What a call that begins finds: how much it may deliver, and when it finds the end.
LEMMA BeginFacts ==
  ASSUME Inv, NEW n \in Asks, Begin(n)
  PROVE  /\ todo = 0 /\ prom' = prom /\ out' = out /\ call.op # "none" /\ call'.op = "read"
         /\ is_reset' = (is_reset /\ todo' = 0) /\ n \in Nat /\ Len(out) \in Nat /\ Length(prom) \in Nat
         /\ todo' \in Nat /\ todo' % 2 = 0 /\ todo' <= n /\ todo' <= Length(prom) - Len(out)
         /\ (n >= 2 /\ todo' = 0 => ate') /\ (ate => ate') /\ (todo' > 0 /\ ate' => ate)
         /\ (ate' => ate \/ TRUE \in Failures \/ Len(out) = Length(prom))
<1> DEFINE left == 2 * Len(packet') - processed'
<1>1. /\ prom' = prom /\ out' = out /\ Between /\ todo' = Granted(n, left)
      /\ call' = [op |-> "read", asked |-> n, got |-> todo']
      /\ is_reset' = (is_reset /\ todo' = 0)
  BY DEF Begin
<1>2. TypeOK /\ Placed /\ Finished /\ IInv' /\ StreamInv'
  BY InvBegin, StreamBegin DEF Inv, IInv, StreamInv
<1>3. TypeOK' /\ NoStall' /\ Placed'
  BY <1>2 DEF IInv, StreamInv
<1>4. n \in Nat
  BY PromAssumptions
<1>5. /\ processed' \in Nat /\ processed' % 2 = 0 /\ packet' \in Seq(Bytes) /\ todo' \in Nat
      /\ todo' % 2 = 0 /\ processed' + todo' <= 2 * Len(packet') /\ Len(packet') \in Nat
  <2>1. /\ processed' \in Nat /\ processed' % 2 = 0 /\ packet' \in Seq(Bytes) /\ todo' \in Nat
        /\ todo' % 2 = 0 /\ processed' + todo' <= nbsamples'
    BY <1>3 DEF TypeOK
  <2>2. nbsamples' = 2 * Len(packet')
    BY DEF nbsamples
  <2>3. Len(packet') \in Nat
    BY <2>1
  <2> QED BY <2>1, <2>2, <2>3
<1>6. left \in Nat /\ todo' <= left
  BY <1>5
<1>7. todo' <= n
  BY <1>1, <1>4, <1>6 DEF Granted
<1>8. Len(out) \in Nat /\ prom \in Seq(Seq(Bytes)) /\ Len(prom) \in Nat
  BY <1>2, PromType DEF TypeOK
<1>9. Length(prom) \in Nat
  BY <1>8, Layout
<1>10. Len(out) + left <= Length(prom)
  <2>1. /\ cursor' \in 1..(Len(prom) + 1)
        /\ Len(out) + 2 * Len(packet') - processed' = LengthUpTo(prom)[cursor' - 1]
    BY <1>1, <1>3 DEF Placed
  <2>2. LengthUpTo(prom)[cursor' - 1] <= Length(prom)
    <3>1. CASE cursor' = 1
      <4>1. LengthUpTo(prom)[0] = 0 /\ cursor' - 1 = 0
        BY <1>8, <3>1, LengthUpToFacts
      <4> QED BY <1>9, <4>1
    <3>2. CASE cursor' # 1
      <4>1. cursor' - 1 \in 1..Len(prom)
        <5>1. PICK c \in 1..(Len(prom) + 1) : c = cursor' /\ c # 1
          BY <2>1, <3>2
        <5>2. c - 1 \in 1..Len(prom)
          <6>1. Len(prom) \in Nat
            BY <1>8
          <6>2. c \in 2..(Len(prom) + 1)
            BY <5>1, <6>1
          <6> QED BY <6>1, <6>2
        <5> QED BY <5>1, <5>2
      <4> QED BY <1>8, <4>1, Layout
    <3> QED BY <3>1, <3>2
  <2>3. Len(out) + 2 * Len(packet') - processed' = Len(out) + left
    BY <1>5, <1>8
  <2> QED BY <2>1, <2>2, <2>3
<1>11. todo' <= Length(prom) - Len(out)
  <2> HIDE DEF left
  <2> QED BY <1>5, <1>6, <1>8, <1>9, <1>10
<1>12. n >= 2 /\ todo' = 0 => ate'
  BY <1>1, <1>3 DEF NoStall
<1>13. (ate => ate') /\ (todo' > 0 /\ ate' => ate) /\ (ate' => ate \/ TRUE \in Failures \/ Len(out) = Length(prom))
  <2>1. CASE UNCHANGED <<reader, ate, failed>>
    BY <2>1
  <2>2. CASE \E fails \in Failures : Fetch(fails)
    <3>1. PICK fails \in Failures : Fetch(fails)
      BY <2>2
    <3>2. packet' = <<>> => fails \/ Len(out) = Length(prom)
      BY <1>1, <1>2, <3>1, StreamFetch DEF Between
    <3>3. ate' <=> (ate \/ packet' = <<>>)
      BY <3>1 DEF Fetch
    <3>4. todo' > 0 => packet' # <<>>
      BY <1>5
    <3>5. fails => TRUE \in Failures
      <4>1. fails \in BOOLEAN
        BY PromAssumptions
      <4>2. CASE fails = TRUE
        BY <4>2
      <4>3. CASE fails = FALSE
        BY <4>3
      <4> QED BY <4>1, <4>2, <4>3
    <3> QED BY <3>2, <3>3, <3>4, <3>5
  <2> QED BY <2>1, <2>2 DEF Begin
<1>14. todo = 0 /\ call.op # "none" /\ call'.op = "read"
  BY <1>1 DEF Between
<1> QED BY <1>1, <1>4, <1>5, <1>7, <1>8, <1>9, <1>11, <1>12, <1>13, <1>14

\* A call delivers some, and the flag stays, or it delivers none.
LEMMA SampleBegin ==
  ASSUME Inv, NEW n \in Asks, Begin(n)
  PROVE  Seen' \in S!AfterRead(Seen, n)
<1>1. /\ todo = 0 /\ prom' = prom /\ out' = out /\ call.op # "none" /\ call'.op = "read"
      /\ is_reset' = (is_reset /\ todo' = 0) /\ n \in Nat /\ Len(out) \in Nat /\ Length(prom) \in Nat
      /\ todo' \in Nat /\ todo' % 2 = 0 /\ todo' <= n /\ todo' <= Length(prom) - Len(out)
      /\ (n >= 2 /\ todo' = 0 => ate') /\ (ate => ate') /\ (todo' > 0 /\ ate' => ate)
      /\ (ate' => ate \/ TRUE \in Failures \/ Len(out) = Length(prom))
  BY BeginFacts
<1>2. ate \in BOOLEAN /\ ate' \in BOOLEAN /\ is_reset \in BOOLEAN /\ is_reset' \in BOOLEAN
  BY InvBegin DEF Inv, IInv, TypeOK
<1>3. (is_reset \/ call.op = "none") = is_reset
  BY <1>1, <1>2, Zenon
<1>4. (is_reset \/ call.op = "none")' = is_reset'
  <2>1. call'.op # "none"
    BY <1>1
  <2> QED BY <1>2, <2>1, Zenon
<1>5. Seen = [length |-> Length(prom), unit |-> 2, pos |-> Len(out), end |-> ate, fresh |-> is_reset]
  BY <1>1, <1>3 DEF Seen
<1>6. Seen' = [length |-> Length(prom), unit |-> 2, pos |-> Len(out) + todo', end |-> ate', fresh |-> is_reset']
  BY <1>1, <1>4 DEF Seen
<1>7. Seen.length = Length(prom) /\ Seen.unit = 2 /\ Seen.pos = Len(out) /\ Seen.end = ate /\ Seen.fresh = is_reset
  BY <1>5
<1> DEFINE most == IF n < Seen.length - Seen.pos THEN n ELSE Seen.length - Seen.pos
           more == {S!Advance(Seen, k, Seen.end) : k \in {i \in 1..most : i % Seen.unit = 0}}
           none == {S!Advance(Seen, 0, e) : e \in {Seen.end, TRUE}}
           some == {t \in none : /\ n >= Seen.unit => t.end
                                 /\ t.end /\ ~Seen.end => TRUE \in Failures \/ Seen.pos = Seen.length}
<1>8. S!AfterRead(Seen, n) = more \cup some
  BY DEF S!AfterRead
<1>9. CASE todo' > 0
  <2>1. ate' = ate
    BY <1>1, <1>2, <1>9, Zenon
  <2>2. is_reset' = (is_reset /\ todo' = 0)
    BY <1>1
  <2>3. S!Advance(Seen, todo', Seen.end) = Seen'
    <3>1. S!Advance(Seen, todo', Seen.end)
            = [length |-> Length(prom), unit |-> 2, pos |-> Len(out) + todo', end |-> ate,
               fresh |-> is_reset /\ todo' = 0]
      BY <1>7, Zenon DEF S!Advance
    <3> QED BY <1>6, <2>1, <2>2, <3>1
  <2>4. todo' \in {i \in 1..most : i % Seen.unit = 0}
    <3>1. PICK k \in Nat : k = todo' /\ k <= n /\ k <= Length(prom) - Len(out) /\ k > 0 /\ k % 2 = 0
      BY <1>1, <1>9
    <3>2. most = IF n < Length(prom) - Len(out) THEN n ELSE Length(prom) - Len(out)
      BY <1>7
    <3>3. Length(prom) - Len(out) \in Int
      BY <1>1
    <3>4. k \in 1..most
      BY <1>1, <3>1, <3>2, <3>3
    <3> QED BY <1>7, <3>1, <3>4
  <2>5. Seen' \in more
    BY <2>3, <2>4
  <2> QED BY <1>8, <2>5
<1>10. CASE todo' = 0
  <2>1. is_reset' = (is_reset /\ 0 = 0)
    BY <1>1, <1>10, Zenon
  <2>2. S!Advance(Seen, 0, ate') = Seen'
    <3>1. S!Advance(Seen, 0, ate')
            = [length |-> Length(prom), unit |-> 2, pos |-> Len(out) + 0, end |-> ate',
               fresh |-> is_reset /\ 0 = 0]
      BY <1>7, Zenon DEF S!Advance
    <3> QED BY <1>6, <1>10, <2>1, <3>1
  <2>3. ate' \in {Seen.end, TRUE}
    <3>1. ate' = ate \/ ate' = TRUE
      BY <1>1, <1>2, Zenon
    <3> QED BY <1>7, <3>1
  <2>4. Seen' \in none
    BY <2>2, <2>3
  <2>5. n >= Seen.unit => Seen'.end
    BY <1>1, <1>6, <1>7, <1>10
  <2>6. Seen'.end /\ ~Seen.end => TRUE \in Failures \/ Seen.pos = Seen.length
    BY <1>1, <1>6, <1>7
  <2>7. Seen' \in some
    BY <2>4, <2>5, <2>6
  <2> QED BY <1>8, <2>7
<1> QED BY <1>1, <1>9, <1>10

\* The ADPCM sample keeps, call by call, the promises of asmp.h: it implements Sample.
THEOREM SampleCorrect == Spec => IsSample
<1>1. ASSUME Inv, [Next]_vars PROVE [S!Next]_Seen
  <2>1. CASE Open
    BY <1>1, <2>1, SampleOpen
  <2>2. CASE Reset
    <3>1. Seen' = S!AfterReset(Seen)
      BY <1>1, <2>2, SampleReset
    <3> QED BY <3>1 DEF S!Next, Seen
  <2>3. CASE \E n \in Asks : Begin(n)
    <3>1. PICK n \in Asks : Begin(n)
      BY <2>3
    <3>2. Seen' \in S!AfterRead(Seen, n)
      BY <1>1, <3>1, SampleBegin
    <3> QED BY <3>2 DEF S!Next, Seen
  <2>4. CASE Byte
    BY <1>1, <2>4, SampleByte
  <2>5. CASE UNCHANGED vars
    BY <2>5 DEF vars, Seen
  <2> QED BY <1>1, <2>1, <2>2, <2>3, <2>4, <2>5 DEF Next
<1>2. Init => S!Init
  BY SampleInit
<1> QED BY <1>1, <1>2, StreamAlways, PTL DEF Spec, IsSample, S!Spec, Seen
=============================================================================
