-------------------------------- MODULE S5Prom --------------------------------
(***************************************************************************)
(* The audio sample that decodes ADPCM from a speech PROM, src/src/asmp/   *)
(* i_s5prom.c, built without RESAMPLE_48_KHZ.  The library that owns the   *)
(* PROM (libesprom) hands it out packet by packet and can be rewound; the  *)
(* output asks for any number of samples at a time, tests for the end and  *)
(* resets.  A call of read() or mix() is Begin, which finds the packet to  *)
(* decode from, and one Byte for every two samples.                        *)
(***************************************************************************)
EXTENDS Integers, Sequences

CONSTANTS
  Proms,    \* the contents a PROM may have: sequences of packets of bytes
  Asks,     \* the numbers of samples an output may ask for at a time
  Failures  \* the outcomes of a read of the PROM: {FALSE}, or BOOLEAN if it can fail

Bytes == 0..255

ASSUME PromAssumptions ==
  /\ Proms \subseteq Seq(Seq(Bytes) \ {<<>>})
  /\ Asks \subseteq Nat
  /\ Failures \subseteq BOOLEAN /\ FALSE \in Failures

VARIABLES
  prom,      \* the PROM
  cursor,    \* the packet libesprom hands out next
  packet,    \* frame.buffer: the packet being decoded, empty if there is none
  processed, \* frame.processed_samples
  signal,    \* frame.signal: the amplitude
  step,      \* frame.step: the step size
  is_reset,  \* frame.is_reset
  ate,       \* the at-end flag
  todo,      \* samples the call of read() in progress still has to decode
  call,      \* the last call: its name, the samples asked for and those returned
  out,       \* every sample read since the PROM was last rewound
  failed     \* the PROM could not be read since then

reader == <<cursor, packet, processed>>
vars   == <<prom, reader, signal, step, is_reset, ate, todo, call, out, failed>>

nbsamples == 2 * Len(packet)

-----------------------------------------------------------------------------
(* The decoder.                                                            *)

MinSignal == -32768
MaxSignal == 32767
MinStep   == 127
MaxStep   == 24576
VOLUME    == 10

Signals == MinSignal..MaxSignal
Steps   == MinStep..MaxStep

\* C's division rounds towards zero.
Quotient(a, b) == IF a >= 0 THEN a \div b ELSE -((-a) \div b)

\* (Mutant of Clamp: without the lower limit.)
ClampAbove(x, lo, hi) == IF x > hi THEN hi ELSE x

Clamp(x, lo, hi) == IF x > hi THEN hi ELSE IF x < lo THEN lo ELSE x

diff_lookup(data) == IF data < 8 THEN 2 * data + 1 ELSE 15 - 2 * data

index_scale(data) ==
  IF data % 8 < 4 THEN 230
  ELSE IF data % 8 = 4 THEN 307
  ELSE IF data % 8 = 5 THEN 409
  ELSE IF data % 8 = 6 THEN 512 ELSE 614

\* One nibble moves the amplitude and then the step.
NextSignal(sig, stp, data) ==
  Clamp(sig + Quotient(stp * diff_lookup(data), 8), MinSignal, MaxSignal)

NextStep(stp, data) == Clamp((stp * index_scale(data)) \div 256, MinStep, MaxStep)

Volume(sig) == Quotient(sig, VOLUME)

-----------------------------------------------------------------------------
(* The calls.                                                              *)

\* _adpcm_read_packet: the packet libesprom hands out at c, none if it fails or
\* has no more.
PacketAt(c, fails) == IF fails \/ c > Len(prom) THEN <<>> ELSE prom[c]

\* (Mutant of Rewind: the decoder keeps its state.)
RewindPromOnly ==
  \E fails \in Failures :
    /\ packet' = PacketAt(1, fails) /\ processed' = 0
    /\ cursor' = IF packet' = <<>> THEN 1 ELSE 2
    /\ is_reset' = TRUE /\ ate' = FALSE
    /\ out' = <<>> /\ failed' = fails
    /\ UNCHANGED <<signal, step>>

\* _impl_reset, when it rewinds: it also loads the first packet.
Rewind ==
  \E fails \in Failures :
    /\ signal' = 0 /\ step' = MinStep
    /\ packet' = PacketAt(1, fails) /\ processed' = 0
    /\ cursor' = IF packet' = <<>> THEN 1 ELSE 2
    /\ is_reset' = TRUE /\ ate' = FALSE
    /\ out' = <<>> /\ failed' = fails

\* calloc and the assignments of _impl_open.
Init ==
  /\ prom \in Proms
  /\ cursor = 1 /\ packet = <<>> /\ processed = 0
  /\ signal = 0 /\ step = MinStep
  /\ is_reset = FALSE /\ ate = FALSE
  /\ todo = 0 /\ call = [op |-> "none", asked |-> 0, got |-> 0]
  /\ out = <<>> /\ failed = FALSE

Between == todo = 0 /\ call.op # "none"

\* _impl_open ends with a reset.
Open ==
  /\ call.op = "none"
  /\ Rewind
  /\ call' = [op |-> "reset", asked |-> 0, got |-> 0]
  /\ UNCHANGED <<prom, todo>>

\* _impl_reset does nothing if nothing was read since the last reset.
Reset ==
  /\ Between
  /\ call' = [op |-> "reset", asked |-> 0, got |-> 0]
  /\ IF is_reset THEN UNCHANGED <<reader, signal, step, is_reset, ate, out, failed>> ELSE Rewind
  /\ UNCHANGED <<prom, todo>>

\* The samples a call returns: whole bytes, and no more than the packet has.
Granted(asked, left) ==
  LET samples == IF asked > left THEN left ELSE asked
  IN  samples - (samples % 2)

\* _de_adpcm when the packet is used up: _adpcm_read_packet.
Fetch(fails) ==
  /\ processed >= nbsamples
  /\ packet' = PacketAt(cursor, fails) /\ processed' = 0
  /\ cursor' = IF packet' = <<>> THEN cursor ELSE cursor + 1
  /\ ate' = (ate \/ packet' = <<>>)
  /\ failed' = (failed \/ fails)

\* (Mutant of Begin: the sample still counts as reset.)
BeginStaysReset(n) ==
  /\ Between
  /\ \/ \E fails \in Failures : Fetch(fails)
     \/ processed < nbsamples /\ UNCHANGED <<reader, ate, failed>>
  /\ todo' = Granted(n, 2 * Len(packet') - processed')
  /\ call' = [op |-> "read", asked |-> n, got |-> todo']
  /\ UNCHANGED <<prom, signal, step, out, is_reset>>

\* _impl_read and _impl_mix: _de_adpcm up to its loop.
Begin(n) ==
  /\ Between
  /\ \/ \E fails \in Failures : Fetch(fails)
     \/ processed < nbsamples /\ UNCHANGED <<reader, ate, failed>>
  /\ todo' = Granted(n, 2 * Len(packet') - processed')
  /\ call' = [op |-> "read", asked |-> n, got |-> todo']
  /\ is_reset' = (is_reset /\ todo' = 0)
  /\ UNCHANGED <<prom, signal, step, out>>

\* One turn of the loop of _de_adpcm: the two samples of a byte.
Byte ==
  /\ todo > 0
  /\ LET data  == packet[processed \div 2 + 1]
         upper == data \div 16
         lower == data % 16
         mid   == NextSignal(signal, step, upper)
         half  == NextStep(step, upper)
     IN  /\ signal' = NextSignal(mid, half, lower)
         /\ step' = NextStep(half, lower)
         /\ out' = out \o <<Volume(mid), Volume(signal')>>
  /\ processed' = processed + 2 /\ todo' = todo - 2
  /\ UNCHANGED <<prom, cursor, packet, is_reset, ate, call, failed>>

Next == Open \/ Reset \/ (\E n \in Asks : Begin(n)) \/ Byte

Spec == Init /\ [][Next]_vars

-----------------------------------------------------------------------------
(* The reference: a PROM is one stream of nibbles.                         *)

\* The nibbles of the packets of p, high nibble first.
Nibbles(p) ==
  LET nibblesOf(bytes) == [i \in 1 .. 2 * Len(bytes) |->
                             LET b == bytes[(i + 1) \div 2]
                             IN  IF i % 2 = 1 THEN b \div 16 ELSE b % 16]
      upTo[k \in 0..Len(p)] == IF k = 0 THEN <<>> ELSE upTo[k - 1] \o nibblesOf(p[k])
  IN  upTo[Len(p)]

\* How many samples they make: one a nibble.
Length(p) ==
  LET upTo[k \in 0..Len(p)] == IF k = 0 THEN 0 ELSE upTo[k - 1] + 2 * Len(p[k])
  IN  upTo[Len(p)]

\* Every sample of the PROM.
Decoded(p) ==
  LET data == Nibbles(p)
      steps[k \in 0..Len(data)] ==
        IF k = 0 THEN MinStep ELSE NextStep(steps[k - 1], data[k])
      signals[k \in 0..Len(data)] ==
        IF k = 0 THEN 0 ELSE NextSignal(signals[k - 1], steps[k - 1], data[k])
  IN  [k \in DOMAIN data |-> Volume(signals[k])]

-----------------------------------------------------------------------------
(* Properties.                                                             *)

\* Every variable stays in its type and the decoder in its range: the amplitude
\* fits the 16 bits it is copied to, and the loop never reads behind its packet.
TypeOK ==
  /\ prom \in Proms /\ cursor \in Nat \ {0}
  /\ packet \in Seq(Bytes) /\ processed \in Nat
  /\ signal \in Signals /\ step \in Steps
  /\ is_reset \in BOOLEAN /\ ate \in BOOLEAN /\ failed \in BOOLEAN
  /\ todo \in Nat /\ todo % 2 = 0 /\ processed % 2 = 0
  /\ processed + todo <= nbsamples
  /\ call \in [op : {"none", "read", "reset"}, asked : Nat, got : Nat]
  /\ out \in Seq(Signals)

\* However a sample is cut into packets, and however its reader asks for it, what
\* has been read since the last rewind is the beginning of the whole decoded PROM:
\* nothing is skipped or decoded twice, and the decoder's state crosses packets.
\* The end is reported when all has been read, unless the PROM failed.
OutIsDecode ==
  /\ out = SubSeq(Decoded(prom), 1, Len(out))
  /\ ate => failed \/ Len(out) = Length(prom)

\* A call that asks for two samples or more and gets none finds the end: an output
\* that reads until the end, as transfer() of both output APIs, does not spin.
NoStall == call.op = "read" /\ call.asked >= 2 /\ call.got = 0 => ate

\* After a reset the next read starts from the first sample again, also when the
\* reset found nothing to do.  The end is not cleared for an empty PROM or one
\* that failed.
ResetRestarts ==
  call.op = "reset" =>
    /\ out = <<>> /\ processed = 0 /\ signal = 0 /\ step = MinStep
    /\ packet = <<>> \/ packet = prom[1]
    /\ ate => failed \/ prom = <<>>

\* What makes ResetRestarts inductive: the flag stands for a decoder at its start,
\* also after reads that returned nothing.
ResetInv ==
  /\ call.op = "none" => call.got = 0 /\ todo = 0
  /\ call.op = "reset" => is_reset
  /\ is_reset =>
       /\ todo = 0 /\ out = <<>> /\ processed = 0 /\ signal = 0 /\ step = MinStep
       /\ \/ packet = <<>> /\ cursor = 1
          \/ prom # <<>> /\ packet = prom[1]
       /\ ate => failed \/ prom = <<>>

-----------------------------------------------------------------------------
(* Refinement: this is a Sample.                                           *)

S == INSTANCE Sample WITH
       MayFail <- TRUE \in Failures,
       src <- [length |-> Length(prom), unit |-> 2, pos |-> Len(out) + todo,
               end |-> ate, fresh |-> is_reset \/ call.op = "none"]

\* The decoder keeps the promises the output APIs rely on, call by call.
IsSample == S!Spec
=============================================================================
