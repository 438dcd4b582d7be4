-------------------------------- MODULE FFmpeg --------------------------------
(***************************************************************************)
(* The audio sample that reads a file through FFmpeg, src/src/asmp/        *)
(* i_ffmpeg.c: open, read, atend, reset and the last close.  libavformat   *)
(* hands out packets, libavcodec turns them into frames of samples, and    *)
(* read() cuts the frames into what its caller asks for.  A sample of the  *)
(* file is its position in the file.                                       *)
(***************************************************************************)
EXTENDS Integers, Sequences, FiniteSetsExt

CONSTANTS
  Files,      \* the files: sequences of packets (see Packets)
  Asks,       \* the numbers of samples an output may ask for at a time
  SeekFails,  \* the outcomes of av_seek_frame: {FALSE}, or BOOLEAN if it can fail
  MaxOut      \* bound: samples read after the end is reported

\* A packet decodes to a frame of so many samples, or to none (0: it belongs to
\* another stream, or completes no frame), or not at all (-1).
Packets == Nat \cup {-1}

ASSUME FFmpegAssumptions ==
  /\ Files \subseteq Seq(Packets)
  /\ Asks \subseteq Nat \ {0}
  /\ SeekFails \subseteq BOOLEAN /\ FALSE \in SeekFails
  /\ MaxOut \in Nat

VARIABLES
  file,       \* the file
  state,      \* of the sample: "created", "open", "failed", "closed"
  cursor,     \* the packet av_read_frame hands out next
  pFrame,     \* the decoded frame: its first sample, and nb_samples
  processed,  \* processedSamples
  ate,        \* end of stream
  call,       \* the last call
  out,        \* every sample read since the sample was opened or reset
  stale,      \* what the frame decoded before the last reset had left
  lost        \* a packet could not be decoded, or a seek failed, since then

frames == <<cursor, pFrame, processed>>
record == <<call, out, stale, lost>>
vars   == <<file, state, frames, ate, record>>

NoFrame == [first |-> 1, nb_samples |-> 0]

\* The k samples of frame f that follow the first p.
Part(f, p, k) == [i \in 1..k |-> f.first + p + i - 1]

\* The samples in packet k of the file, and in those before packet c.
Carried(k) == IF file[k] > 0 THEN file[k] ELSE 0
Before(c) ==
  LET sum[k \in 1..c] == IF k = 1 THEN 0 ELSE sum[k - 1] + Carried(k - 1)
  IN  sum[c]

Total  == Before(Len(file) + 1)
Stream == [i \in 1..Total |-> i]

-----------------------------------------------------------------------------
\* rh_asmp_create_ffmpeg: calloc.
Init ==
  /\ file \in Files /\ state = "created"
  /\ cursor = 1 /\ pFrame = NoFrame /\ processed = 0 /\ ate = FALSE
  /\ call = "none" /\ out = <<>> /\ stale = <<>> /\ lost = FALSE

\* _impl_open: succeeds or undoes what it did.
Open ==
  /\ state = "created"
  /\ state' \in {"open", "failed"}
  /\ call' = "open"
  /\ UNCHANGED <<file, frames, ate, out, stale, lost>>

\* The packets from the cursor on that end the search of _ff_read_packet.
Ending == {c \in cursor..Len(file) : file[c] # 0}

\* A frame the decoder did not complete: it leaves the old one, or clears it.
Incomplete(passed) == IF passed THEN pFrame' \in {pFrame, NoFrame} ELSE pFrame' = pFrame

\* (Mutants of ReadPacket: the end is not noticed, comes with the last frame, or a
\* packet is skipped.)
ReadPacketMissesEnd ==
  IF Ending = {}
  THEN /\ cursor' = Len(file) + 1
       /\ Incomplete(cursor <= Len(file))
       /\ UNCHANGED <<ate, lost>>
  ELSE LET c == Min(Ending) IN
       /\ cursor' = c + 1
       /\ IF file[c] > 0
          THEN pFrame' = [first |-> Before(c) + 1, nb_samples |-> file[c]] /\ lost' = lost
          ELSE Incomplete(TRUE) /\ lost' = TRUE
       /\ UNCHANGED ate
ReadPacketEndsEarly ==
  LET c == Min(Ending \cup {Len(file)}) IN
  /\ Ending # {}
  /\ cursor' = c + 1
  /\ pFrame' = [first |-> Before(c) + 1, nb_samples |-> Carried(c)]
  /\ ate' = (ate \/ c = Len(file))
  /\ UNCHANGED lost
ReadPacketSkips ==
  /\ cursor' = Min({Min(Ending \cup {Len(file)}) + 2, Len(file) + 1})
  /\ pFrame' = IF Ending = {} THEN pFrame
               ELSE [first |-> Before(Min(Ending)) + 1, nb_samples |-> Carried(Min(Ending))]
  /\ ate' = (ate \/ Ending = {})
  /\ UNCHANGED lost

\* _ff_read_packet: up to a frame, an error or the end of the file.
ReadPacket ==
  IF Ending = {}
  THEN /\ cursor' = Len(file) + 1
       /\ Incomplete(cursor <= Len(file))
       /\ ate' = TRUE /\ UNCHANGED lost
  ELSE LET c == Min(Ending) IN
       /\ cursor' = c + 1
       /\ IF file[c] > 0
          THEN pFrame' = [first |-> Before(c) + 1, nb_samples |-> file[c]] /\ lost' = lost
          ELSE Incomplete(TRUE) /\ lost' = TRUE
       /\ UNCHANGED ate

\* (Mutant of Given: the frame may be shorter.)
GivenAll(asked, left) == asked

Given(asked, left) == IF asked > left THEN left ELSE asked

\* _impl_read: what a used-up frame is replaced with, if anything, and the copy.
Read(n) ==
  /\ state = "open" /\ (ate => Len(out) <= MaxOut)
  /\ IF processed >= pFrame.nb_samples THEN ReadPacket ELSE UNCHANGED <<cursor, pFrame, ate, lost>>
  /\ LET from    == IF processed >= pFrame.nb_samples THEN 0 ELSE processed
         samples == Given(n, pFrame'.nb_samples - from)
     IN  /\ out' = out \o Part(pFrame', from, samples)
         /\ processed' = from + samples
  /\ call' = "read"
  /\ UNCHANGED <<file, state, stale>>

\* _impl_reset: the file is rewound; the frame stays as it is.
Reset ==
  /\ state = "open"
  /\ \E fails \in SeekFails :
       /\ cursor' = IF fails THEN cursor ELSE 1
       /\ lost' = fails
  /\ ate' = FALSE
  /\ call' = "reset" /\ out' = <<>>
  /\ stale' = Part(pFrame, processed, pFrame.nb_samples - processed)
  /\ UNCHANGED <<file, state, pFrame, processed>>

\* _impl_close, for the last reference.
Close ==
  /\ state = "open"
  /\ state' = "closed"
  /\ UNCHANGED <<file, frames, ate, record>>

Reads == \E n \in Asks : Read(n)

Next == Open \/ Reads \/ Reset \/ Close

Spec == Init /\ [][Next]_vars

\* An output reads the sample it plays.
FairSpec == Spec /\ WF_vars(Reads)

-----------------------------------------------------------------------------
(* Properties.                                                             *)

\* Every variable stays in its type, and read() never copies from behind the frame.
TypeOK ==
  /\ file \in Files /\ state \in {"created", "open", "failed", "closed"}
  /\ cursor \in 1..(Len(file) + 1)
  /\ pFrame \in [first : Nat \ {0}, nb_samples : Nat]
  /\ pFrame.first + pFrame.nb_samples <= Total + 1
  /\ processed \in 0..pFrame.nb_samples
  /\ ate \in BOOLEAN /\ lost \in BOOLEAN /\ call \in {"none", "open", "read", "reset"}
  /\ out \in Seq(1..Total) /\ stale \in Seq(1..Total)

\* However the file is cut into packets and the reads into numbers of samples, what
\* is read until the end are the samples of the file in their order, without a gap
\* and none twice.  After a reset they follow what was left of the frame decoded
\* before it, and nothing else.
InOrder == ~ate /\ ~lost => out = SubSeq(stale \o Stream, 1, Len(out))

\* When the end is reported the whole file has been read, and what was read behind
\* it is the last frame again.
EndExact ==
  ate /\ ~lost =>
    LET whole == stale \o Stream IN
    /\ Len(out) >= Len(whole)
    /\ \A i \in 1..Len(out) :
         IF i <= Len(whole) THEN out[i] = whole[i]
         ELSE out[i] \in pFrame.first .. (pFrame.first + pFrame.nb_samples - 1)

\* Who keeps reading comes to the end, also of a file that cannot be decoded or
\* rewound: the inner loop of transfer() ends because a read that returns nothing
\* has taken a packet.
EndReached ==
  state = "open" /\ call = "read" /\ ~ate ~> ate \/ call = "reset" \/ state = "closed"
=============================================================================
