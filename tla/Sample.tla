-------------------------------- MODULE Sample --------------------------------
(***************************************************************************)
(* What the output APIs rely on in a sample (src/src/asmp/asmp.h): read()  *)
(* delivers the frames in their order, any number of them up to the one    *)
(* asked for; atend() is true once there is nothing more to read; reset()  *)
(* goes back to the first frame.  Neither says how a sample is decoded.    *)
(***************************************************************************)
EXTENDS Integers

CONSTANTS
  Asks,     \* the numbers of frames an output may ask for at a time
  MayFail   \* a read may end the sample before its last frame

VARIABLE src  \* the sample

\* A sample of n frames, which it delivers in multiples of u, opened or reset: the
\* frames read, the at-end flag, and whether nothing was read since.
AtStart(n, u) == [length |-> n, unit |-> u, pos |-> 0, end |-> FALSE, fresh |-> TRUE]

AfterReset(s) == IF s.fresh THEN s ELSE AtStart(s.length, s.unit)

\* The sample after k of its frames were read.
Advance(s, k, e) ==
  [length |-> s.length, unit |-> s.unit, pos |-> s.pos + k, end |-> e, fresh |-> s.fresh /\ k = 0]

\* The samples that read(n) may leave behind.  The end is found by a read that
\* delivers nothing, and one that asks for enough and delivers nothing finds it.
AfterRead(s, n) ==
  LET most == IF n < s.length - s.pos THEN n ELSE s.length - s.pos
      more == {Advance(s, k, s.end) : k \in {i \in 1..most : i % s.unit = 0}}
      none == {Advance(s, 0, e) : e \in {s.end, TRUE}}
  IN  more \cup {t \in none :
                   /\ n >= s.unit => t.end
                   /\ t.end /\ ~s.end => MayFail \/ s.pos = s.length}

Init == src.length \in Nat /\ src = AtStart(src.length, src.unit)

Next ==
  \/ src' = AfterReset(src)
  \/ \E n \in Asks : src' \in AfterRead(src, n)

Spec == Init /\ [][Next]_src
=============================================================================
