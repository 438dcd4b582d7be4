------------------------------- MODULE MCS5Prom -------------------------------
(* PROMs for TLC: an empty one, two of one and two packets, one that drives  *)
(* the amplitude and the step into each of their limits.                     *)
EXTENDS S5Prom

SmallProms ==
  {<<>>,
   << <<8, 240>> >>,
   << <<93>>, <<167, 44>> >>,
   << <<119, 119>>, <<119, 119, 119>>, <<255, 255>>, <<0, 136>> >>}
=============================================================================
