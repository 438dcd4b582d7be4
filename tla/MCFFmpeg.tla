------------------------------- MODULE MCFFmpeg -------------------------------
(* Instances of FFmpeg: an empty file, a frame, frames of different lengths    *)
(* between packets of another stream, and one that is damaged.                 *)
EXTENDS FFmpeg

SomeFiles == {<<>>, <<3>>, <<2, 0, 3, 1, 2>>, <<1, 3, 0>>, <<2, -1, 0, 2>>}
=============================================================================
