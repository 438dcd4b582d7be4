---------------------------- MODULE MCAlsaChannel ----------------------------
(* Instances of AlsaChannel: two samples of two formats, one of which        *)
(* delivers any number of frames, the other an even number; and an empty one. *)
EXTENDS AlsaChannel, TLC

CONSTANTS s1, s2, s3

LongAndShort == s1 :> 5 @@ s2 :> 4
OneAndTwo    == s1 :> 1 @@ s2 :> 2
AndEmpty     == LongAndShort @@ s3 :> 0
AndOne       == OneAndTwo @@ s3 :> 1
TwoFormats   == s1 :> "ffmpeg" @@ s2 :> "adpcm"
AndThird     == TwoFormats @@ s3 :> "adpcm"
=============================================================================
