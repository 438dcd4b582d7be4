------------------------------- MODULE MCRhAudio -------------------------------
(* Instances of RhAudio for TLC: two handles, and two threads that own one   *)
(* each or share the first.                                                   *)
EXTENDS RhAudio, TLC

CONSTANTS h1, h2, t1, t2

OwnHandle == h1 :> {t1} @@ h2 :> {t2}
OneShared == h1 :> {t1, t2} @@ h2 :> {t2}
Shared    == h1 :> {t1, t2}

\* Exchanging the two owners together with their handles changes nothing.
SwapOwners ==
  {h1 :> h1 @@ h2 :> h2 @@ t1 :> t1 @@ t2 :> t2, h1 :> h2 @@ h2 :> h1 @@ t1 :> t2 @@ t2 :> t1}
=============================================================================
