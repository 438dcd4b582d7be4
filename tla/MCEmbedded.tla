------------------------------ MODULE MCEmbedded ------------------------------
(* Instances of Embedded: a file that fills a period and cannot be mixed, a  *)
(* PROM that can and that ends, or loops, within one, and a PROM without      *)
(* frames.                                                                    *)
EXTENDS Embedded, TLC

CONSTANTS file, prom, blank

Lengths == file :> 2 @@ prom :> 1 @@ blank :> 0
Pairs   == file :> 1 @@ prom :> 1 @@ blank :> 2
=============================================================================
