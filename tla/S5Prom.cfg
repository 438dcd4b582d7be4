\* Four PROMs read in pieces of one to five samples; the PROM may fail at any read.
SPECIFICATION Spec
CONSTANTS
  Proms <- SmallProms
  Asks = {1, 2, 3, 5}
  Failures = {TRUE, FALSE}
INVARIANTS
  TypeOK
  OutIsDecode
  ResetRestarts
PROPERTY
  IsSample
