\* Five files read in pieces of one to four samples, reset at any time; seeking may fail.
\* A closed sample, or one that failed to open, is not used again.
SPECIFICATION FairSpec
CONSTANTS
  Files <- SomeFiles
  Asks = {1, 2, 4}
  SeekFails = {TRUE, FALSE}
  MaxOut = 12
INVARIANTS
  TypeOK
  InOrder
  EndExact
PROPERTY
  EndReached
CHECK_DEADLOCK FALSE
