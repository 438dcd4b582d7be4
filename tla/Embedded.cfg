\* A file, a PROM and one without frames, two of them at a time, on a pool that grows; the device goes on
\* to its next period during a turn, and the ioctl may fail.
SPECIFICATION FairSpec
CONSTANTS
  file = file
  prom = prom
  blank = blank
  Samples = {file, prom, blank}
  Frames <- Lengths
  Unit <- Pairs
  CanMix = {prom, blank}
  NULL = NULL
  InitialChannels = 1
  Periods = 3
  Period = 2
  IoctlFails = TRUE
  MaxMoved = 1
  MaxUsed = 2
INVARIANTS
  TypeOK
  Told
  MixExact
PROPERTIES
  PlayedLeftAlone
  
  
