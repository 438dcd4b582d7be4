\* update() is fast against the device, which may go away for good; one sample is empty,
\* another delivers even numbers of frames into a ring buffer of odd size.
SPECIFICATION FairSpec
CONSTANTS
  s1 = s1
  s2 = s2
  s3 = s3
  Samples = {s1, s2, s3}
  Frames <- AndEmpty
  Format <- AndThird
  NULL = NULL
  Unit <- AndOne
  Period = 3
  Buffer = 7
  Modes = {"mmap", "rw"}
  OpenFails = {}
  CanVanish = TRUE
  SlowDevice = TRUE
PROPERTIES
  PlayingEnds
  
