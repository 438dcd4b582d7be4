\* The channel changes formats and modes; the device may refuse to
\* open, empties and is suspended or unplugged at any time.
SPECIFICATION Spec
CONSTANTS
  s1 = s1
  s2 = s2
  s3 = s3
  Samples = {s1, s2}
  Frames <- LongAndShort
  Format <- TwoFormats
  NULL = NULL
  Unit <- OneAndTwo
  Period = 3
  Buffer = 8
  Modes = {"mmap", "rw"}
  OpenFails = {"pcm", "hw", "sw"}
  CanVanish = TRUE
  SlowDevice = FALSE
INVARIANTS
  TypeOK
  Told
  OpenInFormat
  Seamless
PROPERTY
  PlayedOut
