\* As RhAudioExclusive, but the application closes a handle without waiting.
SPECIFICATION Spec
CONSTANTS
  h1 = h1
  h2 = h2
  t1 = t1
  t2 = t2
  Handles = {h1, h2}
  Threads = {t1, t2}
  NULL = NULL
  Users <- OwnHandle
  Calls = {"play", "wait"}
  PipeCapacity = 1
  InitialChannels = 1
  WaitBeforeClose = FALSE
  ChecksOpen = TRUE
  MaxSync = 5
INVARIANT
  ClosedIsQuiet
