\* Both threads use one handle, one a second; they close without waiting and ignore failed opens.
SPECIFICATION Spec
CONSTANTS
  h1 = h1
  h2 = h2
  t1 = t1
  t2 = t2
  Handles = {h1, h2}
  Threads = {t1, t2}
  NULL = NULL
  Users <- OneShared
  Calls = {"play", "stop", "wait", "is_playing"}
  PipeCapacity = 2
  InitialChannels = 0
  WaitBeforeClose = FALSE
  ChecksOpen = FALSE
  MaxSync = 1
INVARIANTS
  IInv
  SampleLive
  ShutdownReleasesAll
