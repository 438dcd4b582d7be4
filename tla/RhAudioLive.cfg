\* As RhAudioExclusive, under the fairness of the scheduler, for an application that
\* goes on when open() has failed.
SPECIFICATION FairSpec
CONSTANTS
  h1 = h1
  h2 = h2
  t1 = t1
  t2 = t2
  Handles = {h1, h2}
  Threads = {t1, t2}
  NULL = NULL
  Users <- OwnHandle
  Calls = {"play", "wait", "is_playing"}
  PipeCapacity = 1
  InitialChannels = 1
  WaitBeforeClose = TRUE
  ChecksOpen = FALSE
  MaxSync = 1
PROPERTIES
  SyncReturns
  RequestReturns
  WaitReturns
  ShutdownCompletes
