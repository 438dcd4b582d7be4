\* Each thread uses its own handle and waits before it closes it.
SPECIFICATION Spec
CONSTANTS
  h1 = h1
  h2 = h2
  t1 = t1
  t2 = t2
  Handles = {h1, h2}
  Threads = {t1, t2}
  NULL = NULL
  Users <- OwnHandle
  Calls = {"play", "loop", "stop", "wait"}
  PipeCapacity = 2
  InitialChannels = 1
  WaitBeforeClose = TRUE
  ChecksOpen = TRUE
  MaxSync = 5
SYMMETRY SwapOwners
INVARIANTS
  OneChannel
  PlayingAgrees
  SyncExact
  ClosedIsQuiet
PROPERTIES
  PoolGrowsWhenBound
  IsPlayer
