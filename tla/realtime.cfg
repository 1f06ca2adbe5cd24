CONSTANTS
  RING_COUNT = 2
  iters = 2
  threaded <- Threaded
  Lossy = TRUE
  Orderly = TRUE
  MaxSpikes <- FromMaster
  MaxForeign = 1
  MaxSyncs = 2
SPECIFICATION FairSpec
INVARIANTS
  HeldIntact
  InOrderOnce
  SampleMatches
PROPERTIES
  SyncEnds
CHECK_DEADLOCK FALSE
