SPECIFICATION FairSpec
CONSTANTS
  w1 = w1
  w2 = w2
  w3 = w3
  NoWorker = NoWorker
  Workers = {w1, w2}
  Clients = {"c1"}
  MaxJobs = 2
  Attrs <- MCOneAttr
  Limits <- MCNoLimits
  Ops <- MCCancelOps
  Batches <- MCNoBatches
  ConfigConcurrency = 2
  StoredConcurrency <- MCOneOrTwo
  MaxRestarts = 1
  StoreCanFail = FALSE
INVARIANTS
  OneAtATime
PROPERTIES
  EveryJobSettles
  StopEnds
