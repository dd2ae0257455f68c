SPECIFICATION Spec
CONSTANTS
  w1 = w1
  w2 = w2
  w3 = w3
  NoWorker = NoWorker
  Workers = {w1, w2}
  Clients = {"c1"}
  MaxJobs = 2
  Attrs <- MCOneAttr
  Limits <- MCNoLimits
  Ops <- MCCancelOps
  Batches <- MCNoBatches
  ConfigConcurrency = 2
  StoredConcurrency <- MCNothingStored
  MaxRestarts = 0
  StoreCanFail = FALSE
PROPERTIES
  CancelledIsFinal
