SPECIFICATION Spec
CONSTANTS
  w1 = w1
  w2 = w2
  w3 = w3
  NoWorker = NoWorker
  Workers = {w1, w2, w3}
  Clients = {"c1"}
  MaxJobs = 3
  Attrs <- MCOneAttr
  Limits <- MCNoLimits
  Ops <- MCEnqueueOnly
  Batches <- MCNoBatches
  ConfigConcurrency = 2
  StoredConcurrency <- MCNothingStored
  MaxRestarts = 0
  StoreCanFail = FALSE
INVARIANTS
  ConcurrencyLimit
