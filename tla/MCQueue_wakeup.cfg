SPECIFICATION Spec
CONSTANTS
  w1 = w1
  w2 = w2
  w3 = w3
  NoWorker = NoWorker
  Workers = {w1, w2}
  Clients = {"c1"}
  MaxJobs = 2
  Attrs <- MCOneAttr
  Limits <- MCOneOrTwo
  Ops <- MCWakeupOps
  Batches <- MCWakeupBatches
  ConfigConcurrency = 2
  StoredConcurrency <- MCNothingStored
  MaxRestarts = 0
  StoreCanFail = FALSE
SYMMETRY MCSymmetry
INVARIANTS
  NoLostWakeup
