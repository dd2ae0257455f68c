SPECIFICATION Spec
CONSTANTS
  w1 = w1
  w2 = w2
  w3 = w3
  NoWorker = NoWorker
  Workers = {w1, w2}
  Clients = {"c1"}
  MaxJobs = 2
  Attrs <- MCOneAttr
  Limits <- MCNoLimits
  Ops <- MCLeaseOps
  Batches <- MCLeaseBatches
  ConfigConcurrency = 2
  StoredConcurrency <- MCNothingStored
  MaxRestarts = 1
  StoreCanFail = TRUE
SYMMETRY MCSymmetry
INVARIANTS
  ExclusiveExecution
PROPERTIES
  LeaseSpec
