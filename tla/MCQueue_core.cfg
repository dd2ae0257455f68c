SPECIFICATION Spec
CONSTANTS
  w1 = w1
  w2 = w2
  w3 = w3
  NoWorker = NoWorker
  Workers = {w1, w2}
  Clients = {"c1"}
  MaxJobs = 2
  Attrs <- MCSmallBudget
  Limits <- MCNoLimits
  Ops <- MCCoreOps
  Batches <- MCNoBatches
  ConfigConcurrency = 2
  StoredConcurrency <- MCNothingStored
  MaxRestarts = 1
  StoreCanFail = FALSE
SYMMETRY MCSymmetry
INVARIANTS
  TypeOK
  RetryBudget
  QuarantineExplained
  RunningHasOwner
  EntriesAreLive
PROPERTIES
  CleanStop
