SPECIFICATION SecondSpec
CONSTANTS
  w1 = w1
  w2 = w2
  NoWorker = NoWorker
  Workers = {w1, w2}
  Clients = {"c1"}
  MaxJobs = 1
  Attrs <- MCOneAttr
  Limits <- MCNothing
  Ops <- MCEnqueueOnly
  Batches <- MCNothing
  ConfigConcurrency = 2
  StoredConcurrency <- MCNothingStored
  MaxRestarts = 0
  StoreCanFail = FALSE
PROPERTIES
  OnlyOrphansRecovered
