\* The same instance without faults and empty batches, under fairness.
CONSTANTS
  Clients = {c1}
  Workers = {w1, w2}
  JobIds = {j1, j2, j3}
  NoWorker = NoWorker
  NoJob = NoJob
  MaxMessages = 3
  MaxBatch = 2
  EmptyBatches = FALSE
  PendingTrigger = 2
  MaxFaults = 0
SPECIFICATION FairSpec
PROPERTIES
  LeaseEventuallyEnds
  SpansReachEpisodes
  QueueDrains
