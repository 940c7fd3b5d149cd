\* A batch import that comes while a lease is out, under fairness, no faults.
CONSTANTS
  Clients = {c1}
  Workers = {w1, w2}
  JobIds = {j1, j2, j3}
  NoWorker = NoWorker
  NoJob = NoJob
  MaxMessages = 3
  MaxBatch = 2
  EmptyBatches = FALSE
  PendingTrigger = 2
  MaxFaults = 0
SPECIFICATION FairSpec
PROPERTIES
  EofIsHonoured
