\* One worker and one fault: it may stop between its commit and its push.
CONSTANTS
  Clients = {c1}
  Workers = {w1}
  JobIds = {j1, j2}
  NoWorker = NoWorker
  NoJob = NoJob
  MaxMessages = 2
  MaxBatch = 2
  EmptyBatches = FALSE
  PendingTrigger = 2
  MaxFaults = 1
SPECIFICATION FairSpec
PROPERTY SpansReachEpisodes
