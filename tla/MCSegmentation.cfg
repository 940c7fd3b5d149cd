\* Two workers, one request at a time, three messages, one crash, error or stall.
CONSTANTS
  Clients = {c1}
  Workers = {w1, w2}
  JobIds = {j1, j2, j3}
  NoWorker = NoWorker
  NoJob = NoJob
  MaxMessages = 3
  MaxBatch = 2
  EmptyBatches = TRUE
  PendingTrigger = 2
  MaxFaults = 1
SPECIFICATION Spec
SYMMETRY Symmetry
INVARIANTS
  TypeOK
  FinalizedPrefixTiled
  LeaseCoversPending
  LeaseHasOneCarrier
PROPERTIES
  LeaseEndsByItsHolder
  TailStaysOpen
  RefinesLog
