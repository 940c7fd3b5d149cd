\* Two calls, one change of configuration or interceptors, one failure.
CONSTANTS
  c1 = c1
  c2 = c2
  Workloads <- MCWorkloads
  Queries <- MCQueries
  FirstConfig <- MCFirstConfig
  Configs <- MCConfigs
  Installed <- MCInstalled
  Tokens = {"t1", "t2"}
  Within <- MCWithin
  MaxEdits = 1
  MaxThrows = 1
SPECIFICATION Spec
INVARIANTS
  TypeOK
  CallIsSentAsMade
  ServerReadsParameters
  OutcomeIsTruthful
PROPERTIES
  InterceptorsRunOnce
\* Every call may be settled.
CHECK_DEADLOCK FALSE
