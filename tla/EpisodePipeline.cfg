\* One span, two executions at a time, three faults; a job is tried twice.
CONSTANTS
  Spans = {s1}
  Slots = {1, 2}
  JobIds = {1, 2, 3, 4, 5}
  NoSlot = 0
  NoJob = 0
  NoSpan = NoSpan
  MaxAttempts = 2
  MaxFaults = 3
SPECIFICATION FairSpec
INVARIANTS
  TypeOK
  ApplicationsBounded
  NoSpanStranded
  DoneIsReliable
PROPERTIES
  SettledForGood
  SpansGetConsolidated

\* Every span may be pushed and every job done: nothing is left to do.
CHECK_DEADLOCK FALSE
