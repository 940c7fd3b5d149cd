\* Three runs with two sends between them, one failure, a budget that holds two of their messages.
CONSTANTS
  SendIds = {1, 2}
  Sizes <- MCSizes
  Budget = 3
  HistoryLimit = 2
  Ids <- MCIds
  Setups <- MCSetups
  MaxRuns = 3
  MaxFaults = 1
SPECIFICATION Spec
INVARIANTS
  TypeOK
  RepliesFollowQuestions
PROPERTIES
  RequestHasItsQuestion
  SettingsSurvive
\* The runs and the ids are bounded.
CHECK_DEADLOCK FALSE
