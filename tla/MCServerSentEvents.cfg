\* Three events, two failing requests or connections, every cut of the text.
CONSTANTS
  Log <- MCLog
  JsonEvents = {3}
  LineEnds = {"LF", "CR"}
  RetryLimits = {0, 2}
  DefaultDelay = 3000
  MaxDelay = 10000
  MaxFaults = 2
SPECIFICATION FairSpec
PROPERTIES
  RefinesStream
  BackoffGrows
  AbortEnds
  StreamCatchesUp
\* The generator ends.
CHECK_DEADLOCK FALSE
