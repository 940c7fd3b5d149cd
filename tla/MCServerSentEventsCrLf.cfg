\* Line ends of two characters that the network may cut apart.
CONSTANTS
  Log <- MCLog
  JsonEvents = {3}
  LineEnds = {"CRLF"}
  RetryLimits = {2}
  DefaultDelay = 3000
  MaxDelay = 10000
  MaxFaults = 1
SPECIFICATION Spec
INVARIANT EventsAreWhole
CHECK_DEADLOCK FALSE
