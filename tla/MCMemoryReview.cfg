\* Two pending reviews of two memories, two jobs at a time, two faults.
CONSTANTS
  Memories = {m1, m2}
  m1 = m1
  m2 = m2
  Items = {1, 2}
  Found <- MCFound
  Takers = {1, 2}
  Slots = {1, 2}
  JobIds = {1, 2}
  NoSlot = 0
  NoJob = 0
  Day = 2
  MaxTime = 3
  MaxAttempts = 2
  MaxFaults = 2
SPECIFICATION FairSpec
INVARIANTS
  TypeOK
  ReviewsSpaced
  FinishedJobIsComplete
  ItemsAccounted
PROPERTIES
  SoleReviewExtends
  ReviewsSettle
\* Every item may be settled and the clock at its bound.
CHECK_DEADLOCK FALSE
