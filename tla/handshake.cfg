CONSTANTS
  A = A
  B = B
  Window = 0
  Parts = 2
  MaxTime = 1
  CallsA = 2
  CallsB = 1
  MaxFaults = 1
SPECIFICATION FairSpec
INVARIANTS
  TypeOK
  Earned
  ShownIsSaved
  FeedbackArrives
  ArmedOrStranded
PROPERTIES
  Met
CHECK_DEADLOCK FALSE
