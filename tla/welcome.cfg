CONSTANTS
  Workers = {w1, w2}
  MaxEvents = 2
  MaxRetries = 2
  QueueSize = 2
SPECIFICATION FairSpec
INVARIANTS
  TypeOK
  WelcomedOnce
  EventIsKept
PROPERTIES
  WelcomedInTheEnd
CHECK_DEADLOCK FALSE
