CONSTANTS
  Workers = {w1, w2}
  MaxEvents = 1
  MaxRetries = 3
  QueueSize = 4
SPECIFICATION Spec
SYMMETRY Symmetry
INVARIANT ReleasedIsRetried
CHECK_DEADLOCK FALSE
