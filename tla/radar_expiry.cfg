CONSTANTS
  Callers = {c1}
  Ttl = 1
  MaxTime = 2
  MaxMatches = 2
SPECIFICATION Spec
INVARIANTS
  RadarAnswers
CHECK_DEADLOCK FALSE
