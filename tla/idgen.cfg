CONSTANTS
  Procs = {p1, p2}
  NoOne = NoOne
  MaxWorkerID = 1
  MaxSequence = 1
  MaxMS = 1
SPECIFICATION Spec
SYMMETRY Symmetry
INVARIANTS
  TypeOK
  UniqueIDs
PROPERTIES
  SourceSpec
CHECK_DEADLOCK FALSE
