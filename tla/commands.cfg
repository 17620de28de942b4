CONSTANTS
  Calls = {u1, u2}
  Keys = {k1, k2}
  Runtimes = {r1, r2}
  NoRuntime = NoRuntime
  MaxCommands = 2
  MaxEpoch = 2
SPECIFICATION Spec
SYMMETRY Symmetry
INVARIANTS
  TypeOK
  ActedOnce
  Fenced
  AnsweredByItsOwn
  ClaimsAreCounted
PROPERTIES
  ChoiceSpec
CHECK_DEADLOCK FALSE
