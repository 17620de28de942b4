CONSTANTS
  Users = {a, b}
  MaxRequests = 2
  Workers = {w1, w2}
  Ops = {"send", "accept", "reject", "cancel", "unfriend", "block", "unblock"}
  Official = {}
  StaleCache = TRUE
  Nobody = Nobody
SPECIFICATION Spec
SYMMETRY Symmetry
INVARIANTS
  TypeOK
  NoMutualPending
  DeadlockNeedsRowFirst
PROPERTIES
  BlockCutsTies
  RequestLifecycle
  NoAcceptAcrossBlock
  AnswersTheRequest
  GraphSpec
