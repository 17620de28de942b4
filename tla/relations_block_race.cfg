CONSTANTS
  Users = {a, b}
  MaxRequests = 3
  Workers = {w1, w2, w3}
  Ops = {"send", "block"}
  Official = {}
  StaleCache = FALSE
  Nobody = Nobody
SPECIFICATION Spec
SYMMETRY Symmetry
INVARIANTS
  NoFriendAcrossBlock
