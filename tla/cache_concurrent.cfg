CONSTANTS
  Peers = {p1, p2}
  Workers = {w1, w2}
  Ops = {"isFriend", "befriend", "unfriend", "block", "unblock"}
  Faults = TRUE
SPECIFICATION FairSpec
INVARIANTS
  TypeOK
  FriendSetExpires
  FriendSetExact
PROPERTIES
  FriendSetConverges
