CONSTANTS
  MaxMessages = 2
  Limit = 1
  Conns = {c1}
  Poller = poller
  NoConn = NoConn
  Polling = TRUE
  Faults = {"network", "sender"}
SPECIFICATION FairSpec
INVARIANTS
  TypeOK
  ReadIsDelivered
PROPERTIES
  EveryMessageArrives
