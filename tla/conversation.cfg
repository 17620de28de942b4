CONSTANTS
  Initiator = initiator
  Owner = owner
  Workers = {w1, w2}
  MaxInitiatorMsgs = 2
  MaxMessages = 4
  MayBeFriends = TRUE
  Faults = {"txFails", "crash", "iceExpires"}
SPECIFICATION FairSpec
INVARIANTS
  TypeOK
  IceWindow
  BrokenMeansBothSpeak
PROPERTIES
  ClosedIsSeen
