CONSTANTS
  Users = {a, b}
  MaxRequests = 1
  Workers = {w1, w2}
  Ops = {"send", "welcome", "accept", "unfriend", "block", "unblock"}
  Official = {b}
  StaleCache = FALSE
  Nobody = Nobody
SPECIFICATION FairSpec
PROPERTIES
  Consent
  CallsReturn
