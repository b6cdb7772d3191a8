SPECIFICATION FairSpec
CONSTANTS
  k1 = k1
  k2 = k2
  Callers = {k1, k2}
  Ops <- Everybody
  Types = {"json", "octet"}
  MaxClients = 1
  MaxSets = 2
  MaxBeats = 1
PROPERTY CallsReturn
CHECK_DEADLOCK FALSE
