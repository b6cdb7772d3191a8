SPECIFICATION Spec
CONSTANTS
  k1 = k1
  k2 = k2
  Callers = {k1}
  Ops <- Alone
  Types = {"json", "octet"}
  MaxClients = 2
  MaxSets = 1
  MaxBeats = 0
INVARIANT NewHasSettings
