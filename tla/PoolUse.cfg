SPECIFICATION FairSpec
CONSTANTS
  k1 = k1
  k2 = k2
  Callers = {k1, k2}
  Ops <- OneBeater
  Types = {"json"}
  MaxClients = 2
  MaxSets = 2
  MaxBeats = 1
INVARIANTS TypeOK LeftIsClosed SettingsReach
PROPERTY CallsReturn
