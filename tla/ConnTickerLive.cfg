SPECIFICATION FairSpec
CONSTANTS
  MaxConns = 1
  Buckets = 1
  Addrs = {x1}
  NoAddr = NoAddr
  AddrReuse = FALSE
  Callers = {k1}
  CheckActive = TRUE
  Writes = TRUE
  Stalls = TRUE
  IdResults = {"id"}
  ConnectedResults = {"ok"}
  ReadResults = {"ok", "panic"}
PROPERTIES DeadIsCleaned DeadIsReclaimed CallsReturn
