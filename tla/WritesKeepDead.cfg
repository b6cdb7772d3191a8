SPECIFICATION FairSpec
CONSTANTS
  MaxConns = 1
  Buckets = 1
  Addrs = {x1}
  NoAddr = NoAddr
  AddrReuse = FALSE
  Callers = {}
  CheckActive = TRUE
  Writes = TRUE
  Stalls = FALSE
  IdResults = {"id"}
  ConnectedResults = {"ok"}
  ReadResults = {"ok"}
PROPERTY WrittenIsReclaimed
