SPECIFICATION Spec
CONSTANTS
  MaxConns = 2
  Buckets = 1
  Addrs = {x1, x2}
  NoAddr = NoAddr
  AddrReuse = FALSE
  Callers = {}
  CheckActive = FALSE
  Writes = FALSE
  Stalls = FALSE
  IdResults = {"id"}
  ConnectedResults = {"ok"}
  ReadResults = {"ok"}
INVARIANT NoZombie
