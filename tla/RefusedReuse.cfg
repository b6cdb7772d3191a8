SPECIFICATION Spec
CONSTANTS
  MaxConns = 3
  Buckets = 1
  Addrs = {x1, x2}
  NoAddr = NoAddr
  AddrReuse = TRUE
  Callers = {}
  CheckActive = FALSE
  Writes = FALSE
  Stalls = FALSE
  IdResults = {"id"}
  ConnectedResults = {"ok", "error"}
  ReadResults = {"ok"}
INVARIANT RefusedIsClosed
