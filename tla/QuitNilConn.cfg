SPECIFICATION QuitSpec
CONSTANTS
  MaxConns = 1
  Buckets = 1
  Addrs = {x1}
  NoAddr = NoAddr
  AddrReuse = FALSE
  Callers = {}
  CheckActive = FALSE
  Writes = FALSE
  Stalls = FALSE
  IdResults = {"id"}
  ConnectedResults = {"ok"}
  ReadResults = {"ok"}
INVARIANT NeverLost
