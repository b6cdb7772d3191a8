SPECIFICATION Spec
CONSTANTS
  MaxConns = 3
  Buckets = 1
  Addrs = {x1, x2, x3}
  NoAddr = NoAddr
  AddrReuse = FALSE
  Callers = {}
  CheckActive = FALSE
  Writes = FALSE
  Stalls = FALSE
  IdResults = {"id"}
  ConnectedResults = {"ok"}
  ReadResults = {"ok", "panic"}
SYMMETRY Symmetry
INVARIANT CountExact
