SPECIFICATION Spec
CONSTANTS
  MaxConns = 2
  Buckets = 1
  Addrs = {x1, x2}
  NoAddr = NoAddr
  AddrReuse = FALSE
  Callers = {k1}
  CheckActive = FALSE
  Writes = TRUE
  Stalls = FALSE
  IdResults = {"id"}
  ConnectedResults = {"ok"}
  ReadResults = {"ok"}
SYMMETRY Symmetry
INVARIANTS LiveInBucket LiveListed
PROPERTY ImplementsRegistry
