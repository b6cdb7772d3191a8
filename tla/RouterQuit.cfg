SPECIFICATION QuitSpec
CONSTANTS
  MaxConns = 1
  Buckets = 2
  Addrs = {x1}
  NoAddr = NoAddr
  AddrReuse = FALSE
  Callers = {k1}
  CheckActive = TRUE
  Writes = TRUE
  Stalls = TRUE
  IdResults = {"id", "none"}
  ConnectedResults = {"ok"}
  ReadResults = {"ok"}
INVARIANTS QuitTypeOK OnlyLateRemain
