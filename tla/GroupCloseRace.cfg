SPECIFICATION Spec
CONSTANTS
  Conns = {c1, c2}
  NoConn = NoConn
  GroupIds = {1}
  MaxObjs = 2
  Callers = {k1}
  Tickers = {}
  AppOps = {"create", "close"}
  CallbackOps = {"join"}
  QuitFirst = TRUE
  Stalls = FALSE
SYMMETRY Symmetry
INVARIANT NoGhost
