SPECIFICATION Spec
CONSTANTS
  Conns = {c1, c2}
  NoConn = NoConn
  GroupIds = {1}
  MaxObjs = 2
  Callers = {k1, k2}
  Tickers = {}
  AppOps = {"create"}
  CallbackOps = {"join"}
  QuitFirst = TRUE
  Stalls = FALSE
SYMMETRY Symmetry
INVARIANT MembershipHeld
