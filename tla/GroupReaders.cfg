SPECIFICATION Spec
CONSTANTS
  Conns = {c1, c2}
  NoConn = NoConn
  GroupIds = {1, 2}
  MaxObjs = 2
  Callers = {k1}
  Tickers = {}
  AppOps = {"create", "remove", "clear", "send"}
  CallbackOps = {"join", "quit"}
  QuitFirst = TRUE
  Stalls = TRUE
SYMMETRY Symmetry
INVARIANTS NoGhost GroupIdRight
PROPERTY OnlyMembersGet
