SPECIFICATION FairSpec
CONSTANTS
  Conns = {c1}
  NoConn = NoConn
  GroupIds = {1}
  MaxObjs = 2
  Callers = {k1}
  Tickers = {t1}
  AppOps = {"create"}
  CallbackOps = {"join", "send"}
  QuitFirst = TRUE
  Stalls = TRUE
PROPERTY CallsReturn
