SPECIFICATION FairSpec
CONSTANTS
  Conns = {c1}
  NoConn = NoConn
  GroupIds = {1}
  MaxObjs = 2
  Callers = {k1}
  Tickers = {t1}
  AppOps = {"create", "send", "close"}
  CallbackOps = {"join"}
  QuitFirst = TRUE
  Stalls = FALSE
INVARIANTS TypeOK MembershipHeld
PROPERTIES DeadLeaves CallsReturn
