SPECIFICATION Spec
CONSTANTS
  c1 = c1
  c2 = c2
  Conns = {c1}
  Buckets = {0}
  BucketOf <- OneConn
  Callers = {k1, k2}
  Paras <- TagParas
  Owners = {}
  Tags = {"t"}
  Props = {}
  AppOps = {"send", "tags"}
  TypeSet = TRUE
  Stalls = FALSE
  CheckActive = FALSE
INVARIANT NoMapFault
CHECK_DEADLOCK FALSE
