SPECIFICATION Spec
CONSTANTS
  c1 = c1
  c2 = c2
  Conns = {c1}
  Buckets = {0}
  BucketOf <- OneConn
  Callers = {k1, k2}
  Paras <- AllPara
  Owners = {}
  Tags = {}
  Props = {}
  AppOps = {"send", "write"}
  TypeSet = TRUE
  Stalls = FALSE
  CheckActive = FALSE
INVARIANT NoWritePanic
CHECK_DEADLOCK FALSE
