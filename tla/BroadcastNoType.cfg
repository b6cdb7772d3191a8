SPECIFICATION Spec
CONSTANTS
  c1 = c1
  c2 = c2
  Conns = {c1}
  Buckets = {0}
  BucketOf <- OneConn
  Callers = {k1}
  Paras <- AllPara
  Owners = {}
  Tags = {}
  Props = {}
  AppOps = {"send"}
  TypeSet = FALSE
  Stalls = FALSE
  CheckActive = FALSE
PROPERTY Delivered
CHECK_DEADLOCK FALSE
