SPECIFICATION Spec
CONSTANTS
  c1 = c1
  c2 = c2
  Conns = {c1}
  Buckets = {0, 1}
  BucketOf <- OneConn
  Callers = {k1, k2}
  Paras <- AnyPara
  Owners = {1}
  Tags = {"t"}
  Props <- Colors
  AppOps = {"send", "owner", "tags", "props"}
  TypeSet = TRUE
  Stalls = FALSE
  CheckActive = TRUE
SYMMETRY Symmetry
INVARIANT OnlyFit
PROPERTY Delivered
CHECK_DEADLOCK FALSE
