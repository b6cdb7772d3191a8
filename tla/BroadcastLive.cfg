SPECIFICATION LiveSpec
CONSTANTS
  c1 = c1
  c2 = c2
  Conns = {c1, c2}
  Buckets = {0}
  BucketOf <- Together
  Callers = {k1}
  Paras <- AllPara
  Owners = {}
  Tags = {}
  Props = {}
  AppOps = {"send", "write"}
  TypeSet = TRUE
  Stalls = TRUE
  CheckActive = TRUE
INVARIANT TypeOK
PROPERTIES SendsReturn AcceptReturns Delivered
CHECK_DEADLOCK FALSE
