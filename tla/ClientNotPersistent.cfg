SPECIFICATION FairSpec
CONSTANTS
  Callers = {k1}
  MaxDials = 2
  MaxReadErrors = 2
  AppOps = {"send"}
  CallbackOps = {}
  ReadErrors = {"epipe", "other"}
PROPERTY Persistent
