SPECIFICATION Spec
CONSTANTS
  Callers = {k1, k2, k3}
  MaxDials = 2
  MaxReadErrors = 2
  AppOps = {"send", "close"}
  CallbackOps = {}
  ReadErrors = {"epipe", "other"}
INVARIANT OneDial
