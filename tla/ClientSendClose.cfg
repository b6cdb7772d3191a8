SPECIFICATION Spec
CONSTANTS
  Callers = {k1, k2}
  MaxDials = 2
  MaxReadErrors = 2
  AppOps = {"send", "close"}
  CallbackOps = {}
  ReadErrors = {"other"}
INVARIANT StaysClosed
