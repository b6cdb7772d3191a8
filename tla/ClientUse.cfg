SPECIFICATION FairSpec
CONSTANTS
  Callers = {k1, k2}
  MaxDials = 2
  MaxReadErrors = 2
  AppOps = {"send", "close", "auto", "dial"}
  CallbackOps = {}
  ReadErrors = {"epipe", "other"}
INVARIANTS TypeOK ClosedForGood OneDialByFlag
PROPERTIES DialEnds LoopsEnd
