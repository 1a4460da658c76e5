SPECIFICATION FairSpec
CONSTANTS
  Callers = {c1, c2}
  Timer = Timer
  Kinds = {"digit", "hangup", "cfwd"}
  MaxCalls = 2
PROPERTY ScheduledHangupHappens
\* A call that ended, or a callback of a freed channel, does nothing more.
CHECK_DEADLOCK FALSE
