SPECIFICATION Spec
CONSTANTS
  Callers = {c1, c2}
  Timer = Timer
  Kinds = {"digit", "hangup"}
  MaxCalls = 3
SYMMETRY Symmetry
INVARIANT TasksHoldReferences
\* A call that ended, or a callback of a freed channel, does nothing more.
CHECK_DEADLOCK FALSE
