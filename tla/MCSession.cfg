SPECIFICATION Spec
CONSTANTS
  Sessions = {s1, s2}
  Devices = {d1}
  Callers = {c1}
  NoSession = NoSession
  NoDevice = NoDevice
SYMMETRY Symmetry
INVARIANTS SendsOnLiveSessions 
\* Connections are finite, and a pointer to freed memory ends the process.
CHECK_DEADLOCK FALSE
