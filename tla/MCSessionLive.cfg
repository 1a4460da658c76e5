SPECIFICATION FairSpec
CONSTANTS
  Sessions = {s1}
  Devices = {d1}
  Callers = {c1, c2}
  NoSession = NoSession
  NoDevice = NoDevice
PROPERTY StoppedSessionsEnd
\* Connections are finite, and a pointer to freed memory ends the process.
CHECK_DEADLOCK FALSE
