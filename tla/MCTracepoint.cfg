SPECIFICATION Spec
CONSTANTS
  Threads = {t1, t2}
  Tracepoints = {p, q}
  Fds = {0, 1}
  Errnos = {2}
  U32_MAX = 5
  Indexes = {3}
  SerializedCallers = TRUE
INVARIANTS UnregisterTellsTruth NoLostRegistration DropUnregisters
PROPERTIES CallsReturn
CHECK_DEADLOCK FALSE
