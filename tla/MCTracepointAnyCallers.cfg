SPECIFICATION Spec
CONSTANTS
  Threads = {t1, t2, t3}
  Tracepoints = {p, q}
  Fds = {0, 1}
  Errnos = {2}
  U32_MAX = 3
  Indexes = {1}
  SerializedCallers = FALSE
INVARIANTS BusyIsExclusive WriteUsesIssuedIndex IndexIsRegistered
CHECK_DEADLOCK FALSE
