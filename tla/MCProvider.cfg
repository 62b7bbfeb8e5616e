SPECIFICATION Spec
CONSTANTS
  Threads = {t1, t2}
  Pointers = {1, 2, 3}
  MaxEvents = 4
  Errnos = {5}
INVARIANTS ListIsPrivate ListIsFixedUp RegisterZeroMeansAll
  UnregisterWalkLeavesNone
