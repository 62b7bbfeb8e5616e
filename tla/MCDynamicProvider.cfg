CONSTANTS
    Sets = {s1, s2}
    Keys = {k1, k2}
    Threads = {t1, t2}
    EIO = 5
SPECIFICATION Spec
INVARIANTS PinnedUntilUnregistered NoLateEvent
PROPERTIES UnregisterEnds
CHECK_DEADLOCK FALSE
