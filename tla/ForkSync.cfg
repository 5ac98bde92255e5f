SPECIFICATION SyncSpec
CONSTANTS
    Pushes = {h1, h2}
    Students = {s1, s2}
    MaxPushes = 2
    TokenLife = 2
    MaxTime = 3
    Delays = {1, 4}
    Deadline = 3
    Nobody = Nobody
INVARIANTS
    SyncedOrCounted
    TokenOutlivesClone
PROPERTY SyncReturns
CHECK_DEADLOCK FALSE
