SPECIFICATION Spec
CONSTANTS
    Tasks = {t1, t2}
    NoTask = NoTask
    Jobs = {"read", "locked", "power", "reconnect"}
    Media = {"wifi"}
    Faults = {"reset", "absent"}
    ForceStart = FALSE
    Attempts = 1
    StreamCap = 1
    MaxFrag = 0
    MaxRpc = 3
    MaxReq = 5
    MaxRx = 2
SYMMETRY TaskSymmetry
INVARIANTS
    Correlated
    ConnectedHasRpc
CHECK_DEADLOCK FALSE
