SPECIFICATION Spec
CONSTANTS
    Calls = {t1, t2}
    NoCall = NoCall
    Ops = {"push", "pull", "delete", "rename", "mkdir", "stat", "list"}
    Paths = {p, q}
    Files = {"f"}
    Names = {"small", "big"}
    Long = 2
    Frames <- FrameCount
    Faults = {"timeout", "cancel", "damage"}
    MaxTrips = 4
SYMMETRY CallAndPathSymmetry
INVARIANTS
    TypeOK
    ResultHeld
    PulledExisted
CHECK_DEADLOCK FALSE
