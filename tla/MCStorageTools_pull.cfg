SPECIFICATION Spec
CONSTANTS
    Calls = {t1}
    NoCall = NoCall
    Ops = {"pull"}
    Paths = {p, q}
    Files = {"f"}
    Names = {"small", "big"}
    Long = 3
    Frames <- FrameCount
    Faults = {}
    MaxTrips = 6
INVARIANTS
    VerifiedIsAsked
CHECK_DEADLOCK FALSE
