SPECIFICATION Spec
CONSTANTS
    Tasks = {t1, t2}
    NoTask = NoTask
    Jobs = {"gpio", "info", "enter_rpc", "reconnect"}
    Media = {"usb", "wifi"}
    Faults = {"reset", "absent"}
    ForceStart = FALSE
    Attempts = 1
    StreamCap = 1
    MaxFrag = 0
    MaxRpc = 2
    MaxReq = 4
    MaxRx = 1
SYMMETRY TaskSymmetry
INVARIANTS
    Correlated
    LinkInStep
    ConnectedHasRpc
CHECK_DEADLOCK FALSE
