SPECIFICATION Spec
CONSTANTS
    Tasks = {t1, t2}
    NoTask = NoTask
    Jobs = {"ack", "list", "cli"}
    Media = {"usb"}
    Faults = {"cancel"}
    ForceStart = FALSE
    Attempts = 1
    StreamCap = 1
    MaxFrag = 1
    MaxRpc = 1
    MaxReq = 4
    MaxRx = 2
SYMMETRY TaskSymmetry
INVARIANTS
    TypeOK
    Serialized
    Correlated
    LinkInStep
    CommandInShell
CHECK_DEADLOCK FALSE
