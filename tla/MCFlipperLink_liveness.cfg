SPECIFICATION FairSpec
CONSTANTS
    Tasks = {t1, t2}
    NoTask = NoTask
    Jobs = {"power", "reboot", "enter_cli"}
    Media = {"usb"}
    Faults = {"cancel"}
    ForceStart = TRUE
    Attempts = 1
    StreamCap = 1
    MaxFrag = 0
    MaxRpc = 1
    MaxReq = 4
    MaxRx = 1
PROPERTIES
    CallsEnd
CHECK_DEADLOCK FALSE
