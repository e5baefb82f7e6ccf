SPECIFICATION FairSpec
CONSTANTS
    NFds = 3
    MaxConns = 4
    MaxSends = 1
INVARIANTS
    OpenIsHeld
    RegisteredIsServed
PROPERTIES
    GoneIsDropped
CHECK_DEADLOCK FALSE
