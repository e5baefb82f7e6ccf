SPECIFICATION Spec
CONSTANTS
    NFds = 3
    MaxConns = 3
    MaxSends = 0
INVARIANTS
    ClosesOwn
CHECK_DEADLOCK FALSE
