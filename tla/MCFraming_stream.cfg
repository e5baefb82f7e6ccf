SPECIFICATION Spec
CONSTANTS
    Base = 2
    MaxBytes = 2
    MaxLen = 2
    Payloads <- SmallPayloads
    NoFrame = NoFrame
    MaxSent = 3
INVARIANTS
    TypeOK
    InSync
PROPERTIES
    ImplementsChannel
