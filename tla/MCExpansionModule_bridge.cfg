SPECIFICATION FairSpec
CONSTANTS
    Silence = 1
    MaxPolls = 2
    MaxChunks = 2
    MaxIn = 1
    MaxOut = 2
INVARIANTS
    TypeOK
    HandshakeAtInitialBaud
PROPERTIES
    SessionsAreRetried
    ReaderNotices
