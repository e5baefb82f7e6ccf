SPECIFICATION FairSpec
CONSTANTS
    Silence = 1
    MaxPolls = 2
    MaxChunks = 1
    MaxIn = 1
    MaxOut = 1
PROPERTIES
    StaleSessionIsNoticed
