SPECIFICATION FairSpec
CONSTANTS
    Installers = {a}
    NFiles = 3
    Large = {1}
    Versions = {"v1", "v2"}
    Flavors = {"official"}
    BundleImage <- NewOfficial
    ResyncAttempts = 2
    Md5Attempts = 5
    MaxPolls = 3
INVARIANTS
    TypeOK
    PushedIsLanded
    RewriteOnlyOnMismatch
PROPERTIES
    UpdateIsEarned
    InstallEnds
    ImplementsFlash
CHECK_DEADLOCK FALSE
