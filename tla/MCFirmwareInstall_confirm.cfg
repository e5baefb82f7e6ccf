SPECIFICATION Spec
CONSTANTS
    Installers = {a}
    NFiles = 2
    Large = {1}
    Versions = {"v1", "v2"}
    Flavors = {"official"}
    BundleImage <- NewOfficial
    ResyncAttempts = 1
    Md5Attempts = 1
    MaxPolls = 2
INVARIANTS
    ConfirmedIsChanged
CHECK_DEADLOCK FALSE
