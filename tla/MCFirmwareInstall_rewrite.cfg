SPECIFICATION Spec
CONSTANTS
    Installers = {a}
    NFiles = 2
    Large = {}
    Versions = {"v1", "v2"}
    Flavors = {"official"}
    BundleImage <- NewOfficial
    ResyncAttempts = 2
    Md5Attempts = 2
    MaxPolls = 1
INVARIANTS
    WedgeIsNotRewritten
CHECK_DEADLOCK FALSE
