SPECIFICATION Spec
CONSTANTS
    v1 = v1
    v2 = v2
    v3 = v3
    k1 = k1
    k2 = k2
    None = None
    Versions <- ThreeVersions
    Proxies <- TwoProxies
    Keys <- TwoKeys
    MaxEvents = 2
SYMMETRY Renaming
VIEW ViewOfReport
INVARIANTS
    FailureLeavesNoTrace
    NoChildAfterShutdown
    ChildIsAsRecorded
    KeysAgree
    VersionsAreOnDisk
    OwnerMarkerIsLast
CHECK_DEADLOCK FALSE
