SPECIFICATION Spec
CONSTANTS
    v1 = v1
    v2 = v2
    v3 = v3
    k1 = k1
    k2 = k2
    None = None
    Versions <- TwoVersions
    Proxies <- TwoProxies
    Keys <- OneKey
    MaxEvents = 1
SYMMETRY Renaming
INVARIANT CpaFollowsPolicy
CHECK_DEADLOCK FALSE
