SPECIFICATION Spec
CONSTANTS
    None = None
    a1 = a1
    a2 = a2
    a3 = a3
    m1 = m1
    k1 = k1
    k2 = k2
    k3 = k3
    Accounts <- TwoAccounts
    Targets <- OneTarget
    Keys <- ThreeKeys
    ConversationTtl = 3
    MaxConversations = 2
    CandidateLists <- LeaseLists
    UsedPolicies <- Strict
    Excludes <- NoExcludes
    MaxDelay = 1
    MaxClock = 4
VIEW ViewWithoutCall
INVARIANT QueueMatchesMap
PROPERTY LeaseSpec
