SPECIFICATION Spec
CONSTANTS
    None = None
    a1 = a1
    a2 = a2
    a3 = a3
    m1 = m1
    k1 = k1
    k2 = k2
    k3 = k3
    Accounts <- AllAccounts
    Targets <- OneTarget
    Keys <- OneKey
    ConversationTtl = 1
    MaxConversations = 1
    CandidateLists <- TurnLists
    UsedPolicies <- AllPolicies
    Excludes <- OneExcluded
    MaxDelay = 0
    MaxClock = 2
VIEW ViewWithoutCall
INVARIANT EveryCardTakesItsTurn
INVARIANT StickyGlobalStays
