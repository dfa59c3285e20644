SPECIFICATION Spec
CONSTANTS
    None = None
    a1 = a1
    a2 = a2
    a3 = a3
    m1 = m1
    k1 = k1
    r1 = r1
    Accounts <- TwoAccounts
    Targets <- OneTarget
    Keys <- OneKey
    ConversationTtl = 1
    MaxConversations = 1
    Orders <- TwoOrders
    Kind <- PaidPair
    Outcomes <- StreamOutcomes
    Policy = "StrictPriority"
    KeyOf <- NoConversation
    Requests <- OneRequest
    MaxRequestAttempts = 3
PROPERTY AmbiguousStaysOnAccount
