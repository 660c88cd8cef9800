SPECIFICATION Spec
CONSTANTS
    Policy <- MCPolicy
    FreshFor = 3
    AgingFor = 5
    None = None
    Unread = Unread
    TypeOf <- MCTypeOf
    IdOf <- MCIdOf
    SplitOrder <- MCSplitOrder
    MaxEntriesPerPage = 2
    MaxShardDepth = 2
    OverflowBucket = "overflow"
    ScopeOf <- MCScopeOf
    Tie <- MCTie
    Proc = {q1, q2}
    Reader = {reader}
    Scenario <- MCScenario
    MaxGenerations = 2
    MaxCleaned = 1
    FreshnessPolicies <- MCPolicies
    MaxTime = 5
INVARIANT ReceiptEarned EntriesRoutable
PROPERTY GateMovesByReview PastVerdictKept VerifiedStays
CHECK_DEADLOCK FALSE
