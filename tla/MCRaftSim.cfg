CONSTANTS
    n1 = n1
    n2 = n2
    n3 = n3
    None = None
    Node <- MCNode
    Order <- MCOrder
    ElectionTimeoutMin = 3
    ElectionTimeoutMax = 4
    HeartbeatTicks = 2
    MaxTerm = 2
    MaxChanges = 2
SPECIFICATION MCSpec
INVARIANTS
    SimTypeOK
    SoleLeaderWhenHealed
PROPERTIES
    SettledStays
    WinnerHearsQuorum
    ImplementsElection
CHECK_DEADLOCK FALSE
