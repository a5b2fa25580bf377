CONSTANTS
    Conn = {c1}
    Blackholed = {}
    Size = {3}
    Chains <- ThrottleOnly
    Burst = 2
    BufferSize = 2
    MaxExtraCopies = 1
    BurstEvery = 2
    BurstFor = 1
    MaxTime = 8
    MaxChunk = 5
    MaxChanges = 0
SPECIFICATION MCSpec
INVARIANT ThroughputCapped
CHECK_DEADLOCK FALSE
