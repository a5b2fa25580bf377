\* Chains of faults on two connections; two sessions that share a stale-read cache; a
\* writer and a reader at two replicas; a row of three bytes on two nodes.
CONSTANTS
    Conn = {c1, c2}
    Blackholed = {c1}
    Size = {2}
    Chains <- AllChains
    Burst = 3
    BufferSize = 2
    MaxExtraCopies = 1
    BurstEvery = 2
    BurstFor = 1
    MaxTime = 3
    MaxChunk = 2
    MaxChanges = 1
    Sessions = {"s1", "s2"}
    Queries = {"q1", "q2"}
    Depth = 1
    MaxAge = 2
    MaxClock = 2
    Clients = {"w", "r"}
    Writer = "w"
    Replicas = {"near", "far"}
    MaxWrites = 2
    MaxTicks = 5
    Holders = {"a", "b"}
    Values = {"x", "y"}
    RowLength = 3
    BytesToFlip = 3
    Parts = {"wire", "stale", "checker", "rows"}
SPECIFICATION ViewSpec
INVARIANTS
    ThrottleBound
    ChunkFates
    OrderKept
    
    
PROPERTIES
    LossInBursts
    CorruptionShows
\* Time, chunks, changes, writes and reads run out.
CHECK_DEADLOCK FALSE
