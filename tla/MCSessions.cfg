\* One connection through its whole life, under three control calls by two
\* concurrent operators; and workload faults that compete for a pool of two
\* connections and for two rows, each sort twice or beside another.
CONSTANTS
    Session = {s1}
    Operator = {o1, o2}
    MaxCalls = 3
    Injects = {"p1", "p2", "d", "l", "m", "b1", "b2"}
    FaultOf <- SevenInjects
    MaxOpen = 2
    HoldConnections = 2
    HoldTimed = TRUE
    DBFails = TRUE
    Writes = {"w1", "w2", "w3"}
    Casts = {{}, {"p1", "p2", "l"}, {"p1", "p2", "d"}, {"p1", "d", "m"}, {"d", "l", "m"}, {"b1", "b2"}}
SPECIFICATION SessionsSpec
INVARIANTS
    SeveredIsClosed
    NothingLeftBehind
    TxAccounted
    
PROPERTIES
    SeveredSessionsEnd
    InjectsReturn
\* The bounded calls run out, and a session may stay silent for ever.
CHECK_DEADLOCK FALSE
