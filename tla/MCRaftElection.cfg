\* Three interchangeable nodes that time out and beat on every tick.
CONSTANTS
    Node = {n1, n2, n3}
    None = None
    ElectionTimeoutMin = 1
    ElectionTimeoutMax = 1
    HeartbeatTicks = 1
    MaxTerm = 2
SYMMETRY Symmetry
SPECIFICATION MCSpec
INVARIANTS
    ElectionSafety
    LeaderBeliefSound
    NoRivalHeartbeat
    CountersExact
PROPERTIES
    TermDiscipline
    ImplementsService
