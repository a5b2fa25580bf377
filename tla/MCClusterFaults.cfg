\* Two faults of each kind that changes the view or the network, one storm; on a
\* node behind any driver, node faults one over the other, with failing commands.
CONSTANTS
    Nodes <- ThreeNodes
    Partitions = {"p1", "p2"}
    Groups <- TwoPartitions
    SplitBrains = {"s1", "s2"}
    Leaders <- OverlappingLeaders
    QuorumLosses = {"q1", "q2"}
    VoterNodes <- ThreeNodes
    NodesToBlock = 2
    Storms = {"t"}
    Specs <- EveryTarget
    Kinds = {"crash", "shutdown", "crash_loop", "zombie", "oom", "clock_skew"}
    BackendFails = TRUE
    MaxCalls = 5
    MaxLoops = 2
    MaxInjects = 3
    Families = {"partition", "quorum", "split", "storm", "node"}
SPECIFICATION MCSpec
INVARIANTS
    PartitionsCompose
    OverridesClaimed
    QuorumLost
    EffectsOwned
PROPERTIES
    
    StormsEnd
    HealsFinish
\* The bounded calls run out.
CHECK_DEADLOCK FALSE
