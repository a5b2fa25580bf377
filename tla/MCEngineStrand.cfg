CONSTANTS
    Node = {n1, n2}
    Target = {n1, n2}
    ProxyFault = {"bursty_loss"}
    NodeFault = {"crash", "zombie"}
    Loss = "bursty_loss"
    Caller = {p}
    DriverFails = FALSE
    MaxMade = 2
    MaxUndo = 1
SPECIFICATION MCSafety
INVARIANT NodesNotStranded
CHECK_DEADLOCK FALSE
