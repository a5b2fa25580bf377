\* Two calls at a time over two nodes, of which one has a driver; "crash" names
\* both a flag and a node fault, as in the code.  One of the calls may be a heal or
\* a removal, racing a creation and the timers.
CONSTANTS
    Node = {n1, n2}
    Target = {n1}
    ProxyFault = {"bursty_loss", "crash"}
    NodeFault = {"crash"}
    Loss = "bursty_loss"
    Caller = {p, q}
    DriverFails = TRUE
    MaxMade = 2
    MaxUndo = 1
SPECIFICATION MCSpec
INVARIANTS
    EffectsTracked
    HealCoversEarlier
PROPERTY TimedFaultsEnd
\* The bounded calls run out.
CHECK_DEADLOCK FALSE
