CONSTANTS
    Conn = {c1}
    Varying = {latency}
    Steady = {reorder}
    Rst = tcp_rst
    Packet = {replica_lag}
    Dial = {dns_failure}
    Hook = {stale_read}
    MaxGen = 4
SPECIFICATION MCSpec
INVARIANTS
    WriteIsCurrent
    TickersExact
    OnePerName
PROPERTY RetiredTickersEnd
