---------------------------- MODULE MCConnFaults ----------------------------
(* ConnFaults for a bounded time and a bounded number of chunks.           *)
EXTENDS ConnFaults, FiniteSetsExt

CONSTANTS MaxTime,      \* units of time in a run
          MaxChunk,     \* chunks per connection
          MaxChanges    \* registry changes in a run

VARIABLE changes

mcVars == <<vars, changes>>

\* Each fault on top of, and below, one that holds, copies or delays.
AllChains == {<<"reorder", "duplication">>,
              <<"duplication", "reorder">>,
              <<"bandwidth_throttle", "reorder">>,
              <<"asymmetric_partition", "bandwidth_throttle">>,
              <<"reorder", "bursty_loss">>}
ThrottleOnly == {<<"bandwidth_throttle">>}

MCInit == Init /\ changes = 0

MCNext ==
    \/ now < MaxTime /\ Passing(1) /\ UNCHANGED changes
    \/ changes < MaxChanges /\ ChangeRegistry /\ changes' = changes + 1
    \/ \E c \in Conn, n \in Size :
          read[c] < MaxChunk /\ Write(c, n) /\ UNCHANGED changes
    \/ UNCHANGED changes /\ \E c \in Conn : Wrapper(c)

MCSpec == MCInit /\ [][MCNext]_mcVars

BytesSent(c) == MapThenSumSet(LAMBDA i : sent[c][i].size, DOMAIN sent[c])

\* BandwidthThrottleFault's comment: it "caps outbound throughput using a simple
\* token bucket".  What has reached the sockets is never more than the bucket's
\* capacity and Rate allow.
ThroughputCapped == MapThenSumSet(BytesSent, Conn) <= Burst + now
=============================================================================
