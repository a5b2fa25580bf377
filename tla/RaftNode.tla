------------------------------ MODULE RaftNode ------------------------------
(***************************************************************************)
(* The election state machine of internal/raft/raft.go: one Node per       *)
(* member, driven by two calls, Tick and Step, each of which changes the   *)
(* node and returns the messages to send.  A call is modelled by a pair:   *)
(* an action on the node's variables (TickNode, StepNode) and a state      *)
(* function giving the messages it returns (TickMessages, StepMessages).   *)
(* Who delivers the messages is left to the modules that extend this one:  *)
(* RaftElection (any transport) and RaftSim (the Cluster of sim.go).       *)
(***************************************************************************)
EXTENDS Integers, FiniteSets

CONSTANTS
    Node,                \* the cluster members
    None,                \* the empty string of votedFor and leader
    ElectionTimeoutMin,  \* Config, in ticks
    ElectionTimeoutMax,
    HeartbeatTicks

\* The check at the head of New: any other Config panics.
ASSUME ConfigAssumption ==
    /\ ElectionTimeoutMin \in Nat \ {0}
    /\ ElectionTimeoutMax \in Nat
    /\ ElectionTimeoutMax >= ElectionTimeoutMin
    /\ HeartbeatTicks \in Nat \ {0}

ASSUME MembersAssumption ==
    /\ IsFiniteSet(Node)
    /\ None \notin Node

VARIABLES
    role,             \* "follower", "candidate" or "leader"
    term,
    votedFor,         \* the candidate voted for in the current term, or None
    leader,           \* who the node believes leads the current term, or None
    votes,            \* the voters a candidate has counted
    elapsed,          \* ticks since the timer was last reset
    electionTimeout,  \* the randomized timeout in force
    electionsBegun,
    electionsWon,
    \* History, read by the properties and by nothing in the code:
    ballots,          \* every <<voter, term, candidate>> vote cast
    won               \* every <<term, node>> election won

timers == <<elapsed, electionTimeout>>
nodeVars == <<role, term, votedFor, leader, votes, elapsed, electionTimeout,
              electionsBegun, electionsWon, ballots, won>>

Role == {"follower", "candidate", "leader"}

\* Terms are uint64 in the code.  A node raises its term only by one per
\* election timeout, so the width is never reached and terms are naturals.
Message ==
         [type : {"RequestVote", "Heartbeat", "HeartbeatAck"},
          from : Node, to : Node, term : Nat]
    \cup [type : {"Vote"}, from : Node, to : Node, term : Nat, granted : BOOLEAN]

Peers(n) == Node \ {n}

\* Mutant: half of the members instead of a majority.
quorumOfHalf == Cardinality(Node) \div 2

quorum == Cardinality(Node) \div 2 + 1

Init ==
    /\ role = [n \in Node |-> "follower"]
    /\ term = [n \in Node |-> 0]
    /\ votedFor = [n \in Node |-> None]
    /\ leader = [n \in Node |-> None]
    /\ votes = [n \in Node |-> {}]
    /\ elapsed = [n \in Node |-> 0]
    /\ electionTimeout \in [Node -> ElectionTimeoutMin..ElectionTimeoutMax]
    /\ electionsBegun = [n \in Node |-> 0]
    /\ electionsWon = [n \in Node |-> 0]
    /\ ballots = {}
    /\ won = {}

\* Mutant: rng.Intn over a span one too wide.
resetElectionTimerTooWide(n) ==
    /\ elapsed' = [elapsed EXCEPT ![n] = 0]
    /\ \E t \in ElectionTimeoutMin..(ElectionTimeoutMax + 1) :
          electionTimeout' = [electionTimeout EXCEPT ![n] = t]

\* rng.Intn is a free choice in the configured range.
resetElectionTimer(n) ==
    /\ elapsed' = [elapsed EXCEPT ![n] = 0]
    /\ \E t \in ElectionTimeoutMin..ElectionTimeoutMax :
          electionTimeout' = [electionTimeout EXCEPT ![n] = t]

broadcast(type, n, t) ==
    {[type |-> type, from |-> n, to |-> p, term |-> t] : p \in Peers(n)}

-----------------------------------------------------------------------------
(* Tick: the leader's heartbeat interval, everyone else's election timeout *)

\* Mutant: > for >= in the leader's case of Tick.
HeartbeatDueLate(n) == role[n] = "leader" /\ elapsed[n] + 1 > HeartbeatTicks

HeartbeatDue(n) == role[n] = "leader" /\ elapsed[n] + 1 >= HeartbeatTicks

TimesOut(n) == role[n] # "leader" /\ elapsed[n] + 1 >= electionTimeout[n]

\* Tick returns without sending: only the timer advances.
TickQuietly(n) ==
    /\ ~HeartbeatDue(n) /\ ~TimesOut(n)
    /\ elapsed' = [elapsed EXCEPT ![n] = @ + 1]
    /\ UNCHANGED <<role, term, votedFor, leader, votes, electionTimeout,
                   electionsBegun, electionsWon, ballots, won>>

TickHeartbeat(n) ==
    /\ HeartbeatDue(n)
    /\ elapsed' = [elapsed EXCEPT ![n] = 0]
    /\ UNCHANGED <<role, term, votedFor, leader, votes, electionTimeout,
                   electionsBegun, electionsWon, ballots, won>>

\* A candidate's own vote makes the quorum only in a cluster of one; it then
\* goes on to becomeLeader within the same call.
SoleMember == quorum <= 1

\* Mutant: the new leader does not name itself.
becomeLeaderUnnamed(n, t) ==
    /\ role' = [role EXCEPT ![n] = "leader"]
    /\ electionsWon' = [electionsWon EXCEPT ![n] = @ + 1]
    /\ won' = won \cup {<<t, n>>}
    /\ UNCHANGED leader

\* The part of a call that becomeLeader makes up, for a node leading term t.
\* Its elapsed = 0 is left to the callers, one of which also picks a timeout.
becomeLeader(n, t) ==
    /\ role' = [role EXCEPT ![n] = "leader"]
    /\ leader' = [leader EXCEPT ![n] = n]
    /\ electionsWon' = [electionsWon EXCEPT ![n] = @ + 1]
    /\ won' = won \cup {<<t, n>>}

startElection(n) ==
    /\ TimesOut(n)
    /\ term' = [term EXCEPT ![n] = @ + 1]
    /\ votedFor' = [votedFor EXCEPT ![n] = n]
    /\ votes' = [votes EXCEPT ![n] = {n}]
    /\ electionsBegun' = [electionsBegun EXCEPT ![n] = @ + 1]
    /\ ballots' = ballots \cup {<<n, term[n] + 1, n>>}
    /\ resetElectionTimer(n)
    /\ \/ /\ SoleMember
          /\ becomeLeader(n, term[n] + 1)
       \/ /\ ~SoleMember
          /\ role' = [role EXCEPT ![n] = "candidate"]
          /\ leader' = [leader EXCEPT ![n] = None]
          /\ UNCHANGED <<electionsWon, won>>

TickNode(n) == TickQuietly(n) \/ TickHeartbeat(n) \/ startElection(n)

TickMessages(n) ==
    IF HeartbeatDue(n) THEN broadcast("Heartbeat", n, term[n])
    ELSE IF TimesOut(n) THEN
        broadcast(IF SoleMember THEN "Heartbeat" ELSE "RequestVote", n, term[n] + 1)
    ELSE {}

-----------------------------------------------------------------------------
(* Step: one delivered message m, addressed to m.to                        *)

\* Mutant: a leader takes no notice of higher terms.
NewerUnlessLeader(m) == m.term > term[m.to] /\ role[m.to] # "leader"

Newer(m) == m.term > term[m.to]
Stale(m) == m.term < term[m.to]

\* Mutant: the vote is freed without looking whether the term is a new one.
becomeFollowerFreeingVote(n, t, l) ==
    /\ term' = [term EXCEPT ![n] = t]
    /\ votedFor' = [votedFor EXCEPT ![n] = None]
    /\ role' = [role EXCEPT ![n] = "follower"]
    /\ leader' = [leader EXCEPT ![n] = l]
    /\ votes' = [votes EXCEPT ![n] = {}]
    /\ resetElectionTimer(n)
    /\ UNCHANGED <<electionsBegun, electionsWon, ballots, won>>

\* "Saw a higher term": the receiver follows l in term t, its vote unused.
becomeFollower(n, t, l) ==
    /\ term' = [term EXCEPT ![n] = t]
    /\ votedFor' = [votedFor EXCEPT ![n] = IF t > term[n] THEN None ELSE @]
    /\ role' = [role EXCEPT ![n] = "follower"]
    /\ leader' = [leader EXCEPT ![n] = l]
    /\ votes' = [votes EXCEPT ![n] = {}]
    /\ resetElectionTimer(n)
    /\ UNCHANGED <<electionsBegun, electionsWon, ballots, won>>

\* Mutant: votedFor is not consulted.
GrantsAlways(m) == m.term >= term[m.to]

\* Grant if the vote of the message's term has not gone to anyone else.
Grants(m) ==
    Newer(m) \/ (m.term = term[m.to] /\ votedFor[m.to] \in {None, m.from})

\* RequestVote of a newer term demotes the receiver first, which frees its vote.
StepRequestVote(m) ==
    LET n == m.to IN
    /\ m.type = "RequestVote"
    /\ Grants(m)
    /\ term' = [term EXCEPT ![n] = m.term]
    /\ votedFor' = [votedFor EXCEPT ![n] = m.from]
    /\ role' = [role EXCEPT ![n] = IF Newer(m) THEN "follower" ELSE @]
    /\ leader' = [leader EXCEPT ![n] = IF Newer(m) THEN None ELSE @]
    /\ votes' = [votes EXCEPT ![n] = IF Newer(m) THEN {} ELSE @]
    /\ resetElectionTimer(n)
    /\ ballots' = ballots \cup {<<n, m.term, m.from>>}
    /\ UNCHANGED <<electionsBegun, electionsWon, won>>

\* Mutant: votes are counted in any role.
CountsInAnyRole(m) == m.granted /\ m.term = term[m.to]

\* A vote for the candidacy the node is running right now.
Counts(m) ==
    m.granted /\ role[m.to] = "candidate" /\ m.term = term[m.to]

MakesQuorum(m) == Cardinality(votes[m.to] \cup {m.from}) >= quorum

StepVote(m) ==
    LET n == m.to IN
    /\ m.type = "Vote"
    /\ Counts(m)
    /\ votes' = [votes EXCEPT ![n] = @ \cup {m.from}]
    /\ \/ /\ MakesQuorum(m)
          /\ becomeLeader(n, term[n])
          /\ elapsed' = [elapsed EXCEPT ![n] = 0]
       \/ /\ ~MakesQuorum(m)
          /\ UNCHANGED <<role, leader, elapsed, electionsWon, won>>
    /\ UNCHANGED <<term, votedFor, electionTimeout, electionsBegun, ballots>>

\* A candidate concedes and a follower resets its timer; a leader ignores it.
StepHeartbeat(m) ==
    /\ m.type = "Heartbeat"
    /\ ~Stale(m)
    /\ Newer(m) \/ role[m.to] # "leader"
    /\ becomeFollower(m.to, m.term, m.from)

\* Mutant: whoever has the higher term is taken for its leader.
StepNewerAnswerFollowing(m) ==
    /\ m.type \in {"Vote", "HeartbeatAck"}
    /\ Newer(m)
    /\ becomeFollower(m.to, m.term, m.from)

\* Answers of a newer term only demote the receiver.
StepNewerAnswer(m) ==
    /\ m.type \in {"Vote", "HeartbeatAck"}
    /\ Newer(m)
    /\ becomeFollower(m.to, m.term, None)

\* Every other message leaves the node as it is: a stale one, a refused vote
\* request, a vote nobody is counting, an acknowledgement.
Ignored(m) ==
    ~ \/ m.type = "RequestVote" /\ Grants(m)
      \/ m.type = "Vote" /\ (Newer(m) \/ Counts(m))
      \/ m.type = "Heartbeat" /\ (Newer(m) \/ (~Stale(m) /\ role[m.to] # "leader"))
      \/ m.type = "HeartbeatAck" /\ Newer(m)

StepIgnored(m) == Ignored(m) /\ UNCHANGED nodeVars

StepNode(m) ==
    \/ StepRequestVote(m)
    \/ StepVote(m)
    \/ StepHeartbeat(m)
    \/ StepNewerAnswer(m)
    \/ StepIgnored(m)

\* The term an answer carries: the receiver's, after any demotion.
AnswerTerm(m) == IF Newer(m) THEN m.term ELSE term[m.to]

StepMessages(m) ==
    CASE m.type = "RequestVote" ->
           {[type |-> "Vote", from |-> m.to, to |-> m.from,
             term |-> AnswerTerm(m), granted |-> Grants(m)]}
      [] m.type = "Heartbeat" ->
           {[type |-> "HeartbeatAck", from |-> m.to, to |-> m.from,
             term |-> AnswerTerm(m)]}
      [] m.type = "Vote" /\ Counts(m) /\ MakesQuorum(m) ->
           broadcast("Heartbeat", m.to, term[m.to])
      [] OTHER -> {}
=============================================================================
