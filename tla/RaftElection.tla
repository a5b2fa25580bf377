---------------------------- MODULE RaftElection ----------------------------
(***************************************************************************)
(* Raft nodes over the weakest transport their owner may give them: a      *)
(* message once sent can be delivered at any later time, any number of     *)
(* times, in any order, or never.  The nodes tick at unrelated speeds.     *)
(***************************************************************************)
EXTENDS RaftNode

VARIABLE msgs    \* every message sent so far

vars == <<role, term, votedFor, leader, votes, elapsed, electionTimeout,
          electionsBegun, electionsWon, ballots, won, msgs>>

ElectionInit == Init /\ msgs = {}

Tick(n) == TickNode(n) /\ msgs' = msgs \cup TickMessages(n)

Step(m) == StepNode(m) /\ msgs' = msgs \cup StepMessages(m)

Next ==
    \/ \E n \in Node : Tick(n)
    \/ \E m \in msgs : Step(m)

Spec == ElectionInit /\ [][Next]_vars

-----------------------------------------------------------------------------
(* Properties                                                              *)

\* Every variable stays in its declared range: terms and counters natural,
\* leaders, votes and voters drawn from the members.
TypeOK ==
    /\ role \in [Node -> Role]
    /\ term \in [Node -> Nat]
    /\ votedFor \in [Node -> Node \cup {None}]
    /\ leader \in [Node -> Node \cup {None}]
    /\ votes \in [Node -> SUBSET Node]
    /\ elapsed \in [Node -> Nat]
    /\ electionTimeout \in [Node -> ElectionTimeoutMin..ElectionTimeoutMax]
    /\ electionsBegun \in [Node -> Nat]
    /\ electionsWon \in [Node -> Nat]
    /\ ballots \subseteq Node \X Nat \X Node
    /\ won \subseteq Nat \X Node
    /\ msgs \subseteq Message

\* At most one node ever wins a given term, over the whole run and not just
\* among the nodes that are leaders at one moment (the "one leader per term"
\* that Step's heartbeat case and raft_test.go rely on).
ElectionSafety ==
    \A e, f \in won : e[1] = f[1] => e[2] = f[2]

\* Whoever a node names as leader did win the term the node is in: leader is
\* set from the sender of a heartbeat, which may be old or duplicated.
LeaderBeliefSound ==
    \A n \in Node : leader[n] # None => <<term[n], leader[n]>> \in won

\* A leader is never handed a heartbeat of its own term from someone else:
\* the case Step's comment says "cannot happen".
NoRivalHeartbeat ==
    \A m \in msgs : m.type = "Heartbeat" /\ role[m.to] = "leader"
                       => m.term # term[m.to]

\* The statistics count terms, not calls: a late or duplicated vote never
\* makes becomeLeader run twice in one term, nor an election start twice.
CountersExact ==
    \A n \in Node :
        /\ electionsWon[n] = Cardinality({e \in won : e[2] = n})
        /\ electionsBegun[n] = Cardinality({b \in ballots : b[1] = n /\ b[3] = n})

\* Within a term a cast vote is final and a leader stays the leader; only a
\* higher term undoes either.  Terms never go back.
TermDiscipline ==
    [][\A n \in Node :
          /\ term'[n] >= term[n]
          /\ term'[n] = term[n] =>
                /\ votedFor[n] # None => votedFor'[n] = votedFor[n]
                /\ role[n] = "leader" => role'[n] = "leader"
                /\ leader[n] # None => leader'[n] = leader[n]]_vars

\* The cluster as seen by its users, hiding votes, timers and messages.
Service == INSTANCE ElectionService
             WITH elected <- won, viewTerm <- term, viewLeader <- leader

\* The nodes implement the election service: results are written once per
\* term, and no node's view of term and leader ever moves back or sideways.
ImplementsService == Service!Spec
=============================================================================
