------------------------- MODULE RaftElectionProofs -------------------------
(***************************************************************************)
(* Proofs about RaftElection, for every cluster, timing configuration and  *)
(* number of terms.                                                        *)
(***************************************************************************)
EXTENDS RaftElection, FiniteSetTheorems, TLAPS

-----------------------------------------------------------------------------
(* Quorums                                                                 *)

\* Two sets of at least quorum() members share a voter, since quorum() is
\* more than half of the cluster.
LEMMA QuorumsMeet ==
    ASSUME NEW P \in SUBSET Node, NEW Q \in SUBSET Node,
           Cardinality(P) >= quorum, Cardinality(Q) >= quorum
    PROVE  P \cap Q # {}
<1>1. IsFiniteSet(Node) /\ Cardinality(Node) \in Nat
  BY MembersAssumption, FS_CardinalityType, Zenon
<1>2. Cardinality(P) \in Nat /\ Cardinality(Q) \in Nat
  BY <1>1, FS_Subset, FS_CardinalityType, Zenon
<1>3. Cardinality(P) + Cardinality(Q) > Cardinality(Node)
  BY <1>1, <1>2 DEF quorum
<1> QED
  BY <1>1, <1>3, FS_MajoritiesIntersect, Zenon

-----------------------------------------------------------------------------
(* Type correctness                                                        *)

\* The messages a Tick returns are well formed.
LEMMA TickMessagesType ==
    ASSUME TypeOK, NEW n \in Node
    PROVE  TickMessages(n) \subseteq Message
BY DEF TypeOK, TickMessages, broadcast, Peers, Message

\* The messages a Step returns are well formed.
LEMMA StepMessagesType ==
    ASSUME TypeOK, NEW m \in msgs
    PROVE  StepMessages(m) \subseteq Message
<1>1. m \in Message
  BY Zenon DEF TypeOK
<1>2. m.to \in Node /\ m.from \in Node /\ m.term \in Nat /\ term[m.to] \in Nat
  BY <1>1, Zenon DEF TypeOK, Message
<1>3. AnswerTerm(m) \in Nat
  BY <1>2, Zenon DEF AnswerTerm
<1>4. Grants(m) \in BOOLEAN
  BY Zenon DEF Grants, Newer
<1>5. m.type \in {"RequestVote", "Vote", "Heartbeat", "HeartbeatAck"}
  BY <1>1, Zenon DEF Message
<1>6. broadcast("Heartbeat", m.to, term[m.to]) \subseteq Message
  BY <1>2 DEF broadcast, Peers, Message
<1>7. CASE m.type = "RequestVote"
  BY <1>2, <1>3, <1>4, <1>7 DEF StepMessages, Message
<1>8. CASE m.type = "Heartbeat"
  BY <1>2, <1>3, <1>8 DEF StepMessages, Message
<1>9. CASE m.type = "Vote"
  BY <1>6, <1>9, Zenon DEF StepMessages
<1>10. CASE m.type = "HeartbeatAck"
  BY <1>10, Zenon DEF StepMessages
<1> QED
  BY <1>5, <1>7, <1>8, <1>9, <1>10, Zenon

\* The timer reset of resetElectionTimer keeps both timer variables in range.
LEMMA TimerType ==
    ASSUME TypeOK, NEW n \in Node, resetElectionTimer(n)
    PROVE  /\ elapsed' \in [Node -> Nat]
           /\ electionTimeout' \in [Node -> ElectionTimeoutMin..ElectionTimeoutMax]
BY Zenon DEF TypeOK, resetElectionTimer

\* A Tick keeps the types.
LEMMA TickType ==
    ASSUME TypeOK, NEW n \in Node, Tick(n)
    PROVE  TypeOK'
<1>1. msgs' \subseteq Message
  BY TickMessagesType, Zenon DEF Tick, TypeOK
<1>2. CASE TickQuietly(n)
  BY <1>1, <1>2 DEF TickQuietly, TypeOK
<1>3. CASE TickHeartbeat(n)
  BY <1>1, <1>3, Zenon DEF TickHeartbeat, TypeOK
<1>4. CASE startElection(n)
  <2>1. /\ elapsed' \in [Node -> Nat]
        /\ electionTimeout' \in [Node -> ElectionTimeoutMin..ElectionTimeoutMax]
    BY <1>4, TimerType, Zenon DEF startElection
  <2>2. /\ role' \in [Node -> Role]
        /\ leader' \in [Node -> Node \cup {None}]
        /\ electionsWon' \in [Node -> Nat]
        /\ won' \subseteq Nat \X Node
    BY <1>4 DEF startElection, becomeLeader, TypeOK, Role
  <2>3. /\ term' \in [Node -> Nat]
        /\ votedFor' \in [Node -> Node \cup {None}]
        /\ votes' \in [Node -> SUBSET Node]
        /\ electionsBegun' \in [Node -> Nat]
        /\ ballots' \subseteq Node \X Nat \X Node
    BY <1>4 DEF startElection, TypeOK
  <2> QED
    BY <1>1, <2>1, <2>2, <2>3, Zenon DEF TypeOK
<1> QED
  BY <1>2, <1>3, <1>4, Zenon DEF Tick, TickNode

\* becomeFollower keeps the types of the node variables.
LEMMA FollowerType ==
    ASSUME TypeOK, NEW n \in Node, NEW t \in Nat, NEW l \in Node \cup {None},
           becomeFollower(n, t, l), msgs' \subseteq Message
    PROVE  TypeOK'
<1>1. /\ elapsed' \in [Node -> Nat]
      /\ electionTimeout' \in [Node -> ElectionTimeoutMin..ElectionTimeoutMax]
  BY TimerType, Zenon DEF becomeFollower
<1> QED
  BY <1>1, Zenon DEF becomeFollower, TypeOK, Role

\* A Step keeps the types.
LEMMA StepType ==
    ASSUME TypeOK, NEW m \in msgs, Step(m)
    PROVE  TypeOK'
<1>1. msgs' \subseteq Message
  BY StepMessagesType, Zenon DEF Step, TypeOK
<1>2. m.to \in Node /\ m.from \in Node /\ m.term \in Nat
  BY Zenon DEF TypeOK, Message
<1>3. CASE StepRequestVote(m)
  <2>1. /\ elapsed' \in [Node -> Nat]
        /\ electionTimeout' \in [Node -> ElectionTimeoutMin..ElectionTimeoutMax]
    BY <1>2, <1>3, TimerType, Zenon DEF StepRequestVote
  <2>2. /\ role' \in [Node -> Role]
        /\ leader' \in [Node -> Node \cup {None}]
        /\ votes' \in [Node -> SUBSET Node]
    BY <1>2, <1>3, Zenon DEF StepRequestVote, TypeOK, Role
  <2>3. /\ term' \in [Node -> Nat]
        /\ votedFor' \in [Node -> Node \cup {None}]
        /\ ballots' \subseteq Node \X Nat \X Node
        /\ UNCHANGED <<electionsBegun, electionsWon, won>>
    BY <1>2, <1>3 DEF StepRequestVote, TypeOK
  <2> QED
    BY <1>1, <2>1, <2>2, <2>3, Zenon DEF TypeOK
<1>4. CASE StepVote(m)
  BY <1>1, <1>2, <1>4 DEF StepVote, becomeLeader, TypeOK, Role
<1>5. CASE StepHeartbeat(m)
  BY <1>1, <1>2, <1>5, FollowerType, Zenon DEF StepHeartbeat
<1>6. CASE StepNewerAnswer(m)
  BY <1>1, <1>2, <1>6, FollowerType, Zenon DEF StepNewerAnswer
<1>7. CASE StepIgnored(m)
  BY <1>1, <1>7, Zenon DEF StepIgnored, nodeVars, TypeOK
<1> QED
  BY <1>3, <1>4, <1>5, <1>6, <1>7, Zenon DEF Step, StepNode

\* Type correctness of the node's variables and of every message in flight.
THEOREM TypeCorrect == Spec => []TypeOK
<1>1. ElectionInit => TypeOK
  BY DEF ElectionInit, Init, TypeOK, Role
<1>2. TypeOK /\ [Next]_vars => TypeOK'
  <2>1. CASE UNCHANGED vars
    BY <2>1, Zenon DEF vars, TypeOK
  <2>2. CASE Next
    BY <2>2, TickType, StepType, Zenon DEF Next
  <2> QED
    BY <2>1, <2>2, Zenon
<1> QED
  BY <1>1, <1>2, PTL DEF Spec

-----------------------------------------------------------------------------
(* The inductive invariant                                                 *)

\* A member votes for one candidate per term, in terms up to its own, and its
\* vote of the current term is the one in votedFor.
VotesFinal ==
    /\ \A v, c, d \in Node, t \in Nat :
          <<v, t, c>> \in ballots /\ <<v, t, d>> \in ballots => c = d
    /\ \A v, c \in Node, t \in Nat :
          <<v, t, c>> \in ballots =>
              t <= term[v] /\ (t = term[v] => votedFor[v] = c)

\* Every vote counted or in flight was cast, for that candidate in that term.
VotesCast ==
    /\ \A n \in Node : \A v \in votes[n] : <<v, term[n], n>> \in ballots
    /\ \A m \in msgs : m.type = "Vote" /\ m.granted
                           => <<m.from, m.term, m.to>> \in ballots

\* Every election won was won by the votes of a quorum.
WonByQuorum ==
    \A n \in Node, t \in Nat : <<t, n>> \in won =>
        \E Q \in SUBSET Node :
            /\ Cardinality(Q) >= quorum
            /\ \A v \in Q : <<v, t, n>> \in ballots

\* Only a winner sends heartbeats, names itself, or is named by others.
LeadersWon ==
    /\ \A m \in msgs : m.type = "Heartbeat" => <<m.term, m.from>> \in won
    /\ \A n \in Node : role[n] = "leader" => leader[n] = n
    /\ \A n \in Node : role[n] = "candidate" => leader[n] = None
    /\ LeaderBeliefSound

NoSelfMessages == \A m \in msgs : m.from # m.to

IInv ==
    /\ TypeOK
    /\ VotesFinal
    /\ VotesCast
    /\ WonByQuorum
    /\ LeadersWon
    /\ NoSelfMessages

\* Two winners of one term share a voter, who voted once: the quorum argument.
LEMMA OneWinner ==
    ASSUME IInv, NEW t \in Nat, NEW n \in Node, NEW o \in Node,
           <<t, n>> \in won, <<t, o>> \in won
    PROVE  n = o
<1>1. PICK P \in SUBSET Node : /\ Cardinality(P) >= quorum
                               /\ \A v \in P : <<v, t, n>> \in ballots
  BY Zenon DEF IInv, WonByQuorum
<1>2. PICK Q \in SUBSET Node : /\ Cardinality(Q) >= quorum
                               /\ \A v \in Q : <<v, t, o>> \in ballots
  BY Zenon DEF IInv, WonByQuorum
<1>3. PICK v \in Node : v \in P /\ v \in Q
  BY <1>1, <1>2, QuorumsMeet, Zenon
<1> QED
  BY <1>1, <1>2, <1>3, Zenon DEF IInv, VotesFinal

\* What a Tick may send: heartbeats of a leader's own term, or those of a sole
\* member that elects itself; never a vote.
LEMMA TickSends ==
    ASSUME IInv, NEW n \in Node, NEW r \in TickMessages(n)
    PROVE  /\ r.from = n /\ r.to # n
           /\ r.type # "Vote"
           /\ r.type = "Heartbeat" =>
                 \/ HeartbeatDue(n) /\ r.term = term[n]
                 \/ TimesOut(n) /\ SoleMember /\ r.term = term[n] + 1
BY DEF TickMessages, broadcast, Peers

\* What a Step may send: a granted vote only if it grants the request, and
\* heartbeats only on counting the vote that makes the quorum.
LEMMA StepSends ==
    ASSUME IInv, NEW m \in msgs, NEW r \in StepMessages(m)
    PROVE  /\ r.from = m.to /\ r.to # m.to
           /\ r.type = "Vote" /\ r.granted =>
                 /\ m.type = "RequestVote" /\ Grants(m)
                 /\ r.to = m.from /\ r.term = m.term
           /\ r.type = "Heartbeat" =>
                 /\ m.type = "Vote" /\ Counts(m) /\ MakesQuorum(m)
                 /\ r.term = term[m.to]
<1>1. m \in Message /\ m.from # m.to
  BY Zenon DEF IInv, TypeOK, NoSelfMessages
<1>2. m.type \in {"RequestVote", "Vote", "Heartbeat", "HeartbeatAck"}
  BY <1>1, Zenon DEF Message
<1>3. CASE m.type = "RequestVote"
  <2>1. r = [type |-> "Vote", from |-> m.to, to |-> m.from,
             term |-> AnswerTerm(m), granted |-> Grants(m)]
    BY <1>3, Zenon DEF StepMessages
  <2>2. Grants(m) => AnswerTerm(m) = m.term
    BY Zenon DEF Grants, AnswerTerm
  <2> QED
    BY <1>1, <1>3, <2>1, <2>2, Zenon
<1>4. CASE m.type = "Heartbeat"
  BY <1>1, <1>4 DEF StepMessages
<1>5. CASE m.type = "Vote"
  <2>1. /\ Counts(m) /\ MakesQuorum(m)
        /\ r \in broadcast("Heartbeat", m.to, term[m.to])
    BY <1>5, Zenon DEF StepMessages
  <2> QED
    BY <1>5, <2>1 DEF broadcast, Peers
<1>6. CASE m.type = "HeartbeatAck"
  BY <1>6, Zenon DEF StepMessages
<1> QED
  BY <1>2, <1>3, <1>4, <1>5, <1>6, Zenon

\* A Tick that does not start an election changes no vote, role or belief; its
\* heartbeats come from a leader, hence from a winner.
LEMMA TickNoElectionInd ==
    ASSUME IInv, NEW n \in Node, Tick(n), TickQuietly(n) \/ TickHeartbeat(n)
    PROVE  IInv'
<1>1. TypeOK'
  BY TickType, Zenon DEF IInv
<1>2. UNCHANGED <<role, term, votedFor, leader, votes, ballots, won>>
  BY Zenon DEF TickQuietly, TickHeartbeat
<1>3. ~TimesOut(n)
  BY Zenon DEF TickQuietly, TickHeartbeat, HeartbeatDue, TimesOut
<1>4. \A r \in msgs' : r \in msgs \/ r \in TickMessages(n)
  BY Zenon DEF Tick
<1>5. VotesFinal' /\ WonByQuorum'
  BY <1>2 DEF IInv, VotesFinal, WonByQuorum
<1>6. VotesCast'
  BY <1>2, <1>4, TickSends, Zenon DEF IInv, VotesCast
<1>7. LeadersWon'
  <2>1. HeartbeatDue(n) => <<term[n], n>> \in won
    BY MembersAssumption, Zenon DEF HeartbeatDue, IInv, LeadersWon, LeaderBeliefSound
  <2>2. \A r \in msgs' : r.type = "Heartbeat" => <<r.term, r.from>> \in won'
    BY <1>2, <1>3, <1>4, <2>1, TickSends, Zenon DEF IInv, LeadersWon
  <2> QED
    BY <1>2, <2>2, Zenon DEF IInv, LeadersWon, LeaderBeliefSound
<1>8. NoSelfMessages'
  BY <1>4, TickSends, Zenon DEF IInv, NoSelfMessages
<1> QED
  BY <1>1, <1>5, <1>6, <1>7, <1>8, Zenon DEF IInv

\* A new election is held in a term in which the node has not voted; a sole
\* member's own vote is a quorum.
LEMMA StartElectionInd ==
    ASSUME IInv, NEW n \in Node, Tick(n), startElection(n)
    PROVE  IInv'
<1>1. TypeOK'
  BY TickType, Zenon DEF IInv
<1> DEFINE t == term[n] + 1
<1>2. /\ term \in [Node -> Nat] /\ votedFor \in [Node -> Node \cup {None}]
      /\ t \in Nat /\ t > term[n]
      /\ ballots \subseteq Node \X Nat \X Node /\ won \subseteq Nat \X Node
  BY DEF IInv, TypeOK
<1>3. /\ term' = [term EXCEPT ![n] = t]
      /\ votedFor' = [votedFor EXCEPT ![n] = n]
      /\ votes' = [votes EXCEPT ![n] = {n}]
      /\ ballots' = ballots \cup {<<n, t, n>>}
  BY Zenon DEF startElection
<1>4. TimesOut(n) /\ ~HeartbeatDue(n)
  BY Zenon DEF startElection, TimesOut, HeartbeatDue
<1>5. \A r \in msgs' : r \in msgs \/ r \in TickMessages(n)
  BY Zenon DEF Tick
<1>6. won \subseteq won' /\ ballots \subseteq ballots'
  BY <1>3, Zenon DEF startElection, becomeLeader
<1>7. VotesFinal'
  <2>1. \A c \in Node : <<n, t, c>> \notin ballots
    BY <1>2 DEF IInv, VotesFinal
  <2>2. ASSUME NEW v \in Node, NEW c \in Node, NEW d \in Node, NEW u \in Nat,
               <<v, u, c>> \in ballots', <<v, u, d>> \in ballots'
        PROVE  c = d
    BY <1>3, <2>1, <2>2, Zenon DEF IInv, VotesFinal
  <2>3. ASSUME NEW v \in Node, NEW c \in Node, NEW u \in Nat,
               <<v, u, c>> \in ballots'
        PROVE  u <= term'[v] /\ (u = term'[v] => votedFor'[v] = c)
    <3>1. CASE v = n /\ u = t
      BY <1>2, <1>3, <2>1, <2>3, <3>1
    <3>2. CASE v = n /\ u # t
      BY <1>2, <1>3, <2>3, <3>2 DEF IInv, VotesFinal
    <3>3. CASE v # n
      BY <1>2, <1>3, <2>3, <3>3, Zenon DEF IInv, VotesFinal
    <3> QED
      BY <3>1, <3>2, <3>3, Zenon
  <2> QED
    BY <2>2, <2>3, Zenon DEF VotesFinal
<1>8. VotesCast'
  <2>1. ASSUME NEW o \in Node, NEW v \in votes'[o]
        PROVE  <<v, term'[o], o>> \in ballots'
    BY <1>2, <1>3, Zenon DEF IInv, VotesCast, TypeOK
  <2>2. \A r \in msgs' : r.type = "Vote" /\ r.granted
                            => <<r.from, r.term, r.to>> \in ballots'
    BY <1>5, <1>6, TickSends, Zenon DEF IInv, VotesCast
  <2> QED
    BY <2>1, <2>2, Zenon DEF VotesCast
<1>9. WonByQuorum'
  <2>1. SUFFICES ASSUME NEW o \in Node, NEW u \in Nat, <<u, o>> \in won'
                 PROVE  \E Q \in SUBSET Node : /\ Cardinality(Q) >= quorum
                                               /\ \A v \in Q : <<v, u, o>> \in ballots'
    BY Zenon DEF WonByQuorum
  <2>2. CASE <<u, o>> \in won
    BY <1>6, <2>2, Zenon DEF IInv, WonByQuorum
  <2>3. CASE <<u, o>> \notin won
    <3>1. SoleMember /\ u = t /\ o = n
      BY <2>1, <2>3 DEF startElection, becomeLeader
    <3>2. Cardinality({n}) = 1
      BY FS_Singleton, Zenon
    <3>3. Cardinality({n}) >= quorum
      BY <3>1, <3>2, MembersAssumption, FS_CardinalityType, Zenon DEF SoleMember, quorum
    <3>4. {n} \in SUBSET Node /\ \A v \in {n} : <<v, u, o>> \in ballots'
      BY <1>3, <3>1, Zenon
    <3> QED
      BY <3>3, <3>4, Zenon
  <2> QED
    BY <2>2, <2>3, Zenon
<1>10. LeadersWon'
  <2>1. SoleMember => <<t, n>> \in won'
    BY Zenon DEF startElection, becomeLeader
  <2>2. \A r \in msgs' : r.type = "Heartbeat" => <<r.term, r.from>> \in won'
    BY <1>4, <1>5, <1>6, <2>1, TickSends, Zenon DEF IInv, LeadersWon
  <2>3. \A o \in Node \ {n} : UNCHANGED <<role[o], leader[o], term[o]>>
    BY <1>2, Zenon DEF startElection, becomeLeader, IInv, TypeOK
  <2>4. \/ role'[n] = "leader" /\ leader'[n] = n /\ <<term'[n], n>> \in won'
        \/ role'[n] = "candidate" /\ leader'[n] = None
    BY <1>2, <1>3, Zenon DEF startElection, becomeLeader, IInv, TypeOK
  <2> QED
    BY <1>6, <2>2, <2>3, <2>4, Zenon DEF IInv, LeadersWon, LeaderBeliefSound
<1>11. NoSelfMessages'
  BY <1>5, TickSends, Zenon DEF IInv, NoSelfMessages
<1> QED
  BY <1>1, <1>7, <1>8, <1>9, <1>10, <1>11, Zenon DEF IInv

\* Granting a vote records a first or repeated vote of the term, never a second
\* candidate's.
LEMMA StepRequestVoteInd ==
    ASSUME IInv, NEW m \in msgs, Step(m), StepRequestVote(m)
    PROVE  IInv'
<1> DEFINE n == m.to
<1>1. TypeOK'
  BY StepType, Zenon DEF IInv
<1>2. /\ n \in Node /\ m.from \in Node /\ m.term \in Nat
      /\ term \in [Node -> Nat] /\ votedFor \in [Node -> Node \cup {None}]
      /\ role \in [Node -> Role] /\ leader \in [Node -> Node \cup {None}]
      /\ votes \in [Node -> SUBSET Node]
  BY Zenon DEF IInv, TypeOK, Message
<1>3. /\ term' = [term EXCEPT ![n] = m.term]
      /\ votedFor' = [votedFor EXCEPT ![n] = m.from]
      /\ ballots' = ballots \cup {<<n, m.term, m.from>>}
      /\ won' = won
      /\ m.type = "RequestVote"
  BY Zenon DEF StepRequestVote
<1>4. \/ m.term > term[n]
      \/ m.term = term[n] /\ votedFor[n] \in {None, m.from}
  BY Zenon DEF StepRequestVote, Grants, Newer
<1>5. \A r \in msgs' : r \in msgs \/ r \in StepMessages(m)
  BY Zenon DEF Step
<1>6. /\ \A o \in Node \ {n} : UNCHANGED <<role[o], leader[o], votes[o], term[o]>>
      /\ \/ role'[n] = "follower" /\ leader'[n] = None /\ votes'[n] = {}
         \/ UNCHANGED <<role[n], leader[n], votes[n], term[n]>>
  BY <1>2, <1>4, Zenon DEF StepRequestVote, Newer
<1>7. VotesFinal'
  <2>1. \A c \in Node : <<n, m.term, c>> \in ballots => c = m.from
    BY <1>2, <1>4, MembersAssumption DEF IInv, VotesFinal
  <2>2. ASSUME NEW v \in Node, NEW c \in Node, NEW d \in Node, NEW u \in Nat,
               <<v, u, c>> \in ballots', <<v, u, d>> \in ballots'
        PROVE  c = d
    BY <1>2, <1>3, <2>1, <2>2, Zenon DEF IInv, VotesFinal
  <2>3. ASSUME NEW v \in Node, NEW c \in Node, NEW u \in Nat,
               <<v, u, c>> \in ballots'
        PROVE  u <= term'[v] /\ (u = term'[v] => votedFor'[v] = c)
    <3>1. CASE v = n /\ u = m.term
      BY <1>2, <1>3, <2>1, <2>3, <3>1
    <3>2. CASE v = n /\ u # m.term
      BY <1>2, <1>3, <1>4, <2>3, <3>2 DEF IInv, VotesFinal
    <3>3. CASE v # n
      BY <1>2, <1>3, <2>3, <3>3 DEF IInv, VotesFinal
    <3> QED
      BY <3>1, <3>2, <3>3, Zenon
  <2> QED
    BY <2>2, <2>3, Zenon DEF VotesFinal
<1>8. VotesCast'
  <2>1. \A o \in Node : \A v \in votes'[o] : <<v, term'[o], o>> \in ballots'
    BY <1>3, <1>6 DEF IInv, VotesCast
  <2>2. \A r \in msgs' : r.type = "Vote" /\ r.granted
                            => <<r.from, r.term, r.to>> \in ballots'
    BY <1>3, <1>5, StepSends, Zenon DEF IInv, VotesCast
  <2> QED
    BY <2>1, <2>2, Zenon DEF VotesCast
<1>9. WonByQuorum'
  BY <1>3, Zenon DEF IInv, WonByQuorum
<1>10. LeadersWon'
  <2>1. \A r \in msgs' : r.type = "Heartbeat" => <<r.term, r.from>> \in won'
    BY <1>3, <1>5, StepSends, Zenon DEF IInv, LeadersWon
  <2> QED
    BY <1>3, <1>6, <2>1 DEF IInv, LeadersWon, LeaderBeliefSound
<1>11. NoSelfMessages'
  BY <1>5, StepSends DEF IInv, NoSelfMessages
<1> QED
  BY <1>1, <1>7, <1>8, <1>9, <1>10, <1>11, Zenon DEF IInv

\* Counting a vote: the votes counted were cast, so a quorum of them elects.
LEMMA StepVoteInd ==
    ASSUME IInv, NEW m \in msgs, Step(m), StepVote(m)
    PROVE  IInv'
<1> DEFINE n == m.to
<1>1. TypeOK'
  BY StepType, Zenon DEF IInv
<1>2. /\ n \in Node /\ m.from \in Node /\ m.term \in Nat
      /\ term \in [Node -> Nat]
      /\ role \in [Node -> Role] /\ leader \in [Node -> Node \cup {None}]
      /\ votes \in [Node -> SUBSET Node]
  BY Zenon DEF IInv, TypeOK, Message
<1>3. /\ UNCHANGED <<term, votedFor, ballots>>
      /\ votes' = [votes EXCEPT ![n] = @ \cup {m.from}]
      /\ m.type = "Vote" /\ m.granted
      /\ m.term = term[n]
  BY Zenon DEF StepVote, Counts
<1>4. <<m.from, term[n], n>> \in ballots
  BY <1>3, Zenon DEF IInv, VotesCast
<1>5. \A r \in msgs' : r \in msgs \/ r \in StepMessages(m)
  BY Zenon DEF Step
<1>6. \/ /\ MakesQuorum(m)
         /\ role' = [role EXCEPT ![n] = "leader"]
         /\ leader' = [leader EXCEPT ![n] = n]
         /\ won' = won \cup {<<term[n], n>>}
      \/ /\ ~MakesQuorum(m)
         /\ UNCHANGED <<role, leader, won>>
  BY Zenon DEF StepVote, becomeLeader
<1>7. VotesFinal'
  BY <1>3, Zenon DEF IInv, VotesFinal
<1>8. VotesCast'
  <2>1. \A o \in Node : \A v \in votes'[o] : <<v, term'[o], o>> \in ballots'
    BY <1>2, <1>3, <1>4, Zenon DEF IInv, VotesCast
  <2>2. \A r \in msgs' : r.type = "Vote" /\ r.granted
                            => <<r.from, r.term, r.to>> \in ballots'
    BY <1>3, <1>5, StepSends, Zenon DEF IInv, VotesCast
  <2> QED
    BY <2>1, <2>2, Zenon DEF VotesCast
<1>9. WonByQuorum'
  <2>1. SUFFICES ASSUME NEW o \in Node, NEW u \in Nat, <<u, o>> \in won'
                 PROVE  \E Q \in SUBSET Node : /\ Cardinality(Q) >= quorum
                                               /\ \A v \in Q : <<v, u, o>> \in ballots'
    BY Zenon DEF WonByQuorum
  <2>2. CASE <<u, o>> \in won
    BY <1>3, <2>2, Zenon DEF IInv, WonByQuorum
  <2>3. CASE <<u, o>> \notin won
    <3>1. MakesQuorum(m) /\ u = term[n] /\ o = n
      BY <1>6, <2>1, <2>3
    <3> DEFINE Q == votes[n] \cup {m.from}
    <3>2. Q \in SUBSET Node /\ Cardinality(Q) >= quorum
      BY <1>2, <3>1, Zenon DEF MakesQuorum
    <3>3. \A v \in Q : <<v, u, o>> \in ballots'
      BY <1>2, <1>3, <1>4, <3>1, Zenon DEF IInv, VotesCast
    <3> HIDE DEF Q
    <3> QED
      BY <3>2, <3>3, Zenon
  <2> QED
    BY <2>2, <2>3, Zenon
<1>10. LeadersWon'
  <2>1. \A r \in msgs' : r.type = "Heartbeat" => <<r.term, r.from>> \in won'
    BY <1>5, <1>6, StepSends, Zenon DEF IInv, LeadersWon
  <2> QED
    BY <1>2, <1>3, <1>6, <2>1 DEF IInv, LeadersWon, LeaderBeliefSound
<1>11. NoSelfMessages'
  BY <1>5, StepSends DEF IInv, NoSelfMessages
<1> QED
  BY <1>1, <1>7, <1>8, <1>9, <1>10, <1>11, Zenon DEF IInv

\* Following l in term t is sound when l won t or nobody is named.
LEMMA FollowInd ==
    ASSUME IInv, NEW m \in msgs, Step(m), m.type # "RequestVote",
           ~(m.type = "Vote" /\ Counts(m)),
           NEW l \in Node \cup {None}, l # None => <<m.term, l>> \in won,
           ~Stale(m), becomeFollower(m.to, m.term, l)
    PROVE  IInv'
<1> DEFINE n == m.to
<1>1. TypeOK'
  BY StepType, Zenon DEF IInv
<1>2. /\ n \in Node /\ m.term \in Nat /\ m.term >= term[n]
      /\ term \in [Node -> Nat] /\ votedFor \in [Node -> Node \cup {None}]
      /\ role \in [Node -> Role] /\ leader \in [Node -> Node \cup {None}]
      /\ votes \in [Node -> SUBSET Node]
  BY DEF IInv, TypeOK, Message, Stale
<1>3. /\ term' = [term EXCEPT ![n] = m.term]
      /\ votedFor' = [votedFor EXCEPT ![n] = IF m.term > term[n] THEN None ELSE @]
      /\ role' = [role EXCEPT ![n] = "follower"]
      /\ leader' = [leader EXCEPT ![n] = l]
      /\ votes' = [votes EXCEPT ![n] = {}]
      /\ UNCHANGED <<ballots, won>>
  BY Zenon DEF becomeFollower
<1>4. \A r \in msgs' : \/ r \in msgs
                        \/ /\ r.from # r.to
                           /\ r.type # "Heartbeat"
                           /\ ~(r.type = "Vote" /\ r.granted)
  BY StepSends, Zenon DEF Step
<1>5. VotesFinal'
  <2>1. ASSUME NEW v \in Node, NEW c \in Node, NEW u \in Nat,
               <<v, u, c>> \in ballots'
        PROVE  u <= term'[v] /\ (u = term'[v] => votedFor'[v] = c)
    <3>1. /\ <<v, u, c>> \in ballots /\ term[v] \in Nat
          /\ u <= term[v] /\ (u = term[v] => votedFor[v] = c)
      BY <1>2, <1>3, <2>1, Zenon DEF IInv, VotesFinal
    <3>2. CASE v = n /\ m.term > term[n]
      BY <1>2, <1>3, <3>1, <3>2
    <3>3. CASE v = n /\ m.term = term[n]
      BY <1>2, <1>3, <3>1, <3>3
    <3>4. CASE v # n
      BY <1>2, <1>3, <3>1, <3>4, Zenon
    <3> QED
      BY <1>2, <3>2, <3>3, <3>4
  <2> QED
    BY <1>3, <2>1, Zenon DEF IInv, VotesFinal
<1>6. VotesCast'
  BY <1>2, <1>3, <1>4, Zenon DEF IInv, VotesCast
<1>7. WonByQuorum'
  BY <1>3, Zenon DEF IInv, WonByQuorum
<1>8. LeadersWon'
  BY <1>2, <1>3, <1>4, Zenon DEF IInv, LeadersWon, LeaderBeliefSound
<1>9. NoSelfMessages'
  BY <1>4, Zenon DEF IInv, NoSelfMessages
<1> QED
  BY <1>1, <1>5, <1>6, <1>7, <1>8, <1>9, Zenon DEF IInv

\* An ignored message may be answered, but never with a granted vote or a
\* heartbeat.
LEMMA StepIgnoredInd ==
    ASSUME IInv, NEW m \in msgs, Step(m), StepIgnored(m)
    PROVE  IInv'
<1>1. TypeOK'
  BY StepType, Zenon DEF IInv
<1>2. UNCHANGED <<role, term, votedFor, leader, votes, ballots, won>>
  BY Zenon DEF StepIgnored, nodeVars
<1>3. \A r \in msgs' : \/ r \in msgs
                        \/ /\ r.from # r.to
                           /\ r.type # "Heartbeat"
                           /\ ~(r.type = "Vote" /\ r.granted)
  BY StepSends, Zenon DEF Step, StepIgnored, Ignored
<1> QED
  BY <1>1, <1>2, <1>3
     DEF IInv, VotesFinal, VotesCast, WonByQuorum, LeadersWon, LeaderBeliefSound,
         NoSelfMessages

\* IInv is inductive.
LEMMA Inductive == IInv /\ [Next]_vars => IInv'
<1> SUFFICES ASSUME IInv, [Next]_vars PROVE IInv'
  BY Zenon
<1>1. CASE UNCHANGED vars
  BY <1>1, Zenon DEF vars, IInv, TypeOK, VotesFinal, VotesCast, WonByQuorum, LeadersWon,
              LeaderBeliefSound, NoSelfMessages
<1>2. ASSUME NEW n \in Node, Tick(n) PROVE IInv'
  BY <1>2, TickNoElectionInd, StartElectionInd, Zenon DEF Tick, TickNode
<1>3. ASSUME NEW m \in msgs, Step(m) PROVE IInv'
  <2>1. CASE StepRequestVote(m)
    BY <1>3, <2>1, StepRequestVoteInd, Zenon
  <2>2. CASE StepVote(m)
    BY <1>3, <2>2, StepVoteInd, Zenon
  <2>3. CASE StepHeartbeat(m)
    <3>1. m.from \in Node /\ <<m.term, m.from>> \in won
      BY <2>3, Zenon DEF StepHeartbeat, IInv, LeadersWon, TypeOK, Message
    <3> QED
      BY <1>3, <2>3, <3>1, FollowInd, Zenon DEF StepHeartbeat
  <2>4. CASE StepNewerAnswer(m)
    <3>1. ~Stale(m) /\ ~Counts(m)
      BY <2>4 DEF StepNewerAnswer, Newer, Stale, Counts, IInv, TypeOK, Message
    <3> QED
      BY <1>3, <2>4, <3>1, FollowInd, Zenon DEF StepNewerAnswer
  <2>5. CASE StepIgnored(m)
    BY <1>3, <2>5, StepIgnoredInd, Zenon
  <2> QED
    BY <1>3, <2>1, <2>2, <2>3, <2>4, <2>5, Zenon DEF Step, StepNode
<1> QED
  BY <1>1, <1>2, <1>3, Zenon DEF Next

\* IInv holds throughout.
LEMMA Invariance == Spec => []IInv
<1>1. ElectionInit => IInv
  <2>1. ElectionInit => TypeOK
    BY DEF ElectionInit, Init, TypeOK, Role
  <2> QED
    BY <2>1, Zenon DEF ElectionInit, Init, IInv, VotesFinal, VotesCast, WonByQuorum,
                LeadersWon, LeaderBeliefSound, NoSelfMessages
<1> QED
  BY <1>1, Inductive, PTL DEF Spec

-----------------------------------------------------------------------------
(* The theorems                                                            *)

\* At most one node wins any term, for every cluster size and transport.
THEOREM OneLeaderPerTerm == Spec => []ElectionSafety
<1>1. IInv => ElectionSafety
  <2> SUFFICES ASSUME IInv, NEW e \in won, NEW f \in won, e[1] = f[1]
               PROVE  e[2] = f[2]
    BY Zenon DEF ElectionSafety
  <2>1. /\ e = <<e[1], e[2]>> /\ e[1] \in Nat /\ e[2] \in Node
        /\ f = <<f[1], f[2]>> /\ f[2] \in Node
    BY DEF IInv, TypeOK
  <2> QED
    BY <2>1, OneWinner, Zenon
<1> QED
  BY <1>1, Invariance, PTL

\* No node ever names a leader that did not win the node's current term.
THEOREM BeliefsSound == Spec => []LeaderBeliefSound
<1>1. IInv => LeaderBeliefSound
  BY Zenon DEF IInv, LeadersWon
<1> QED
  BY <1>1, Invariance, PTL

\* The heartbeat case that Step's comment says cannot happen, cannot happen.
THEOREM NoRival == Spec => []NoRivalHeartbeat
<1>1. IInv => NoRivalHeartbeat
  <2> SUFFICES ASSUME IInv, NEW m \in msgs, m.type = "Heartbeat",
                      role[m.to] = "leader", m.term = term[m.to]
               PROVE  FALSE
    BY Zenon DEF NoRivalHeartbeat
  <2>1. m.to \in Node /\ m.from \in Node /\ m.term \in Nat /\ m.from # m.to
    BY Zenon DEF IInv, TypeOK, Message, NoSelfMessages
  <2>2. <<m.term, m.from>> \in won /\ <<m.term, m.to>> \in won
    BY <2>1, MembersAssumption, Zenon DEF IInv, LeadersWon, LeaderBeliefSound
  <2> QED
    BY <2>1, <2>2, OneWinner, Zenon
<1> QED
  BY <1>1, Invariance, PTL

-----------------------------------------------------------------------------
(* Terms move forward, and the cluster implements ElectionService          *)

\* What one call may do to the caller-visible state of node n: nothing, move
\* to a later term, learn of the current term's winner, or win.
Moves(n) ==
    /\ \A o \in Node \ {n} : UNCHANGED <<term[o], role[o], leader[o], votedFor[o]>>
    /\ \/ \* no change of term or leader; perhaps a first vote
          /\ UNCHANGED <<term, role, leader, won>>
          /\ votedFor[n] # None => votedFor'[n] = votedFor[n]
       \/ \* a later term, led by nobody known or by its winner
          /\ term'[n] > term[n] /\ UNCHANGED won
          /\ leader'[n] # None => <<term'[n], leader'[n]>> \in won
          /\ role'[n] \in {"follower", "candidate"}
       \/ \* a heartbeat of the current term
          /\ UNCHANGED <<term, votedFor, won>> /\ role[n] # "leader"
          /\ leader'[n] \in Node /\ <<term[n], leader'[n]>> \in won
          /\ role'[n] = "follower"
       \/ \* a won election
          /\ UNCHANGED votedFor \/ term'[n] > term[n]
          /\ \/ term'[n] = term[n] + 1
             \/ term'[n] = term[n] /\ role[n] = "candidate"
          /\ won' = won \cup {<<term'[n], n>>}
          /\ leader'[n] = n /\ role'[n] = "leader"

\* Tick and Step are such moves, of the node called.
LEMMA CallsMove ==
    ASSUME IInv, Next
    PROVE  \E n \in Node : Moves(n)
<1>1. /\ term \in [Node -> Nat] /\ votedFor \in [Node -> Node \cup {None}]
      /\ role \in [Node -> Role] /\ leader \in [Node -> Node \cup {None}]
  BY Zenon DEF IInv, TypeOK
<1>2. ASSUME NEW n \in Node, Tick(n) PROVE Moves(n)
  <2>1. CASE TickQuietly(n) \/ TickHeartbeat(n)
    BY <2>1, Zenon DEF TickQuietly, TickHeartbeat, Moves
  <2>2. CASE startElection(n)
    <3>1. /\ term' = [term EXCEPT ![n] = @ + 1]
          /\ votedFor' = [votedFor EXCEPT ![n] = n]
          /\ \/ /\ role' = [role EXCEPT ![n] = "leader"]
                /\ leader' = [leader EXCEPT ![n] = n]
                /\ won' = won \cup {<<term[n] + 1, n>>}
             \/ /\ role' = [role EXCEPT ![n] = "candidate"]
                /\ leader' = [leader EXCEPT ![n] = None]
                /\ UNCHANGED won
      BY <2>2, Zenon DEF startElection, becomeLeader
    <3>2. term'[n] = term[n] + 1 /\ term'[n] > term[n]
      BY <1>1, <3>1
    <3>3. \A o \in Node \ {n} : UNCHANGED <<term[o], role[o], leader[o], votedFor[o]>>
      BY <1>1, <3>1, Zenon
    <3> QED
      BY <1>1, <3>1, <3>2, <3>3, Zenon DEF Moves
  <2> QED
    BY <1>2, <2>1, <2>2, Zenon DEF Tick, TickNode
<1>3. ASSUME NEW m \in msgs, Step(m) PROVE Moves(m.to)
  <2> DEFINE n == m.to
  <2>1. n \in Node /\ m.from \in Node /\ m.term \in Nat
    BY Zenon DEF IInv, TypeOK, Message
  <2>2. CASE StepRequestVote(m)
    <3>1. CASE m.term > term[n]
      BY <1>1, <2>1, <2>2, <3>1, Zenon DEF StepRequestVote, Newer, Moves
    <3>2. CASE ~(m.term > term[n])
      <4>1. m.term = term[n] /\ votedFor[n] \in {None, m.from}
        BY <2>2, <3>2, Zenon DEF StepRequestVote, Grants, Newer
      <4>2. UNCHANGED <<term, role, leader, won>>
        BY <1>1, <2>1, <2>2, <3>2, <4>1, Zenon DEF StepRequestVote, Newer
      <4>3. votedFor' = [votedFor EXCEPT ![n] = m.from]
        BY <2>2, Zenon DEF StepRequestVote
      <4> QED
        BY <1>1, <2>1, <4>1, <4>2, <4>3, Zenon DEF Moves
    <3> QED
      BY <3>1, <3>2, Zenon
  <2>3. CASE StepVote(m)
    <3>1. UNCHANGED <<term, votedFor>> /\ role[n] = "candidate"
      BY <2>3, Zenon DEF StepVote, Counts
    <3>2. CASE MakesQuorum(m)
      BY <1>1, <2>1, <2>3, <3>1, <3>2, Zenon DEF StepVote, becomeLeader, Moves
    <3>3. CASE ~MakesQuorum(m)
      BY <2>3, <3>1, <3>3, Zenon DEF StepVote, Moves
    <3> QED
      BY <3>2, <3>3, Zenon
  <2>4. CASE StepHeartbeat(m)
    <3>1. <<m.term, m.from>> \in won /\ m.from # None
      BY <2>1, <2>4, MembersAssumption, Zenon DEF StepHeartbeat, IInv, LeadersWon
    <3>2. CASE m.term > term[n]
      BY <1>1, <2>1, <2>4, <3>1, <3>2, Zenon DEF StepHeartbeat, becomeFollower, Moves
    <3>3. CASE ~(m.term > term[n])
      <4>1. m.term = term[n] /\ role[n] # "leader"
        BY <1>1, <2>1, <2>4, <3>3 DEF StepHeartbeat, Stale, Newer
      <4>2. /\ UNCHANGED <<term, votedFor, won>>
            /\ role' = [role EXCEPT ![n] = "follower"]
            /\ leader' = [leader EXCEPT ![n] = m.from]
        BY <1>1, <2>1, <2>4, <3>3, <4>1, Zenon DEF StepHeartbeat, becomeFollower
      <4> QED
        BY <1>1, <2>1, <3>1, <4>1, <4>2, Zenon DEF Moves
    <3> QED
      BY <3>2, <3>3, Zenon
  <2>5. CASE StepNewerAnswer(m)
    BY <1>1, <2>1, <2>5, Zenon DEF StepNewerAnswer, Newer, becomeFollower, Moves
  <2>6. CASE StepIgnored(m)
    BY <2>6, Zenon DEF StepIgnored, nodeVars, Moves
  <2> QED
    BY <1>3, <2>2, <2>3, <2>4, <2>5, <2>6, Zenon DEF Step, StepNode
<1>4. \A m \in msgs : m.to \in Node
  BY Zenon DEF IInv, TypeOK, Message
<1> QED
  BY <1>2, <1>3, <1>4, Zenon DEF Next

\* Terms never go back; within a term a vote, a leader's role and a known
\* leader are final.
THEOREM TermsDisciplined == Spec => TermDiscipline
<1>1. IInv /\ [Next]_vars =>
        [\A n \in Node :
          /\ term'[n] >= term[n]
          /\ term'[n] = term[n] =>
                /\ votedFor[n] # None => votedFor'[n] = votedFor[n]
                /\ role[n] = "leader" => role'[n] = "leader"
                /\ leader[n] # None => leader'[n] = leader[n]]_vars
  <2> SUFFICES ASSUME IInv, Next, NEW o \in Node
               PROVE  /\ term'[o] >= term[o]
                      /\ term'[o] = term[o] =>
                            /\ votedFor[o] # None => votedFor'[o] = votedFor[o]
                            /\ role[o] = "leader" => role'[o] = "leader"
                            /\ leader[o] # None => leader'[o] = leader[o]
    BY Zenon
  <2>1. PICK n \in Node : Moves(n)
    BY CallsMove, Zenon
  <2>2. term[o] \in Nat /\ term'[o] \in Nat /\ leader[o] \in Node \cup {None}
    <3>1. IInv'
      BY Inductive, Zenon
    <3> QED
      BY <3>1, Zenon DEF IInv, TypeOK
  <2>3. leader[o] # None => <<term[o], leader[o]>> \in won
    BY Zenon DEF IInv, LeadersWon, LeaderBeliefSound
  <2>4. role[o] = "candidate" => leader[o] = None
    BY Zenon DEF IInv, LeadersWon
  <2>5. CASE o # n
    BY <2>1, <2>2, <2>5 DEF Moves
  <2>6. CASE o = n
    <3>1. ASSUME leader[o] # None, leader'[o] \in Node,
                 <<term[o], leader'[o]>> \in won
          PROVE  leader'[o] = leader[o]
      BY <2>2, <2>3, <3>1, OneWinner, Zenon
    <3> QED
      BY <2>1, <2>2, <2>4, <2>6, <3>1 DEF Moves
  <2> QED
    BY <2>5, <2>6, Zenon
<1> QED
  BY <1>1, Invariance, PTL DEF Spec, TermDiscipline

\* A node's wins are of terms up to its own, and a candidate has not yet won.
WinnersPast ==
    \A n \in Node, t \in Nat : <<t, n>> \in won =>
        t <= term[n] /\ (role[n] = "candidate" => t < term[n])

\* WinnersPast is preserved.
LEMMA WinnersPastInd ==
    IInv /\ WinnersPast /\ [Next]_vars => WinnersPast'
<1> SUFFICES ASSUME IInv, WinnersPast, [Next]_vars PROVE WinnersPast'
  BY Zenon
<1>1. CASE UNCHANGED vars
  BY <1>1, Zenon DEF vars, WinnersPast
<1>2. CASE Next
  <2>1. PICK n \in Node : Moves(n)
    BY <1>2, CallsMove, Zenon
  <2>2. term \in [Node -> Nat] /\ term' \in [Node -> Nat]
    <3>1. IInv'
      BY Inductive, Zenon
    <3> QED
      BY <3>1, Zenon DEF IInv, TypeOK
  <2> SUFFICES ASSUME NEW o \in Node, NEW t \in Nat, <<t, o>> \in won'
               PROVE  t <= term'[o] /\ (role'[o] = "candidate" => t < term'[o])
    BY Zenon DEF WinnersPast
  <2>3. CASE <<t, o>> \in won
    <3>1. t <= term[o] /\ (role[o] = "candidate" => t < term[o])
      BY <2>3, Zenon DEF WinnersPast
    <3>2. /\ term'[o] >= term[o]
          /\ role'[o] = "candidate" => term'[o] > term[o] \/ role[o] = "candidate"
      <4>1. term[o] \in Nat /\ term'[o] \in Nat
        BY <2>2, Zenon
      <4>2. CASE o = n
        BY <2>1, <4>1, <4>2 DEF Moves
      <4>3. CASE o # n
        BY <2>1, <4>1, <4>3 DEF Moves
      <4> QED
        BY <4>2, <4>3, Zenon
    <3> QED
      BY <2>2, <3>1, <3>2
  <2>4. CASE <<t, o>> \notin won
    BY <2>1, <2>2, <2>4 DEF Moves
  <2> QED
    BY <2>3, <2>4, Zenon
<1> QED
  BY <1>1, <1>2, Zenon

\* No term has two results.
WrittenOnce ==
    \A t \in Nat, p, q \in Node : <<t, p>> \in won /\ <<t, q>> \in won => p = q

\* The quorum argument in the state after a step.
LEMMA OneWinnerNext == IInv' => WrittenOnce'
<1>1. IInv => WrittenOnce
  BY OneWinner, Zenon DEF WrittenOnce
<1> QED
  BY <1>1, PTL

\* Every step of the cluster is a step of the election service, or a stutter.
LEMMA ServiceStep ==
    ASSUME IInv, WinnersPast, Next
    PROVE  Service!Next \/ UNCHANGED <<won, term, leader>>
<1>1. PICK n \in Node : Moves(n)
  BY CallsMove, Zenon
<1>2. IInv'
  BY Inductive, Zenon
<1>3. /\ term \in [Node -> Nat] /\ term' \in [Node -> Nat]
      /\ leader \in [Node -> Node \cup {None}] /\ leader' \in [Node -> Node \cup {None}]
      /\ won \subseteq Nat \X Node
  BY <1>2, Zenon DEF IInv, TypeOK
<1>4. Service!See(n, term'[n], leader'[n])
  <2>1. \A o \in Node \ {n} : term'[o] = term[o] /\ leader'[o] = leader[o]
    BY <1>1, Zenon DEF Moves
  <2> QED
    BY <1>3, <2>1, Zenon DEF Service!See
<1>5. CASE UNCHANGED <<term, role, leader, won>>
  BY <1>5, Zenon
<1>6. CASE /\ term'[n] > term[n] /\ UNCHANGED won
           /\ leader'[n] # None => <<term'[n], leader'[n]>> \in won
  BY <1>3, <1>4, <1>6, Zenon
     DEF Service!Next, Service!Advance, Service!Learn, Service!Forward
<1>7. CASE /\ UNCHANGED <<term, won>> /\ leader'[n] \in Node
           /\ <<term[n], leader'[n]>> \in won
  <2>1. CASE leader[n] = None
    BY <1>3, <1>4, <1>7, <2>1, Zenon DEF Service!Next, Service!Learn, Service!Forward
  <2>2. CASE leader[n] # None
    <3>1. <<term[n], leader[n]>> \in won
      BY <2>2, Zenon DEF IInv, LeadersWon, LeaderBeliefSound
    <3>2. leader'[n] = leader[n]
      BY <1>3, <1>7, <2>2, <3>1, OneWinner, Zenon
    <3> QED
      BY <1>3, <1>4, <1>7, <3>2 DEF Service!See
  <2> QED
    BY <2>1, <2>2, Zenon
<1>8. CASE /\ term'[n] = term[n] + 1 \/ (term'[n] = term[n] /\ role[n] = "candidate")
           /\ won' = won \cup {<<term'[n], n>>}
           /\ leader'[n] = n
  <2>1. Service!Forward(n, term'[n])
    BY <1>3, <1>8 DEF Service!Forward, IInv, LeadersWon
  <2>2. ASSUME NEW e \in won, e[1] = term'[n] PROVE FALSE
    <3>1. e = <<term'[n], e[2]>> /\ e[2] \in Node /\ term'[n] \in Nat
      BY <1>3, <2>2
    <3>2. <<term'[n], e[2]>> \in won' /\ <<term'[n], n>> \in won'
      BY <1>8, <3>1, Zenon
    <3>3. \A p, q \in Node : <<term'[n], p>> \in won' /\ <<term'[n], q>> \in won' => p = q
      BY <1>2, <3>1, OneWinnerNext, Zenon DEF WrittenOnce
    <3>4. <<term'[n], n>> \in won
      BY <3>1, <3>2, <3>3, Zenon
    <3> QED
      BY <1>3, <1>8, <3>4 DEF WinnersPast
  <2> QED
    BY <1>3, <1>4, <1>8, <2>1, <2>2, Zenon DEF Service!Next, Service!Elect
<1> QED
  BY <1>1, <1>5, <1>6, <1>7, <1>8, Zenon DEF Moves

\* The raft nodes implement the election service, over any transport.
THEOREM RefinesService == Spec => ImplementsService
<1>1. ElectionInit => Service!Init /\ WinnersPast
  BY Zenon DEF ElectionInit, Init, Service!Init, WinnersPast
<1>2. IInv /\ WinnersPast /\ [Next]_vars
         => [Service!Next]_<<won, term, leader>>
  BY ServiceStep, Zenon DEF vars
<1> QED
  BY <1>1, <1>2, Invariance, WinnersPastInd, PTL
     DEF Spec, ImplementsService, Service!Spec, Service!view

-----------------------------------------------------------------------------
(* The statistics                                                          *)

OwnWins(n) == {e \in won : e[2] = n}
OwnBallots(n) == {b \in ballots : b[1] = n /\ b[3] = n}

\* CountersExact, with the finiteness that counting needs.
CountInv ==
    \A n \in Node :
        /\ IsFiniteSet(OwnWins(n)) /\ electionsWon[n] = Cardinality(OwnWins(n))
        /\ IsFiniteSet(OwnBallots(n)) /\ electionsBegun[n] = Cardinality(OwnBallots(n))

\* A call counts a win when, and only when, it wins a term not won before.
WinCounted ==
    \/ UNCHANGED <<won, electionsWon>>
    \/ \E n \in Node, t \in Nat :
          /\ <<t, n>> \notin won /\ won' = won \cup {<<t, n>>}
          /\ electionsWon' = [electionsWon EXCEPT ![n] = @ + 1]

\* A call counts an election when, and only when, it casts a first vote of a term
\* for its own node.
ElectionCounted ==
    \/ UNCHANGED <<electionsBegun, ballots>>
    \/ /\ UNCHANGED electionsBegun
       /\ \E v, c \in Node, t \in Nat : v # c /\ ballots' = ballots \cup {<<v, t, c>>}
    \/ \E n \in Node, t \in Nat :
          /\ <<n, t, n>> \notin ballots /\ ballots' = ballots \cup {<<n, t, n>>}
          /\ electionsBegun' = [electionsBegun EXCEPT ![n] = @ + 1]

\* A candidate has not won the term it stands in, and nobody has voted in, or won,
\* a term it has yet to enter; so every call counts what it does once.
LEMMA CallsCount ==
    ASSUME IInv, WinnersPast, Next
    PROVE  WinCounted /\ ElectionCounted
<1>1. /\ term \in [Node -> Nat] /\ ballots \subseteq Node \X Nat \X Node
      /\ won \subseteq Nat \X Node
  BY Zenon DEF IInv, TypeOK
<1>2. ASSUME NEW n \in Node, Tick(n) PROVE WinCounted /\ ElectionCounted
  <2>1. CASE TickQuietly(n) \/ TickHeartbeat(n)
    BY <2>1, Zenon DEF TickQuietly, TickHeartbeat, WinCounted, ElectionCounted
  <2>2. CASE startElection(n)
    <3> DEFINE t == term[n] + 1
    <3>1. t \in Nat /\ t > term[n]
      BY <1>1
    <3>2. <<t, n>> \notin won /\ <<n, t, n>> \notin ballots
      BY <1>1, <3>1 DEF WinnersPast, IInv, VotesFinal
    <3>3. WinCounted
      BY <2>2, <3>1, <3>2, Zenon DEF startElection, becomeLeader, WinCounted
    <3>4. ElectionCounted
      BY <2>2, <3>1, <3>2, Zenon DEF startElection, ElectionCounted
    <3> QED
      BY <3>3, <3>4, Zenon
  <2> QED
    BY <1>2, <2>1, <2>2, Zenon DEF Tick, TickNode
<1>3. ASSUME NEW m \in msgs, Step(m) PROVE WinCounted /\ ElectionCounted
  <2>1. m.to \in Node /\ m.from \in Node /\ m.term \in Nat /\ m.from # m.to
    BY Zenon DEF IInv, TypeOK, Message, NoSelfMessages
  <2>2. CASE StepRequestVote(m)
    BY <2>1, <2>2, Zenon DEF StepRequestVote, WinCounted, ElectionCounted
  <2>3. CASE StepVote(m)
    <3>1. <<term[m.to], m.to>> \notin won /\ term[m.to] \in Nat
      BY <1>1, <2>1, <2>3 DEF StepVote, Counts, WinnersPast
    <3>2. WinCounted
      BY <2>1, <2>3, <3>1, Zenon DEF StepVote, becomeLeader, WinCounted
    <3>3. ElectionCounted
      BY <2>3, Zenon DEF StepVote, ElectionCounted
    <3> QED
      BY <3>2, <3>3, Zenon
  <2>4. CASE StepHeartbeat(m) \/ StepNewerAnswer(m)
    BY <2>4, Zenon DEF StepHeartbeat, StepNewerAnswer, becomeFollower, WinCounted, ElectionCounted
  <2>5. CASE StepIgnored(m)
    BY <2>5, Zenon DEF StepIgnored, nodeVars, WinCounted, ElectionCounted
  <2> QED
    BY <1>3, <2>2, <2>3, <2>4, <2>5, Zenon DEF Step, StepNode
<1> QED
  BY <1>2, <1>3, Zenon DEF Next

\* Counting a new result, or a new vote of a node for itself, keeps the counts exact.
LEMMA CountInvInd ==
    IInv /\ WinnersPast /\ CountInv /\ [Next]_vars => CountInv'
<1> SUFFICES ASSUME IInv, WinnersPast, CountInv, [Next]_vars PROVE CountInv'
  BY Zenon
<1>1. CASE UNCHANGED vars
  BY <1>1, Zenon DEF vars, CountInv, OwnWins, OwnBallots
<1>2. CASE Next
  <2>1. WinCounted /\ ElectionCounted
    BY <1>2, CallsCount, Zenon
  <2>2. electionsWon \in [Node -> Nat] /\ electionsBegun \in [Node -> Nat]
    BY Zenon DEF IInv, TypeOK
  <2> SUFFICES ASSUME NEW o \in Node
               PROVE  /\ IsFiniteSet(OwnWins(o)')
                      /\ electionsWon'[o] = Cardinality(OwnWins(o)')
                      /\ IsFiniteSet(OwnBallots(o)')
                      /\ electionsBegun'[o] = Cardinality(OwnBallots(o)')
    BY Zenon DEF CountInv
  <2>3. /\ IsFiniteSet(OwnWins(o)) /\ electionsWon[o] = Cardinality(OwnWins(o))
        /\ IsFiniteSet(OwnBallots(o)) /\ electionsBegun[o] = Cardinality(OwnBallots(o))
    BY Zenon DEF CountInv
  <2>4. IsFiniteSet(OwnWins(o)') /\ electionsWon'[o] = Cardinality(OwnWins(o)')
    <3>1. CASE UNCHANGED <<won, electionsWon>>
      BY <2>3, <3>1, Zenon DEF OwnWins
    <3>2. ASSUME NEW n \in Node, NEW t \in Nat, <<t, n>> \notin won,
                 won' = won \cup {<<t, n>>},
                 electionsWon' = [electionsWon EXCEPT ![n] = @ + 1]
          PROVE  IsFiniteSet(OwnWins(o)') /\ electionsWon'[o] = Cardinality(OwnWins(o)')
      <4>1. CASE o = n
        <5>1. OwnWins(o)' = OwnWins(o) \cup {<<t, n>>} /\ <<t, n>> \notin OwnWins(o)
          BY <3>2, <4>1 DEF OwnWins
        <5>2. electionsWon'[o] = electionsWon[o] + 1
          BY <2>2, <3>2, <4>1, Zenon
        <5> QED
          BY <2>3, <5>1, <5>2, FS_AddElement, Zenon
      <4>2. CASE o # n
        <5>1. OwnWins(o)' = OwnWins(o)
          BY <3>2, <4>2 DEF OwnWins
        <5> QED
          BY <2>2, <2>3, <3>2, <4>2, <5>1, Zenon
      <4> QED
        BY <4>1, <4>2, Zenon
    <3> QED
      BY <2>1, <3>1, <3>2, Zenon DEF WinCounted
  <2>5. IsFiniteSet(OwnBallots(o)') /\ electionsBegun'[o] = Cardinality(OwnBallots(o)')
    <3>1. CASE /\ UNCHANGED electionsBegun
               /\ \/ UNCHANGED ballots
                  \/ \E v, c \in Node, t \in Nat : v # c /\ ballots' = ballots \cup {<<v, t, c>>}
      <4>1. OwnBallots(o)' = OwnBallots(o)
        BY <3>1 DEF OwnBallots
      <4> QED
        BY <2>3, <3>1, <4>1, Zenon
    <3>2. ASSUME NEW n \in Node, NEW t \in Nat, <<n, t, n>> \notin ballots,
                 ballots' = ballots \cup {<<n, t, n>>},
                 electionsBegun' = [electionsBegun EXCEPT ![n] = @ + 1]
          PROVE  /\ IsFiniteSet(OwnBallots(o)')
                 /\ electionsBegun'[o] = Cardinality(OwnBallots(o)')
      <4>1. CASE o = n
        <5>1. /\ OwnBallots(o)' = OwnBallots(o) \cup {<<n, t, n>>}
              /\ <<n, t, n>> \notin OwnBallots(o)
          BY <3>2, <4>1 DEF OwnBallots
        <5>2. electionsBegun'[o] = electionsBegun[o] + 1
          BY <2>2, <3>2, <4>1, Zenon
        <5> QED
          BY <2>3, <5>1, <5>2, FS_AddElement, Zenon
      <4>2. CASE o # n
        <5>1. OwnBallots(o)' = OwnBallots(o)
          BY <3>2, <4>2 DEF OwnBallots
        <5> QED
          BY <2>2, <2>3, <3>2, <4>2, <5>1, Zenon
      <4> QED
        BY <4>1, <4>2, Zenon
    <3> QED
      BY <2>1, <3>1, <3>2, Zenon DEF ElectionCounted
  <2> QED
    BY <2>4, <2>5, Zenon
<1> QED
  BY <1>1, <1>2, Zenon

\* The statistics are exact: every node's elections won and begun are the terms it
\* won and the terms in which it stood, however votes are delayed or repeated.
THEOREM StatisticsExact == Spec => []CountersExact
<1>1. ElectionInit => WinnersPast /\ CountInv
  <2>1. ElectionInit => \A n \in Node : OwnWins(n) = {} /\ OwnBallots(n) = {}
    BY Zenon DEF ElectionInit, Init, OwnWins, OwnBallots
  <2>2. ElectionInit => \A n \in Node : electionsWon[n] = 0 /\ electionsBegun[n] = 0
    BY Zenon DEF ElectionInit, Init
  <2>3. ElectionInit => WinnersPast
    BY Zenon DEF ElectionInit, Init, WinnersPast
  <2> QED
    BY <2>1, <2>2, <2>3, FS_EmptySet, Zenon DEF CountInv
<1>2. CountInv => CountersExact
  BY Zenon DEF CountInv, CountersExact, OwnWins, OwnBallots
<1> QED
  BY <1>1, <1>2, Invariance, WinnersPastInd, CountInvInd, PTL DEF Spec

-----------------------------------------------------------------------------
(* What a call does to the node called, for proofs about a given transport *)

\* A candidate or leader has voted for itself; a leader's timer stays within the
\* heartbeat interval; and no message is of a term its sender, or the candidate it
\* votes for, has yet to enter.
CallInv ==
    /\ \A n \in Node : role[n] # "follower" => votedFor[n] = n
    /\ \A n \in Node : role[n] = "leader" => elapsed[n] < HeartbeatTicks
    /\ \A m \in msgs : /\ m.term <= term[m.from]
                       /\ m.type = "Vote" /\ m.granted => m.term <= term[m.to]

\* Step is about the receiver.  It never goes back in term, and is at least in the
\* message's term afterwards; its timer is untouched or reset; a leader that stays
\* one is untouched; a new leader has counted the vote that makes its quorum; who
\* stays a candidate has at most counted a vote; and who names a leader named it
\* before, or has its heartbeat.
StepEffect(m) ==
    LET n == m.to IN
    /\ \A p \in Node \ {n} :
          UNCHANGED <<role[p], term[p], votedFor[p], leader[p], votes[p], elapsed[p]>>
    /\ term'[n] >= term[n] /\ term'[n] >= m.term
    /\ elapsed'[n] = elapsed[n] \/ elapsed'[n] = 0
    /\ role[n] = "leader" /\ role'[n] = "leader" =>
          UNCHANGED <<term[n], votedFor[n], elapsed[n]>>
    /\ role[n] # "leader" /\ role'[n] = "leader" =>
          /\ m.type = "Vote" /\ Counts(m) /\ MakesQuorum(m)
          /\ elapsed'[n] = 0 /\ UNCHANGED <<term[n], votedFor[n]>>
    /\ role'[n] = "candidate" =>
          /\ role[n] = "candidate" /\ UNCHANGED <<term[n], votedFor[n]>>
          /\ \/ votes'[n] = votes[n]
             \/ m.type = "Vote" /\ Counts(m) /\ votes'[n] = votes[n] \cup {m.from}
    /\ \A l \in Peers(n) : leader'[n] = l =>
          \/ leader[n] = l /\ UNCHANGED term[n]
          \/ m.type = "Heartbeat" /\ m.from = l /\ m.term = term'[n]
    /\ m.type = "Heartbeat" /\ ~Ignored(m) => elapsed'[n] = 0

LEMMA StepDoes ==
    ASSUME IInv, CallInv, NEW m \in msgs, Step(m)
    PROVE  StepEffect(m)
<1> DEFINE n == m.to
<1>1. /\ n \in Node /\ m.from \in Node /\ m.term \in Nat /\ m.from # n
      /\ m.type \in {"RequestVote", "Vote", "Heartbeat", "HeartbeatAck"}
  BY Zenon DEF IInv, TypeOK, Message, NoSelfMessages
<1>2. /\ role \in [Node -> Role] /\ term \in [Node -> Nat]
      /\ votedFor \in [Node -> Node \cup {None}]
      /\ leader \in [Node -> Node \cup {None}]
      /\ votes \in [Node -> SUBSET Node] /\ elapsed \in [Node -> Nat]
  BY Zenon DEF IInv, TypeOK
<1>3. CASE StepRequestVote(m)
  <2>1. m.type = "RequestVote" /\ Grants(m) /\ elapsed' = [elapsed EXCEPT ![n] = 0]
    BY <1>3, Zenon DEF StepRequestVote, resetElectionTimer
  <2>2. CASE Newer(m)
    BY <1>1, <1>2, <1>3, <2>1, <2>2, MembersAssumption
       DEF StepRequestVote, Newer, StepEffect, Peers
  <2>3. CASE ~Newer(m)
    <3>1. m.term = term[n] /\ role[n] = "follower"
      BY <1>1, <1>2, <2>1, <2>3, MembersAssumption, Zenon DEF Grants, CallInv
    <3> QED
      BY <1>1, <1>2, <1>3, <2>1, <2>3, <3>1 DEF StepRequestVote, StepEffect, Peers
  <2> QED
    BY <2>2, <2>3, Zenon
<1>4. CASE StepVote(m)
  <2>1. /\ m.type = "Vote" /\ Counts(m) /\ UNCHANGED <<term, votedFor>>
        /\ role[n] = "candidate" /\ m.term = term[n]
        /\ votes' = [votes EXCEPT ![n] = @ \cup {m.from}]
    BY <1>4, Zenon DEF StepVote, Counts
  <2>2. \/ /\ MakesQuorum(m) /\ role' = [role EXCEPT ![n] = "leader"]
           /\ leader' = [leader EXCEPT ![n] = n]
           /\ elapsed' = [elapsed EXCEPT ![n] = 0]
        \/ UNCHANGED <<role, leader, elapsed>>
    BY <1>4, Zenon DEF StepVote, becomeLeader
  <2> QED
    BY <1>1, <1>2, <2>1, <2>2 DEF StepEffect, Peers
<1>5. CASE StepHeartbeat(m)
  BY <1>1, <1>2, <1>5
     DEF StepHeartbeat, becomeFollower, resetElectionTimer, Stale, Newer, StepEffect, Peers
<1>6. CASE StepNewerAnswer(m)
  BY <1>1, <1>2, <1>6, MembersAssumption
     DEF StepNewerAnswer, becomeFollower, resetElectionTimer, Newer, StepEffect, Peers
<1>7. CASE StepIgnored(m)
  <2>1. m.term <= term[n]
    BY <1>1, <1>2, <1>7 DEF StepIgnored, Ignored, Grants, Newer
  <2> QED
    BY <1>1, <1>2, <1>7, <2>1 DEF StepIgnored, nodeVars, StepEffect
<1> QED
  BY <1>3, <1>4, <1>5, <1>6, <1>7, Zenon DEF Step, StepNode

\* Tick either lets the timer run on, or sends a leader's heartbeats and resets it,
\* or starts an election, which only a sole member wins at once.
TickEffect(n) ==
    /\ \A p \in Node \ {n} :
          UNCHANGED <<role[p], term[p], votedFor[p], leader[p], votes[p], elapsed[p]>>
    /\ \/ /\ UNCHANGED <<role[n], term[n], votedFor[n], leader[n], votes[n]>>
          /\ elapsed'[n] = elapsed[n] + 1 /\ TickMessages(n) = {}
          /\ role[n] = "leader" => elapsed[n] + 1 < HeartbeatTicks
       \/ /\ UNCHANGED <<role[n], term[n], votedFor[n], leader[n], votes[n]>>
          /\ elapsed'[n] = 0 /\ role[n] = "leader"
          /\ TickMessages(n) = broadcast("Heartbeat", n, term[n])
       \/ /\ TimesOut(n) /\ term'[n] = term[n] + 1 /\ votedFor'[n] = n
          /\ elapsed'[n] = 0 /\ votes'[n] = {n}
          /\ \/ SoleMember /\ role'[n] = "leader" /\ leader'[n] = n
             \/ /\ role'[n] = "candidate" /\ leader'[n] = None
                /\ TickMessages(n) = broadcast("RequestVote", n, term[n] + 1)

LEMMA TickDoes ==
    ASSUME IInv, NEW n \in Node, Tick(n)
    PROVE  TickEffect(n)
<1>1. /\ role \in [Node -> Role] /\ term \in [Node -> Nat]
      /\ votedFor \in [Node -> Node \cup {None}]
      /\ leader \in [Node -> Node \cup {None}]
      /\ votes \in [Node -> SUBSET Node] /\ elapsed \in [Node -> Nat]
      /\ HeartbeatTicks \in Nat
  BY ConfigAssumption, Zenon DEF IInv, TypeOK
<1>2. CASE TickQuietly(n)
  BY <1>1, <1>2 DEF TickQuietly, TickMessages, HeartbeatDue, TickEffect
<1>3. CASE TickHeartbeat(n)
  BY <1>1, <1>3, Zenon DEF TickHeartbeat, TickMessages, HeartbeatDue, TickEffect
<1>4. CASE startElection(n)
  <2>1. /\ TimesOut(n) /\ ~HeartbeatDue(n)
        /\ term' = [term EXCEPT ![n] = @ + 1] /\ votedFor' = [votedFor EXCEPT ![n] = n]
        /\ elapsed' = [elapsed EXCEPT ![n] = 0] /\ votes' = [votes EXCEPT ![n] = {n}]
        /\ \/ /\ SoleMember /\ role' = [role EXCEPT ![n] = "leader"]
              /\ leader' = [leader EXCEPT ![n] = n]
           \/ /\ ~SoleMember /\ role' = [role EXCEPT ![n] = "candidate"]
              /\ leader' = [leader EXCEPT ![n] = None]
    BY <1>4, Zenon DEF startElection, becomeLeader, resetElectionTimer, TimesOut, HeartbeatDue
  <2>2. ~SoleMember => TickMessages(n) = broadcast("RequestVote", n, term[n] + 1)
    BY <2>1, Zenon DEF TickMessages
  <2> QED
    BY <1>1, <2>1, <2>2, Zenon DEF TickEffect
<1> QED
  BY <1>2, <1>3, <1>4, Zenon DEF Tick, TickNode

\* What Step sends is of the sender's term after the call, and a vote it grants
\* answers a request of the candidate's.
LEMMA StepSendsPast ==
    ASSUME IInv, CallInv, NEW m \in msgs, Step(m), NEW r \in StepMessages(m)
    PROVE  /\ r.term <= term'[r.from]
           /\ r.type = "Vote" /\ r.granted => r.term <= term[r.to]
<1>1. /\ m.to \in Node /\ m.from \in Node /\ m.term \in Nat
      /\ m.type \in {"RequestVote", "Vote", "Heartbeat", "HeartbeatAck"}
      /\ term \in [Node -> Nat] /\ term' \in [Node -> Nat]
  <2>1. TypeOK'
    BY StepType, Zenon DEF IInv
  <2> QED
    BY <2>1, Zenon DEF IInv, TypeOK, Message
<1>2. term'[m.to] >= term[m.to] /\ term'[m.to] >= m.term
  BY StepDoes, Zenon DEF StepEffect
<1>3. AnswerTerm(m) <= term'[m.to]
  BY <1>1, <1>2, Zenon DEF AnswerTerm
<1>4. r.from = m.to
  BY StepSends, Zenon
<1>5. r.term = AnswerTerm(m) \/ r.term = term[m.to]
  BY <1>1 DEF StepMessages, broadcast
<1>6. r.type = "Vote" /\ r.granted => r.term <= term[r.to]
  BY StepSends, Zenon DEF CallInv
<1> QED
  BY <1>1, <1>2, <1>3, <1>4, <1>5, <1>6, Zenon

\* CallInv is preserved.
LEMMA CallInvInd == IInv /\ CallInv /\ [Next]_vars => CallInv'
<1> SUFFICES ASSUME IInv, CallInv, [Next]_vars PROVE CallInv'
  BY Zenon
<1>1. CASE UNCHANGED vars
  BY <1>1, Zenon DEF vars, CallInv
<1>2. HeartbeatTicks \in Nat \ {0} /\ role \in [Node -> Role] /\ term \in [Node -> Nat]
  BY ConfigAssumption, Zenon DEF IInv, TypeOK
<1>3. \A m \in msgs : m.from \in Node /\ m.to \in Node /\ m.term \in Nat
  BY Zenon DEF IInv, TypeOK, Message
<1>4. ASSUME NEW n \in Node, Tick(n) PROVE CallInv'
  <2>1. TypeOK'
    BY <1>4, TickType, Zenon DEF IInv
  <2>2. TickEffect(n)
    BY <1>4, TickDoes, Zenon
  <2>3. /\ \A p \in Node : role'[p] # "follower" => votedFor'[p] = p
        /\ \A p \in Node : role'[p] = "leader" => elapsed'[p] < HeartbeatTicks
    BY <1>2, <2>2 DEF TickEffect, CallInv
  <2>4. term' \in [Node -> Nat] /\ \A p \in Node : term'[p] >= term[p]
    BY <1>2, <2>1, <2>2 DEF TickEffect, TypeOK
  <2>5. \A r \in TickMessages(n) : r.from = n /\ r.term <= term'[n] /\ r.type # "Vote"
    <3>1. TimesOut(n) /\ ~HeartbeatDue(n) => term'[n] = term[n] + 1
      BY <1>2, <1>4, Zenon DEF Tick, TickNode, TickQuietly, TickHeartbeat, startElection
    <3> QED
      BY <1>2, <2>4, <3>1 DEF TickMessages, broadcast
  <2>6. \A m \in msgs' : /\ m.term <= term'[m.from]
                         /\ m.type = "Vote" /\ m.granted => m.term <= term'[m.to]
    <3>1. \A m \in msgs : /\ m.term <= term'[m.from]
                          /\ m.type = "Vote" /\ m.granted => m.term <= term'[m.to]
      BY <1>2, <1>3, <2>4 DEF CallInv
    <3> QED
      BY <1>4, <2>5, <3>1, Zenon DEF Tick
  <2> QED
    BY <2>3, <2>6, Zenon DEF CallInv
<1>5. ASSUME NEW m \in msgs, Step(m) PROVE CallInv'
  <2>1. TypeOK'
    BY <1>5, StepType, Zenon DEF IInv
  <2>2. StepEffect(m) /\ m.to \in Node
    BY <1>3, <1>5, StepDoes, Zenon
  <2>3. /\ \A p \in Node : role'[p] # "follower" => votedFor'[p] = p
        /\ \A p \in Node : role'[p] = "leader" => elapsed'[p] < HeartbeatTicks
    <3>1. \A p \in Node \ {m.to} : /\ role'[p] # "follower" => votedFor'[p] = p
                                   /\ role'[p] = "leader" => elapsed'[p] < HeartbeatTicks
      BY <2>2 DEF StepEffect, CallInv
    <3>2. role'[m.to] \in {"follower", "candidate", "leader"}
      BY <2>1, <2>2, Zenon DEF TypeOK, Role
    <3>3. /\ role'[m.to] # "follower" => votedFor'[m.to] = m.to
          /\ role'[m.to] = "leader" => elapsed'[m.to] < HeartbeatTicks
      <4>1. Counts(m) => role[m.to] = "candidate"
        BY Zenon DEF Counts
      <4> QED
        BY <1>2, <2>2, <3>2, <4>1 DEF StepEffect, CallInv
    <3> QED
      BY <3>1, <3>3, Zenon
  <2>4. term' \in [Node -> Nat] /\ \A p \in Node : term'[p] >= term[p]
    BY <1>2, <2>1, <2>2 DEF StepEffect, TypeOK
  <2>5. \A r \in StepMessages(m) : r.to \in Node /\ r.term \in Nat
    BY StepMessagesType, Zenon DEF Message, IInv
  <2>6. \A r \in msgs' : /\ r.term <= term'[r.from]
                         /\ r.type = "Vote" /\ r.granted => r.term <= term'[r.to]
    <3>1. \A r \in msgs : /\ r.term <= term'[r.from]
                          /\ r.type = "Vote" /\ r.granted => r.term <= term'[r.to]
      BY <1>2, <1>3, <2>4 DEF CallInv
    <3>2. ASSUME NEW r \in StepMessages(m)
          PROVE  /\ r.term <= term'[r.from]
                 /\ r.type = "Vote" /\ r.granted => r.term <= term'[r.to]
      BY <1>2, <1>5, <2>4, <2>5, StepSendsPast
    <3> QED
      BY <1>5, <3>1, <3>2, Zenon DEF Step
  <2> QED
    BY <2>3, <2>6, Zenon DEF CallInv
<1> QED
  BY <1>1, <1>4, <1>5, Zenon DEF Next
=============================================================================
