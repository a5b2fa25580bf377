------------------------------ MODULE RaftSim -------------------------------
(***************************************************************************)
(* The simulated network of internal/raft/sim.go: a Cluster that ticks its *)
(* nodes in step, delivers each tick's messages at the start of the next   *)
(* in sending order, and drops those on blocked links.  It is              *)
(* single-threaded, so one call of Tick is modelled as a run of small      *)
(* steps, one per message delivered and one per node ticked, between which *)
(* nothing else happens: links change only while idle.                     *)
(***************************************************************************)
EXTENDS RaftElection, Sequences

CONSTANT Order    \* the nodes, sorted by id

ASSUME OrderAssumption ==
    /\ Order \in Seq(Node)
    /\ \A n \in Node : \E i \in 1..Len(Order) : Order[i] = n
    /\ \A i, j \in 1..Len(Order) : Order[i] = Order[j] => i = j

VARIABLES
    inbox,     \* messages sent since the current tick began
    pending,   \* messages of the previous tick not yet delivered
    turn,      \* 0 between ticks, else the index of the next node to tick
    blocked,   \* directed links <<from, to>> that drop messages
    healthy    \* history: whole ticks run since every link was last restored

simVars == <<role, term, votedFor, leader, votes, elapsed, electionTimeout,
             electionsBegun, electionsWon, ballots, won, msgs,
             inbox, pending, turn, blocked, healthy>>

\* Time enough, after the links are restored, for every leader's next
\* heartbeat to be sent and delivered.  The history counter stops there.
SettleTicks == HeartbeatTicks + 1

SimInit ==
    /\ ElectionInit
    /\ inbox = <<>> /\ pending = <<>>
    /\ turn = 0
    /\ blocked = {}
    /\ healthy = 0

\* The order in which the cluster keeps its nodes, and broadcast its peers.
Before(p, q) ==
    \E i, j \in 1..Len(Order) : i < j /\ Order[i] = p /\ Order[j] = q

\* Responses in the order broadcast appends them: sorted by receiver.
InOrder(S) ==
    CHOOSE s \in [1..Cardinality(S) -> S] :
        \A i, j \in DOMAIN s : i < j => Before(s[i].to, s[j].to)

-----------------------------------------------------------------------------
(* Tick                                                                    *)

BeginTick ==
    /\ turn = 0
    /\ turn' = IF Order = <<>> THEN 0 ELSE 1
    /\ pending' = inbox
    /\ inbox' = <<>>
    /\ UNCHANGED <<vars, blocked, healthy>>

\* Mutant: blocked links are not looked up.
DeliverAnyway ==
    /\ pending # <<>>
    /\ LET m == Head(pending) IN
       Step(m) /\ inbox' = inbox \o InOrder(StepMessages(m))
    /\ pending' = Tail(pending)
    /\ UNCHANGED <<turn, blocked, healthy>>

Deliver ==
    /\ pending # <<>>
    /\ LET m == Head(pending) IN
       /\ <<m.from, m.to>> \notin blocked
       /\ Step(m)
       /\ inbox' = inbox \o InOrder(StepMessages(m))
    /\ pending' = Tail(pending)
    /\ UNCHANGED <<turn, blocked, healthy>>

\* Mutant: the link is looked up only after the receiver's Step.
DropAnswer ==
    /\ pending # <<>>
    /\ LET m == Head(pending) IN <<m.from, m.to>> \in blocked /\ StepNode(m)
    /\ pending' = Tail(pending)
    /\ UNCHANGED <<msgs, inbox, turn, blocked, healthy>>

Drop ==
    /\ pending # <<>>
    /\ LET m == Head(pending) IN <<m.from, m.to>> \in blocked
    /\ pending' = Tail(pending)
    /\ UNCHANGED <<vars, inbox, turn, blocked, healthy>>

TickInTurn ==
    /\ turn > 0 /\ pending = <<>>
    /\ LET n == Order[turn] IN
       /\ Tick(n)
       /\ inbox' = inbox \o InOrder(TickMessages(n))
    /\ turn' = IF turn = Len(Order) THEN 0 ELSE turn + 1
    /\ healthy' = IF turn = Len(Order) /\ blocked = {} /\ healthy < SettleTicks
                  THEN healthy + 1 ELSE healthy
    /\ UNCHANGED <<pending, blocked>>

-----------------------------------------------------------------------------
(* Link control, between ticks                                             *)

Block(links) ==
    /\ turn = 0
    /\ blocked' = blocked \cup links
    /\ healthy' = 0
    /\ UNCHANGED <<vars, inbox, pending, turn>>

Partition(A, B) == Block((A \X B) \cup (B \X A))

Isolate(n) == Block(({n} \X Peers(n)) \cup (Peers(n) \X {n}))

BlockOneWay(from, to) == Block({<<from, to>>})

\* sim.go's Heal; messages already dropped stay lost.
HealLinks ==
    /\ turn = 0
    /\ blocked' = {}
    /\ UNCHANGED <<vars, inbox, pending, turn, healthy>>

SimNext ==
    \/ BeginTick
    \/ Deliver
    \/ Drop
    \/ TickInTurn
    \/ \E A, B \in SUBSET Node : A # {} /\ B # {} /\ A \cap B = {} /\ Partition(A, B)
    \/ \E n \in Node : Isolate(n)
    \/ \E f, t \in Node : f # t /\ BlockOneWay(f, t)
    \/ HealLinks

SimSpec == SimInit /\ [][SimNext]_simVars

-----------------------------------------------------------------------------
(* Properties                                                              *)

Leaders == {n \in Node : role[n] = "leader"}

\* The link and tick bookkeeping stays in range.
SimTypeOK ==
    /\ TypeOK
    /\ inbox \in Seq(msgs) /\ pending \in Seq(msgs)
    /\ turn \in 0..Len(Order)
    /\ blocked \subseteq Node \X Node
    /\ healthy \in 0..SettleTicks

\* A deposed leader steps down: once the links have been whole for a heartbeat
\* interval and a delivery, no two nodes are leaders, not even of different
\* terms (raft_test.go's isolated leader that rejoins).
SoleLeaderWhenHealed ==
    turn = 0 /\ healthy = SettleTicks => Cardinality(Leaders) <= 1

\* Everyone follows one leader, in its term.
Settled ==
    \E l \in Leaders : \A n \in Node : leader[n] = l /\ term[n] = term[l]

\* On whole links a settled cluster stays settled: no election timeout fires
\* while heartbeats flow.  Needs HeartbeatTicks < ElectionTimeoutMin, which
\* New does not check.
SettledStays ==
    [][Settled /\ healthy = SettleTicks /\ blocked' = {} => Settled']_simVars

\* A node that wins can, at that moment, hear from a quorum: no minority side
\* of a partition elects a leader, even with votes in flight when the links
\* were cut.
WinnerHearsQuorum ==
    [][\A n \in Node : role[n] # "leader" /\ role'[n] = "leader" =>
          Cardinality({v \in Node : <<v, n>> \notin blocked}) >= quorum]_simVars

\* The cluster is one of the transports RaftElection allows, so what holds
\* there holds here.
ImplementsElection == Spec
=============================================================================
