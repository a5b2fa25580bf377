--------------------------- MODULE RaftSimProofs ----------------------------
(***************************************************************************)
(* Proofs about RaftSim, for every cluster, timing configuration, number   *)
(* of ticks and sequence of link changes: that the simulated network is a  *)
(* transport RaftElection allows, and what holds of it beyond that.        *)
(***************************************************************************)
EXTENDS RaftSim, RaftElectionProofs, WellFoundedInduction

-----------------------------------------------------------------------------
(* Batches of messages in receiver order                                   *)

InFlight(s) == {s[i] : i \in 1..Len(s)}

\* A set of naturals has a least element: induction, as a fact about sets.
LEMMA LeastNumber ==
    ASSUME NEW T \in SUBSET Nat, T # {}
    PROVE  \E x \in T : \A y \in T : x <= y
<1> DEFINE Less == {ss \in Nat \X Nat : ss[1] < ss[2]}
<1>1. IsWellFoundedOn(Less, Nat)
  BY NatLessThanWellFounded, Zenon DEF OpToRel
<1> HIDE DEF Less
<1>2. PICK x \in T : \A y \in T : ~ (<<y, x>> \in Less)
  BY <1>1, WFMin, Zenon
<1>3. \A y \in T : ~(y < x)
  BY <1>2, Zenon DEF Less
<1> QED
  BY <1>3

\* Before is a strict total order of the members.
LEMMA BeforeOrders ==
    ASSUME NEW p \in Node, NEW q \in Node
    PROVE  ~Before(p, p) /\ (p = q \/ Before(p, q) \/ Before(q, p))
<1>1. Len(Order) \in Nat
  BY OrderAssumption
<1>2. PICK i \in 1..Len(Order) : Order[i] = p
  BY OrderAssumption, Zenon
<1>3. PICK j \in 1..Len(Order) : Order[j] = q
  BY OrderAssumption, Zenon
<1>4. ~Before(p, p)
  <2> SUFFICES ASSUME NEW a \in 1..Len(Order), NEW b \in 1..Len(Order), a < b,
                      Order[a] = p, Order[b] = p
               PROVE  FALSE
    BY Zenon DEF Before
  <2>1. a = b
    BY OrderAssumption, Zenon
  <2> QED
    BY <1>1, <2>1
<1>5. i = j \/ i < j \/ j < i
  BY <1>1
<1> QED
  BY <1>2, <1>3, <1>4, <1>5, Zenon DEF Before

Sorted(s) == \A i, j \in DOMAIN s : i < j => Before(s[i].to, s[j].to)

\* To each receiver at most one message.
Addressed(S) ==
    /\ IsFiniteSet(S)
    /\ \A m \in S : m.to \in Node
    /\ \A m, r \in S : m.to = r.to => m = r

\* A nonempty set of messages has a last one in receiver order.
LEMMA LastAddressed ==
    ASSUME NEW S, Addressed(S), S # {}
    PROVE  \E x \in S : \A y \in S \ {x} : Before(y.to, x.to)
<1> DEFINE K == {k \in Nat : \E m \in S, i \in 1..Len(Order) :
                                m.to = Order[i] /\ k = Len(Order) - i}
<1>1. Len(Order) \in Nat
  BY OrderAssumption
<1>2. K \in SUBSET Nat /\ K # {}
  <2>1. PICK m \in S : TRUE
    BY Zenon
  <2>2. PICK i \in 1..Len(Order) : Order[i] = m.to
    BY OrderAssumption, Zenon DEF Addressed
  <2>3. Len(Order) - i \in K
    BY <1>1, <2>2
  <2> QED
    BY <2>3, Zenon
<1>3. PICK k \in K : \A l \in K : k <= l
  BY <1>2, LeastNumber, Zenon
<1>4. PICK x \in S, i \in 1..Len(Order) : x.to = Order[i] /\ k = Len(Order) - i
  BY Zenon
<1>5. ASSUME NEW y \in S \ {x} PROVE Before(y.to, x.to)
  <2>1. y.to \in Node /\ x.to \in Node /\ y.to # x.to
    BY Zenon DEF Addressed
  <2>2. PICK j \in 1..Len(Order) : Order[j] = y.to
    BY <2>1, OrderAssumption, Zenon
  <2>3. Len(Order) - j \in K
    BY <1>1, <2>2
  <2>4. j <= i /\ j # i
    <3>1. k <= Len(Order) - j
      BY <1>3, <2>3, Zenon
    <3> HIDE DEF K
    <3> QED
      BY <1>1, <1>4, <2>1, <2>2, <3>1
  <2> QED
    BY <1>1, <1>4, <2>2, <2>4 DEF Before
<1> QED
  BY <1>5, Zenon

\* Messages to distinct receivers can be sorted: by induction on their number.
LEMMA Sortable ==
    ASSUME NEW S, Addressed(S)
    PROVE  \E s \in [1..Cardinality(S) -> S] : Sorted(s)
<1> DEFINE Can(T) == \E s \in [1..Cardinality(T) -> T] : Sorted(s)
           Bad == {k \in Nat : \E T \in SUBSET S : Cardinality(T) = k /\ ~Can(T)}
<1>1. \A T \in SUBSET S : Addressed(T) /\ IsFiniteSet(T) /\ Cardinality(T) \in Nat
  BY FS_Subset, FS_CardinalityType, Zenon DEF Addressed
<1>2. Bad = {}
  <2> SUFFICES ASSUME Bad # {} PROVE FALSE
    BY Zenon
  <2>1. PICK k \in Bad : \A l \in Bad : k <= l
    <3>1. Bad \in SUBSET Nat
      BY Zenon
    <3> HIDE DEF Bad
    <3> QED
      BY <3>1, LeastNumber, Zenon
  <2>2. PICK T \in SUBSET S : Cardinality(T) = k /\ ~Can(T)
    BY Zenon
  <2>3. T # {}
    <3>1. ASSUME T = {} PROVE Can(T)
      <4>1. Cardinality(T) = 0
        BY <3>1, FS_EmptySet, Zenon
      <4>2. << >> \in [1..0 -> T] /\ Sorted(<< >>)
        BY DEF Sorted
      <4> QED
        BY <4>1, <4>2, Zenon
    <3> QED
      BY <2>2, <3>1, Zenon
  <2>4. PICK x \in T : \A y \in T \ {x} : Before(y.to, x.to)
    BY <1>1, <2>3, LastAddressed, Zenon
  <2> DEFINE U == T \ {x}
  <2>5. Cardinality(U) = k - 1 /\ k \in Nat \ {0} /\ k - 1 \in Nat
    <3>1. IsFiniteSet(T) /\ k \in Nat
      BY <1>1, <2>2, Zenon
    <3>2. Cardinality(U) = k - 1
      BY <2>2, <3>1, FS_RemoveElement, Zenon
    <3>3. Cardinality(U) \in Nat
      BY <1>1, Zenon
    <3> QED
      BY <3>1, <3>2, <3>3
  <2>6. Can(U)
    <3>1. k - 1 \notin Bad
      BY <2>1, <2>5
    <3> QED
      BY <2>5, <3>1, Zenon
  <2>7. PICK s \in [1..(k - 1) -> U] : Sorted(s)
    BY <2>5, <2>6, Zenon
  <2> DEFINE t == [i \in 1..k |-> IF i = k THEN x ELSE s[i]]
  <2>8. t \in [1..k -> T]
    BY <2>5, <2>7
  <2>9. Sorted(t)
    <3> SUFFICES ASSUME NEW i \in 1..k, NEW j \in 1..k, i < j
                 PROVE  Before(t[i].to, t[j].to)
      BY Zenon DEF Sorted
    <3>1. i \in 1..(k - 1) /\ t[i] = s[i] /\ s[i] \in U
      BY <2>5, <2>7
    <3>2. CASE j = k
      BY <2>4, <3>1, <3>2, Zenon
    <3>3. CASE j # k
      <4>1. j \in 1..(k - 1) /\ t[j] = s[j]
        BY <2>5, <3>3
      <4> QED
        BY <2>7, <3>1, <4>1, Zenon DEF Sorted
    <3> QED
      BY <3>2, <3>3, Zenon
  <2> HIDE DEF t
  <2> QED
    BY <2>2, <2>8, <2>9, Zenon
<1>3. Cardinality(S) \notin Bad
  BY <1>2, Zenon
<1> QED
  BY <1>1, <1>3, Zenon

\* InOrder loses and invents no message.
LEMMA InOrderKeeps ==
    ASSUME NEW S, Addressed(S)
    PROVE  InOrder(S) \in Seq(S) /\ InFlight(InOrder(S)) = S
<1> DEFINE s == InOrder(S)
           k == Cardinality(S)
<1>1. s \in [1..k -> S] /\ Sorted(s)
  <2>1. InOrder(S) = CHOOSE q \in [1..k -> S] : Sorted(q)
    BY Zenon DEF InOrder, Sorted
  <2> QED
    BY <2>1, Sortable, Zenon
<1>2. k \in Nat
  BY FS_CardinalityType, Zenon DEF Addressed
<1>3. s \in Seq(S) /\ Len(s) = k
  BY <1>1, <1>2
<1>4. s \in Injection(1..k, S)
  <2>1. ASSUME NEW i \in 1..k, NEW j \in 1..k, s[i] = s[j] PROVE i = j
    <3>1. s[i].to \in Node
      BY <1>1, Zenon DEF Addressed
    <3>2. ~(i < j) /\ ~(j < i)
      BY <1>1, <2>1, <3>1, BeforeOrders, Zenon DEF Sorted
    <3> QED
      BY <1>2, <3>2
  <2> QED
    BY <1>1, <2>1, Zenon DEF Injection, IsInjective
<1>5. s \in Surjection(1..k, S)
  <2>1. IsFiniteSet(1..k) /\ Cardinality(1..k) = k
    BY <1>2, FS_Interval
  <2> QED
    BY <1>4, <2>1, FS_Injection, Zenon DEF Addressed
<1> HIDE DEF s, k
<1>6. InFlight(s) = S
  BY <1>1, <1>3, <1>5, Zenon DEF InFlight, Surjection
<1> QED
  BY <1>3, <1>6, Zenon DEF s

\* A broadcast sends to each peer once.
LEMMA BroadcastAddressed ==
    ASSUME NEW type, NEW n \in Node, NEW t
    PROVE  Addressed(broadcast(type, n, t))
<1> DEFINE f == [p \in Peers(n) |-> [type |-> type, from |-> n, to |-> p, term |-> t]]
           B == broadcast(type, n, t)
<1>1. IsFiniteSet(Peers(n))
  BY MembersAssumption, FS_Subset, Zenon DEF Peers
<1>2. f \in Surjection(Peers(n), B)
  BY Zenon DEF Surjection, broadcast
<1>3. IsFiniteSet(B)
  BY <1>1, <1>2, FS_Surjection, Zenon
<1>4. /\ \A m \in B : m.to \in Node
      /\ \A m, r \in B : m.to = r.to => m = r
  BY DEF broadcast, Peers
<1> QED
  BY <1>3, <1>4, Zenon DEF Addressed

\* So does every call, counting no response and one response as such.
LEMMA CallsAddressed ==
    /\ Addressed({})
    /\ \A m : m.to \in Node => Addressed({m})
BY FS_EmptySet, FS_Singleton, Zenon DEF Addressed

LEMMA TickAddressed ==
    ASSUME NEW n \in Node
    PROVE  Addressed(TickMessages(n))
BY BroadcastAddressed, CallsAddressed, Zenon DEF TickMessages

LEMMA StepAddressed ==
    ASSUME NEW m, m.to \in Node, m.from \in Node
    PROVE  Addressed(StepMessages(m))
<1>1. CASE m.type = "RequestVote"
  <2> DEFINE r == [type |-> "Vote", from |-> m.to, to |-> m.from,
                   term |-> AnswerTerm(m), granted |-> Grants(m)]
  <2>1. StepMessages(m) = {r} /\ r.to \in Node
    BY <1>1, Zenon DEF StepMessages
  <2> HIDE DEF r
  <2> QED
    BY <2>1, CallsAddressed, Zenon
<1>2. CASE m.type = "Heartbeat"
  <2> DEFINE r == [type |-> "HeartbeatAck", from |-> m.to, to |-> m.from,
                   term |-> AnswerTerm(m)]
  <2>1. StepMessages(m) = {r} /\ r.to \in Node
    BY <1>2, Zenon DEF StepMessages
  <2> HIDE DEF r
  <2> QED
    BY <2>1, CallsAddressed, Zenon
<1>3. CASE m.type = "Vote" /\ Counts(m) /\ MakesQuorum(m)
  <2>1. StepMessages(m) = broadcast("Heartbeat", m.to, term[m.to])
    BY <1>3, Zenon DEF StepMessages
  <2> QED
    BY <2>1, BroadcastAddressed, Zenon
<1>4. CASE /\ m.type # "RequestVote" /\ m.type # "Heartbeat"
           /\ ~(m.type = "Vote" /\ Counts(m) /\ MakesQuorum(m))
  <2>1. StepMessages(m) = {}
    BY <1>4, Zenon DEF StepMessages
  <2> QED
    BY <2>1, CallsAddressed, Zenon
<1> QED
  BY <1>1, <1>2, <1>3, <1>4, Zenon

\* What is in flight after a batch is appended, and after its head is taken.
LEMMA InFlightAppended ==
    ASSUME NEW S, NEW s \in Seq(S), NEW T, NEW t \in Seq(T)
    PROVE  InFlight(s \o t) = InFlight(s) \cup InFlight(t)
<1>1. /\ Len(s) \in Nat /\ Len(t) \in Nat /\ Len(s \o t) = Len(s) + Len(t)
      /\ \A i \in 1..Len(s \o t) :
            (s \o t)[i] = IF i <= Len(s) THEN s[i] ELSE t[i - Len(s)]
  OBVIOUS
<1>2. ASSUME NEW i \in 1..Len(t) PROVE t[i] \in InFlight(s \o t)
  <2>1. Len(s) + i \in 1..Len(s \o t) /\ (s \o t)[Len(s) + i] = t[i]
    BY <1>1
  <2> QED
    BY <2>1, Zenon DEF InFlight
<1>3. ASSUME NEW i \in 1..Len(s) PROVE s[i] \in InFlight(s \o t)
  <2>1. i \in 1..Len(s \o t) /\ (s \o t)[i] = s[i]
    BY <1>1
  <2> QED
    BY <2>1, Zenon DEF InFlight
<1>4. ASSUME NEW i \in 1..Len(s \o t)
      PROVE  (s \o t)[i] \in InFlight(s) \cup InFlight(t)
  <2>1. i <= Len(s) => i \in 1..Len(s) /\ (s \o t)[i] = s[i]
    BY <1>1
  <2>2. ~(i <= Len(s)) => i - Len(s) \in 1..Len(t) /\ (s \o t)[i] = t[i - Len(s)]
    BY <1>1
  <2> QED
    BY <2>1, <2>2, Zenon DEF InFlight
<1> QED
  BY <1>2, <1>3, <1>4, Zenon DEF InFlight

LEMMA InFlightTaken ==
    ASSUME NEW S, NEW s \in Seq(S), s # << >>
    PROVE  /\ Head(s) \in S /\ Tail(s) \in Seq(S)
           /\ InFlight(s) = {Head(s)} \cup InFlight(Tail(s))
<1>1. /\ Len(s) \in Nat \ {0} /\ Head(s) = s[1] /\ Head(s) \in S /\ Tail(s) \in Seq(S)
      /\ Len(Tail(s)) = Len(s) - 1
      /\ \A i \in 1..(Len(s) - 1) : Tail(s)[i] = s[i + 1]
  OBVIOUS
<1>2. ASSUME NEW i \in 1..Len(s) PROVE s[i] \in {Head(s)} \cup InFlight(Tail(s))
  <2>1. CASE i = 1
    BY <1>1, <2>1, Zenon
  <2>2. CASE i # 1
    <3>1. i - 1 \in 1..Len(Tail(s)) /\ Tail(s)[i - 1] = s[i]
      BY <1>1, <2>2
    <3> QED
      BY <3>1, Zenon DEF InFlight
  <2> QED
    BY <2>1, <2>2, Zenon
<1>3. ASSUME NEW i \in 1..Len(Tail(s)) PROVE Tail(s)[i] \in InFlight(s)
  BY <1>1, <1>3 DEF InFlight
<1>4. Head(s) \in InFlight(s)
  BY <1>1 DEF InFlight
<1> QED
  BY <1>1, <1>2, <1>3, <1>4 DEF InFlight

LEMMA InFlightNone == InFlight(<< >>) = {}
BY DEF InFlight

-----------------------------------------------------------------------------
(* The steps of a tick are calls of the nodes                              *)

\* Messages are delivered before the first node's turn; no node is cut off from
\* itself; and a tick counts as healthy only if no link is cut.
SimBase ==
    /\ SimTypeOK
    /\ turn # 1 => pending = << >>
    /\ \A n \in Node : <<n, n>> \notin blocked
    /\ blocked # {} => healthy = 0

LEMMA SeqGrows ==
    ASSUME NEW S, NEW T, S \subseteq T, NEW s \in Seq(S)
    PROVE  s \in Seq(T)
<1>1. s \in [1..Len(s) -> S] /\ Len(s) \in Nat
  OBVIOUS
<1> QED
  BY <1>1

\* The state of the network around a call that answers with R.
Sends(R) ==
    /\ msgs' = msgs \cup R
    /\ inbox' \in Seq(msgs')
    /\ InFlight(inbox') = InFlight(inbox) \cup R

LEMMA SendsInOrder ==
    ASSUME inbox \in Seq(msgs), NEW R, Addressed(R), msgs' = msgs \cup R,
           inbox' = inbox \o InOrder(R)
    PROVE  Sends(R)
<1>1. InOrder(R) \in Seq(R) /\ InFlight(InOrder(R)) = R
  BY InOrderKeeps, Zenon
<1>2. InFlight(inbox') = InFlight(inbox) \cup R
  BY <1>1, InFlightAppended
<1>3. inbox \in Seq(msgs') /\ InOrder(R) \in Seq(msgs')
  BY <1>1, SeqGrows, Zenon
<1>4. inbox' \in Seq(msgs')
  BY <1>3
<1> QED
  BY <1>2, <1>4, Zenon DEF Sends

\* Deliver hands the first pending message to its receiver.
LEMMA Delivers ==
    ASSUME SimBase, Deliver
    PROVE  \E m \in msgs :
              /\ Step(m) /\ Sends(StepMessages(m)) /\ m.to \in Node
              /\ <<m.from, m.to>> \notin blocked
              /\ InFlight(pending) = {m} \cup InFlight(pending')
              /\ pending' \in Seq(msgs') /\ turn = 1
              /\ UNCHANGED <<turn, blocked, healthy>>
<1> DEFINE m == Head(pending)
<1>1. /\ pending \in Seq(msgs) /\ pending # << >> /\ inbox \in Seq(msgs)
      /\ turn = 1
  BY Zenon DEF SimBase, SimTypeOK, Deliver
<1>2. /\ m \in msgs /\ pending' \in Seq(msgs)
      /\ InFlight(pending) = {m} \cup InFlight(pending')
  BY <1>1, InFlightTaken, Zenon DEF Deliver
<1>3. m.to \in Node /\ m.from \in Node
  BY <1>2, Zenon DEF SimBase, SimTypeOK, TypeOK, Message
<1>4. /\ Step(m) /\ inbox' = inbox \o InOrder(StepMessages(m))
      /\ <<m.from, m.to>> \notin blocked
      /\ UNCHANGED <<turn, blocked, healthy>>
  BY Zenon DEF Deliver
<1>5. msgs' = msgs \cup StepMessages(m)
  BY <1>4, Zenon DEF Step
<1> HIDE DEF m
<1>6. Sends(StepMessages(m))
  BY <1>1, <1>3, <1>4, <1>5, StepAddressed, SendsInOrder, Zenon
<1>7. pending' \in Seq(msgs')
  BY <1>2, <1>5, SeqGrows, Zenon
<1> QED
  BY <1>1, <1>2, <1>3, <1>4, <1>6, <1>7, Zenon

\* TickInTurn ticks the node whose turn it is, when all pending messages are gone.
LEMMA TicksInTurn ==
    ASSUME SimBase, TickInTurn
    PROVE  \E q \in Node :
              /\ turn \in 1..Len(Order) /\ q = Order[turn]
              /\ Tick(q) /\ Sends(TickMessages(q))
              /\ pending = << >> /\ UNCHANGED <<pending, blocked>>
              /\ turn' = IF turn = Len(Order) THEN 0 ELSE turn + 1
              /\ healthy' = IF turn = Len(Order) /\ blocked = {} /\ healthy < SettleTicks
                            THEN healthy + 1 ELSE healthy
<1> DEFINE n == Order[turn]
<1>1. inbox \in Seq(msgs) /\ turn \in 0..Len(Order) /\ Len(Order) \in Nat
  BY OrderAssumption DEF SimBase, SimTypeOK
<1>2. turn \in 1..Len(Order) /\ n \in Node
  BY <1>1, OrderAssumption DEF TickInTurn
<1>3. Tick(n) /\ inbox' = inbox \o InOrder(TickMessages(n))
  BY Zenon DEF TickInTurn
<1>4. msgs' = msgs \cup TickMessages(n)
  BY <1>3, Zenon DEF Tick
<1>5. Sends(TickMessages(n))
  BY <1>1, <1>2, <1>3, <1>4, TickAddressed, SendsInOrder, Zenon
<1> QED
  BY <1>2, <1>3, <1>5, Zenon DEF TickInTurn

\* A dropped message was on a cut link.
LEMMA Drops ==
    ASSUME SimBase, Drop
    PROVE  /\ blocked # {} /\ healthy = 0 /\ turn = 1
           /\ pending' \in Seq(msgs) /\ InFlight(pending') \subseteq InFlight(pending)
           /\ UNCHANGED <<vars, inbox, turn, blocked, healthy>>
<1>1. pending \in Seq(msgs) /\ pending # << >> /\ blocked # {}
  BY Zenon DEF SimBase, SimTypeOK, Drop
<1>2. pending' \in Seq(msgs) /\ InFlight(pending') \subseteq InFlight(pending)
  BY <1>1, InFlightTaken, Zenon DEF Drop
<1> QED
  BY <1>1, <1>2, Zenon DEF SimBase, Drop

\* Links change between ticks, when nothing is pending.
LinksChange ==
    /\ turn = 0 /\ UNCHANGED <<vars, inbox, pending, turn>>
    /\ blocked' \subseteq Node \X Node /\ \A n \in Node : <<n, n>> \notin blocked'
    /\ \/ healthy' = 0
       \/ blocked' = {} /\ UNCHANGED healthy

\* Every step of the cluster is one of five.
LEMMA SimSteps ==
    ASSUME SimBase, SimNext
    PROVE  BeginTick \/ Deliver \/ Drop \/ TickInTurn \/ LinksChange
<1>1. blocked \subseteq Node \X Node /\ \A n \in Node : <<n, n>> \notin blocked
  BY Zenon DEF SimBase, SimTypeOK
<1>2. ASSUME NEW A \in SUBSET Node, NEW B \in SUBSET Node, A \cap B = {}, Partition(A, B)
      PROVE  LinksChange
  BY <1>1, <1>2, Zenon DEF Partition, Block, LinksChange
<1>3. ASSUME NEW n \in Node, Isolate(n) PROVE LinksChange
  BY <1>1, <1>3, Zenon DEF Isolate, Block, LinksChange, Peers
<1>4. ASSUME NEW f \in Node, NEW t \in Node, f # t, BlockOneWay(f, t) PROVE LinksChange
  BY <1>1, <1>4 DEF BlockOneWay, Block, LinksChange
<1>5. HealLinks => LinksChange
  BY Zenon DEF HealLinks, LinksChange
<1> QED
  BY <1>2, <1>3, <1>4, <1>5, Zenon DEF SimNext

\* SimBase is inductive.
LEMMA SimBaseInd == SimBase /\ [SimNext]_simVars => SimBase'
<1> SUFFICES ASSUME SimBase, [SimNext]_simVars PROVE SimBase'
  BY Zenon
<1>1. /\ TypeOK /\ inbox \in Seq(msgs) /\ pending \in Seq(msgs)
      /\ turn \in 0..Len(Order) /\ Len(Order) \in Nat
      /\ blocked \subseteq Node \X Node /\ healthy \in 0..SettleTicks
      /\ SettleTicks \in Nat
  BY OrderAssumption, ConfigAssumption DEF SimBase, SimTypeOK, SettleTicks
<1>2. UNCHANGED vars => TypeOK' /\ UNCHANGED msgs
  BY <1>1, Zenon DEF vars, TypeOK
<1>3. CASE UNCHANGED simVars
  BY <1>3, Zenon DEF simVars, SimBase, SimTypeOK, TypeOK
<1>4. CASE BeginTick
  <2>1. /\ TypeOK' /\ UNCHANGED msgs /\ inbox' = << >> /\ pending' = inbox
        /\ turn = 0 /\ turn' = (IF Order = << >> THEN 0 ELSE 1)
        /\ UNCHANGED <<blocked, healthy>>
    BY <1>2, <1>4, Zenon DEF BeginTick
  <2>2. turn' \in 0..Len(Order)
    BY <1>1, <2>1, OrderAssumption
  <2>3. turn' # 1 => pending' = << >>
    <3>1. ASSUME Order = << >> PROVE inbox = << >>
      <4>1. Node = {}
        BY <3>1, OrderAssumption
      <4>2. msgs = {}
        BY <1>1, <4>1, Zenon DEF TypeOK, Message
      <4> QED
        BY <1>1, <4>2
    <3> QED
      BY <2>1, <3>1, Zenon
  <2> QED
    BY <1>1, <2>1, <2>2, <2>3 DEF SimBase, SimTypeOK
<1>5. CASE Deliver
  <2>1. PICK m \in msgs :
              /\ Step(m) /\ Sends(StepMessages(m))
              /\ pending' \in Seq(msgs') /\ turn = 1
              /\ UNCHANGED <<turn, blocked, healthy>>
    BY <1>5, Delivers, Zenon
  <2>2. TypeOK'
    BY <1>1, <2>1, StepType, Zenon
  <2> QED
    BY <1>1, <2>1, <2>2, Zenon DEF SimBase, SimTypeOK, Sends
<1>6. CASE Drop
  BY <1>1, <1>2, <1>6, Drops, Zenon DEF SimBase, SimTypeOK
<1>7. CASE TickInTurn
  <2>1. PICK q \in Node :
        /\ Tick(q) /\ Sends(TickMessages(q))
        /\ turn \in 1..Len(Order) /\ pending = << >> /\ UNCHANGED <<pending, blocked>>
        /\ turn' = (IF turn = Len(Order) THEN 0 ELSE turn + 1)
        /\ healthy' = IF turn = Len(Order) /\ blocked = {} /\ healthy < SettleTicks
                      THEN healthy + 1 ELSE healthy
    BY <1>7, TicksInTurn, Zenon
  <2>2. TypeOK'
    BY <1>1, <2>1, TickType, Zenon
  <2>3. turn' \in 0..Len(Order) /\ healthy' \in 0..SettleTicks
    BY <1>1, <2>1
  <2>4. inbox' \in Seq(msgs') /\ pending' = << >> /\ pending' \in Seq(msgs')
    BY <2>1 DEF Sends
  <2>5. blocked' # {} => healthy' = 0
    BY <2>1, Zenon DEF SimBase
  <2> QED
    BY <1>1, <2>1, <2>2, <2>3, <2>4, <2>5, Zenon DEF SimBase, SimTypeOK
<1>8. CASE LinksChange
  BY <1>1, <1>2, <1>8 DEF LinksChange, SimBase, SimTypeOK
<1> QED
  BY <1>3, <1>4, <1>5, <1>6, <1>7, <1>8, SimSteps, Zenon

\* Every step of the cluster is a call of a node, or leaves the nodes alone.
LEMMA SimStepAllowed == SimBase /\ [SimNext]_simVars => [Next]_vars
<1> SUFFICES ASSUME SimBase, SimNext PROVE Next \/ UNCHANGED vars
  BY Zenon DEF simVars, vars
<1>1. CASE Deliver
  BY <1>1, Delivers, Zenon DEF Next
<1>2. CASE TickInTurn
  BY <1>2, TicksInTurn, Zenon DEF Next
<1>3. CASE BeginTick \/ Drop \/ LinksChange
  BY <1>3, Zenon DEF BeginTick, Drop, LinksChange
<1> QED
  BY <1>1, <1>2, <1>3, SimSteps, Zenon

\* SimBase holds initially.
LEMMA SimBaseInit == SimInit => SimBase
<1> SUFFICES ASSUME SimInit PROVE SimBase
  BY Zenon
<1>1. TypeOK
  BY Zenon DEF SimInit, ElectionInit, Init, TypeOK, Role
<1>2. 0 \in 0..Len(Order) /\ 0 \in 0..SettleTicks
  BY OrderAssumption, ConfigAssumption DEF SettleTicks
<1> QED
  BY <1>1, <1>2 DEF SimInit, SimBase, SimTypeOK

\* The link and tick bookkeeping stays in range, and all that is in flight was sent.
THEOREM SimTypeCorrect == SimSpec => []SimTypeOK
<1>1. SimBase => SimTypeOK
  BY Zenon DEF SimBase
<1> QED
  BY <1>1, SimBaseInit, SimBaseInd, PTL DEF SimSpec

\* The simulated network is one of the transports RaftElection allows, for every
\* cluster and sequence of link changes: whatever is proved there holds here.
THEOREM RefinesElection == SimSpec => ImplementsElection
<1>1. SimInit => ElectionInit
  BY Zenon DEF SimInit
<1> QED
  BY <1>1, SimBaseInit, SimBaseInd, SimStepAllowed, PTL
     DEF SimSpec, ImplementsElection, Spec

\* What is proved of the nodes under any transport.
NodesInv == IInv /\ CallInv /\ WinnersPast

LEMMA NodesInvInd == NodesInv /\ [Next]_vars => NodesInv'
BY Inductive, CallInvInd, WinnersPastInd, Zenon DEF NodesInv

LEMMA NodesInvInit == SimInit => NodesInv
<1>1. ElectionInit => IInv
  <2>1. ElectionInit => TypeOK
    BY DEF ElectionInit, Init, TypeOK, Role
  <2> QED
    BY <2>1, Zenon DEF ElectionInit, Init, IInv, VotesFinal, VotesCast, WonByQuorum,
                LeadersWon, LeaderBeliefSound, NoSelfMessages
<1>2. ElectionInit => CallInv /\ WinnersPast
  BY Zenon DEF ElectionInit, Init, CallInv, WinnersPast
<1> QED
  BY <1>1, <1>2, Zenon DEF SimInit, NodesInv

-----------------------------------------------------------------------------
(* Candidacies: a tick carries requests, the next one all their votes      *)

Ask(n, p, t) == [type |-> "RequestVote", from |-> n, to |-> p, term |-> t]

\* Requests, and granted votes, of n's candidacy of term t among the messages S.
Asking(n, t, S) ==
    \E m \in S : m.type = "RequestVote" /\ m.from = n /\ m.term = t
Voting(n, t, S) ==
    \E m \in S : m.type = "Vote" /\ m.granted /\ m.to = n /\ m.term = t

\* Whether what this tick delivers, or the last one delivered, may get lost.
Cut == IF turn > 0 THEN blocked # {} ELSE healthy = 0

\* All requests of a candidacy are in one batch and all its votes in the next, so
\* that votes are counted while no link changes.  And whoever has not reached the
\* candidate's term by then lost its request to a cut link, since when no tick of
\* whole links has passed.
Candidacy(n) ==
    LET I == InFlight(inbox)
        P == InFlight(pending)
        t == term[n] IN
    /\ Asking(n, t, I) => ~Asking(n, t, P) /\ ~Voting(n, t, I)
    /\ Asking(n, t, I) \/ Asking(n, t, P) \/ Voting(n, t, I) =>
          ~Voting(n, t, P) /\ votes[n] = {n}
    /\ Voting(n, t, P) => \A v \in votes[n] : <<v, n>> \notin blocked
    /\ \A p \in Peers(n) : term[p] < t =>
          /\ Asking(n, t, I) => Ask(n, p, t) \in I
          /\ Asking(n, t, P) \/ Voting(n, t, I) => Ask(n, p, t) \in P \/ Cut
          /\ Voting(n, t, P) => healthy = 0

Candidacies == \A n \in Node : role[n] = "candidate" => Candidacy(n)

LEMMA CandidaciesBegin ==
    ASSUME SimBase, Candidacies, BeginTick
    PROVE  Candidacies'
<1> SUFFICES ASSUME NEW n \in Node, role'[n] = "candidate" PROVE Candidacy(n)'
  BY Zenon DEF Candidacies
<1>1. /\ UNCHANGED <<role, term, votes, blocked, healthy>>
      /\ turn = 0 /\ pending = << >> /\ pending' = inbox /\ inbox' = << >>
  BY DEF BeginTick, vars, SimBase
<1>2. Candidacy(n)
  BY <1>1, Zenon DEF Candidacies
<1>3. InFlight(pending) = {} /\ InFlight(inbox') = {} /\ InFlight(pending') = InFlight(inbox)
  BY <1>1, InFlightNone, Zenon
<1>4. <<n, n>> \notin blocked
  BY Zenon DEF SimBase
<1> HIDE DEF InFlight
<1> QED
  BY <1>1, <1>2, <1>3, <1>4 DEF Candidacy, Asking, Voting, Cut

LEMMA CandidaciesDrop ==
    ASSUME SimBase, Candidacies, Drop
    PROVE  Candidacies'
<1> SUFFICES ASSUME NEW n \in Node, role'[n] = "candidate" PROVE Candidacy(n)'
  BY Zenon DEF Candidacies
<1>1. /\ UNCHANGED <<role, term, votes, blocked, healthy, inbox, turn>>
      /\ blocked # {} /\ healthy = 0 /\ turn = 1
      /\ InFlight(pending') \subseteq InFlight(pending)
  BY Drops, Zenon DEF vars
<1>2. Candidacy(n)
  BY <1>1, Zenon DEF Candidacies
<1> QED
  BY <1>1, <1>2, Zenon DEF Candidacy, Asking, Voting, Cut

LEMMA CandidaciesLinks ==
    ASSUME SimBase, Candidacies, LinksChange
    PROVE  Candidacies'
<1> SUFFICES ASSUME NEW n \in Node, role'[n] = "candidate" PROVE Candidacy(n)'
  BY Zenon DEF Candidacies
<1>1. /\ UNCHANGED <<role, term, votes, inbox, pending, turn>> /\ turn = 0
      /\ pending = << >> /\ healthy' \in {0, healthy}
  BY DEF LinksChange, vars, SimBase
<1>2. Candidacy(n)
  BY <1>1, Zenon DEF Candidacies
<1>3. InFlight(pending) = {}
  BY <1>1, InFlightNone, Zenon
<1> QED
  BY <1>1, <1>2, <1>3 DEF Candidacy, Asking, Voting, Cut

\* Delivering a request of a candidacy takes its receiver to the candidate's term
\* and may answer with a vote; delivering a vote counts it.
LEMMA CandidaciesDeliver ==
    ASSUME SimBase, NodesInv, Candidacies, Deliver
    PROVE  Candidacies'
<1> SUFFICES ASSUME NEW n \in Node, role'[n] = "candidate" PROVE Candidacy(n)'
  BY Zenon DEF Candidacies
<1>1. PICK m \in msgs :
              /\ Step(m) /\ Sends(StepMessages(m)) /\ m.to \in Node
              /\ <<m.from, m.to>> \notin blocked
              /\ InFlight(pending) = {m} \cup InFlight(pending')
              /\ turn = 1 /\ UNCHANGED <<turn, blocked, healthy>>
  BY Delivers, Zenon
<1>2. StepEffect(m)
  BY <1>1, StepDoes, Zenon DEF NodesInv
<1> DEFINE I == InFlight(inbox)
           P == InFlight(pending)
           J == InFlight(inbox')
           Q == InFlight(pending')
<1>3. /\ role[n] = "candidate" /\ term'[n] = term[n]
      /\ \/ votes'[n] = votes[n]
         \/ /\ m.to = n /\ m.type = "Vote" /\ Counts(m)
            /\ votes'[n] = votes[n] \cup {m.from}
  BY <1>1, <1>2, Zenon DEF StepEffect
<1> DEFINE t == term[n]
<1>4. Candidacy(n)
  BY <1>3, Zenon DEF Candidacies
<1>5. J = I \cup StepMessages(m) /\ P = {m} \cup Q
  BY <1>1, Zenon DEF Sends
<1>6. \A r \in StepMessages(m) :
         /\ r.type # "RequestVote"
         /\ r.type = "Vote" /\ r.granted =>
               m.type = "RequestVote" /\ r.to = m.from /\ r.term = m.term
  <2>1. m.type \in {"RequestVote", "Vote", "Heartbeat", "HeartbeatAck"}
    BY <1>1, Zenon DEF NodesInv, IInv, TypeOK, Message
  <2>2. \A r \in StepMessages(m) : r.type # "RequestVote"
    BY <2>1 DEF StepMessages, broadcast
  <2> QED
    BY <2>2, StepSends, Zenon DEF NodesInv
<1>7. /\ Asking(n, t, J) => Asking(n, t, I)
      /\ Asking(n, t, Q) => Asking(n, t, P)
      /\ Voting(n, t, Q) => Voting(n, t, P)
      /\ Voting(n, t, J) => Voting(n, t, I) \/ Asking(n, t, P)
      /\ votes'[n] # votes[n] => Voting(n, t, P)
  BY <1>3, <1>5, <1>6, Zenon DEF Asking, Voting, Counts
<1>8. \A v \in votes'[n] : v \in votes[n] \/ <<v, n>> \notin blocked
  BY <1>1, <1>3, Zenon
<1>9. \A p \in Peers(n) : term'[p] < t => term[p] < t /\ m # Ask(n, p, t)
  <2>1. TypeOK /\ TypeOK'
    BY <1>1, StepType, Zenon DEF NodesInv, IInv
  <2> SUFFICES ASSUME NEW p \in Node, term'[p] < t PROVE term[p] < t /\ m # Ask(n, p, t)
    BY Zenon DEF Peers
  <2>2. term[p] \in Nat /\ term'[p] \in Nat /\ t \in Nat
    BY <2>1, Zenon DEF TypeOK
  <2>3. CASE p = m.to
    BY <1>2, <2>2, <2>3 DEF StepEffect, Ask
  <2>4. CASE p # m.to
    BY <1>2, <2>2, <2>4 DEF StepEffect, Ask
  <2> QED
    BY <2>3, <2>4, Zenon
<1>10. turn > 0 /\ turn' > 0
  BY <1>1
<1> HIDE DEF I, P, J, Q, t
<1>11. /\ Asking(n, t, J) => ~Asking(n, t, Q) /\ ~Voting(n, t, J)
       /\ Asking(n, t, J) \/ Asking(n, t, Q) \/ Voting(n, t, J) =>
            ~Voting(n, t, Q) /\ votes'[n] = {n}
       /\ Voting(n, t, Q) => \A v \in votes'[n] : <<v, n>> \notin blocked
  BY <1>4, <1>7, <1>8, Zenon DEF Candidacy, I, P, t
<1>12. \A p \in Peers(n) : term'[p] < t =>
          /\ Asking(n, t, J) => Ask(n, p, t) \in J
          /\ Asking(n, t, Q) \/ Voting(n, t, J) => Ask(n, p, t) \in Q \/ blocked # {}
          /\ Voting(n, t, Q) => healthy = 0
  <2> SUFFICES ASSUME NEW p \in Peers(n), term'[p] < t
               PROVE  /\ Asking(n, t, J) => Ask(n, p, t) \in J
                      /\ Asking(n, t, Q) \/ Voting(n, t, J) =>
                            Ask(n, p, t) \in Q \/ blocked # {}
                      /\ Voting(n, t, Q) => healthy = 0
    BY Zenon
  <2>1. /\ Asking(n, t, I) => Ask(n, p, t) \in I
        /\ Asking(n, t, P) \/ Voting(n, t, I) => Ask(n, p, t) \in P \/ blocked # {}
        /\ Voting(n, t, P) => healthy = 0
    BY <1>4, <1>9, <1>10, Zenon DEF Candidacy, I, P, t, Cut
  <2> QED
    BY <1>5, <1>7, <1>9, <2>1, Zenon
<1> QED
  BY <1>1, <1>3, <1>10, <1>11, <1>12, Zenon DEF Candidacy, Cut, J, Q, t

\* A node that starts an election asks all its peers at once, in a term that no
\* request or vote of its is of yet; other turns send nothing of a candidacy.
LEMMA CandidaciesTick ==
    ASSUME SimBase, NodesInv, Candidacies, TickInTurn
    PROVE  Candidacies'
<1> SUFFICES ASSUME NEW n \in Node, role'[n] = "candidate" PROVE Candidacy(n)'
  BY Zenon DEF Candidacies
<1>1. PICK q \in Node :
      /\ turn \in 1..Len(Order) /\ q = Order[turn]
      /\ Tick(q) /\ Sends(TickMessages(q))
      /\ pending = << >> /\ UNCHANGED <<pending, blocked>>
      /\ turn' = IF turn = Len(Order) THEN 0 ELSE turn + 1
      /\ healthy' = IF turn = Len(Order) /\ blocked = {} /\ healthy < SettleTicks
                    THEN healthy + 1 ELSE healthy
  BY TicksInTurn, Zenon
<1>2. TickEffect(q)
  BY <1>1, TickDoes, Zenon DEF NodesInv
<1>3. TypeOK /\ TypeOK'
  BY <1>1, TickType, Zenon DEF NodesInv, IInv
<1> DEFINE I == InFlight(inbox)
           J == InFlight(inbox')
<1>4. InFlight(pending) = {} /\ InFlight(pending') = {} /\ J = I \cup TickMessages(q)
  BY <1>1, InFlightNone, Zenon DEF Sends
<1>5. \A r \in TickMessages(q) : r.from = q /\ r.type # "Vote"
  BY <1>1, TickSends, Zenon DEF NodesInv
<1>6. \A r \in I : r \in msgs
  BY DEF SimBase, SimTypeOK, InFlight
<1>7. ~Asking(n, term'[n], {}) /\ ~Voting(n, term'[n], {})
  BY Zenon DEF Asking, Voting
<1> HIDE DEF I, J
<1>8. CASE n = q /\ TimesOut(q) /\ term'[q] = term[q] + 1
  <2>1. /\ TickMessages(q) = broadcast("RequestVote", q, term[q] + 1)
        /\ votes'[n] = {n}
    <3>1. term[q] \in Nat
      BY <1>1, <1>3, Zenon DEF TypeOK
    <3> QED
      BY <1>2, <1>8, <3>1 DEF TickEffect
  <2>2. term[n] \in Nat /\ term'[n] = term[n] + 1
    BY <1>3, <1>8, Zenon DEF TypeOK
  <2>3. \A r \in I : ~(r.type = "Vote" /\ r.granted /\ r.to = n /\ r.term = term'[n])
    <3> SUFFICES ASSUME NEW r \in I, r.type = "Vote" /\ r.granted /\ r.to = n
                 PROVE  r.term # term'[n]
      BY Zenon
    <3>1. r \in msgs /\ r.term \in Nat
      BY <1>3, <1>6, Zenon DEF TypeOK, Message
    <3>2. r.term <= term[n]
      BY <3>1, Zenon DEF NodesInv, CallInv
    <3> QED
      BY <2>2, <3>1, <3>2
  <2>4. ~Voting(n, term'[n], J)
    BY <1>4, <1>5, <2>3, Zenon DEF Voting
  <2>5. \A p \in Peers(n) : Ask(n, p, term'[n]) \in J
    BY <1>4, <1>8, <2>1, Zenon DEF broadcast, Ask
  <2> QED
    BY <1>4, <1>7, <2>1, <2>4, <2>5, Zenon DEF Candidacy, J
<1>9. CASE ~(n = q /\ TimesOut(q) /\ term'[q] = term[q] + 1)
  <2>1. /\ role[n] = "candidate" /\ term'[n] = term[n] /\ votes'[n] = votes[n]
        /\ n = q => TickMessages(q) = {}
    BY <1>1, <1>2, <1>9, Zenon DEF TickEffect
  <2>2. Candidacy(n)
    BY <2>1, Zenon DEF Candidacies
  <2> DEFINE t == term[n]
  <2>3. /\ Asking(n, t, J) => Asking(n, t, I)
        /\ Voting(n, t, J) => Voting(n, t, I)
    BY <1>4, <1>5, <2>1, Zenon DEF Asking, Voting
  <2>4. \A p \in Peers(n) : term'[p] < t => term[p] < t
    <3> SUFFICES ASSUME NEW p \in Node, term'[p] < t PROVE term[p] < t
      BY Zenon DEF Peers
    <3>1. term[p] \in Nat /\ term'[p] \in Nat /\ t \in Nat
      BY <1>3, Zenon DEF TypeOK
    <3> QED
      BY <1>1, <1>2, <3>1 DEF TickEffect
  <2>5. Cut => Cut'
    <3>1. turn > 0 /\ (turn' = 0 \/ turn' > 0)
      BY <1>1
    <3>2. blocked # {} => healthy' = 0
      BY <1>1, Zenon DEF SimBase
    <3> QED
      BY <1>1, <3>1, <3>2, Zenon DEF Cut
  <2> HIDE DEF t
  <2>6. \A p \in Peers(n) : term'[p] < t =>
          /\ Asking(n, t, J) => Ask(n, p, t) \in J
          /\ Voting(n, t, J) => Cut'
    <3> SUFFICES ASSUME NEW p \in Peers(n), term'[p] < t
                 PROVE  /\ Asking(n, t, J) => Ask(n, p, t) \in J
                        /\ Voting(n, t, J) => Cut'
      BY Zenon
    <3>1. /\ Asking(n, t, I) => Ask(n, p, t) \in I
          /\ Voting(n, t, I) => Cut
      BY <1>4, <2>2, <2>4, Zenon DEF Candidacy, I, t
    <3> QED
      BY <1>4, <2>3, <2>5, <3>1, Zenon
  <2>7. /\ Asking(n, t, J) => ~Voting(n, t, J)
        /\ Asking(n, t, J) \/ Voting(n, t, J) => votes[n] = {n}
    BY <1>4, <2>2, <2>3, Zenon DEF Candidacy, I, t
  <2>8. term'[n] = t /\ votes'[n] = votes[n]
    BY <2>1, Zenon DEF t
  <2> QED
    BY <1>4, <1>7, <2>6, <2>7, <2>8, Zenon DEF Candidacy, J
<1> QED
  BY <1>8, <1>9, Zenon

\* Candidacies is preserved.
LEMMA CandidaciesInd ==
    SimBase /\ NodesInv /\ Candidacies /\ [SimNext]_simVars => Candidacies'
<1> SUFFICES ASSUME SimBase, NodesInv, Candidacies, [SimNext]_simVars PROVE Candidacies'
  BY Zenon
<1>1. CASE UNCHANGED simVars
  BY <1>1 DEF simVars, Candidacies, Candidacy, Cut
<1> QED
  BY <1>1, SimSteps, CandidaciesBegin, CandidaciesDrop, CandidaciesLinks,
     CandidaciesDeliver, CandidaciesTick, Zenon

LEMMA CandidaciesInit == SimInit => Candidacies
BY Zenon DEF SimInit, ElectionInit, Init, Candidacies

\* SimBase, what holds of the nodes, and Candidacies hold throughout.
LEMMA SimInvariance == SimSpec => [](SimBase /\ NodesInv /\ Candidacies)
BY SimBaseInit, SimBaseInd, SimStepAllowed, NodesInvInit, NodesInvInd, CandidaciesInit,
   CandidaciesInd, PTL DEF SimSpec

\* A sole member can hear from a quorum of itself.
LEMMA SoleMemberHears ==
    ASSUME SimBase, SoleMember, NEW n \in Node
    PROVE  Cardinality({v \in Node : <<v, n>> \notin blocked}) >= quorum
<1> DEFINE H == {v \in Node : <<v, n>> \notin blocked}
<1>1. IsFiniteSet(H) /\ {n} \in SUBSET H
  <2>1. H \in SUBSET Node /\ IsFiniteSet(Node)
    BY MembersAssumption, Zenon
  <2>2. IsFiniteSet(H)
    BY <2>1, FS_Subset, Zenon
  <2> QED
    BY <2>2, Zenon DEF SimBase
<1> HIDE DEF H
<1>2. Cardinality(H) \in Nat /\ Cardinality({n}) <= Cardinality(H) /\ Cardinality({n}) = 1
  BY <1>1, FS_Subset, FS_CardinalityType, FS_Singleton, Zenon
<1>3. quorum \in Int /\ quorum <= 1
  <2>1. Cardinality(Node) \in Nat
    BY MembersAssumption, FS_CardinalityType, Zenon
  <2> QED
    BY <2>1 DEF SoleMember, quorum
<1>4. Cardinality(H) >= quorum
  BY <1>2, <1>3
<1> QED
  BY <1>4, Zenon DEF H

\* A node that wins an election can hear from a quorum at that moment: votes that
\* were in flight when a minority was cut off never make it a leader.
THEOREM WinnersHearQuorum == SimSpec => WinnerHearsQuorum
<1>1. SimBase /\ NodesInv /\ Candidacies /\ [SimNext]_simVars =>
        [\A n \in Node : role[n] # "leader" /\ role'[n] = "leader" =>
            Cardinality({v \in Node : <<v, n>> \notin blocked}) >= quorum]_simVars
  <2> SUFFICES ASSUME SimBase, NodesInv, Candidacies, SimNext,
                      NEW n \in Node, role[n] # "leader", role'[n] = "leader"
               PROVE  Cardinality({v \in Node : <<v, n>> \notin blocked}) >= quorum
    BY Zenon
  <2>1. CASE BeginTick \/ Drop \/ LinksChange
    BY <2>1, Zenon DEF BeginTick, Drop, LinksChange, vars
  <2>2. CASE TickInTurn
    <3>1. PICK q \in Node : Tick(q)
      BY <2>2, TicksInTurn, Zenon
    <3>2. TickEffect(q)
      BY <3>1, TickDoes, Zenon DEF NodesInv
    <3>3. SoleMember
      <4>1. CASE n = q
        BY <3>2, <4>1, Zenon DEF TickEffect
      <4>2. CASE n # q
        BY <3>2, <4>2, Zenon DEF TickEffect
      <4> QED
        BY <4>1, <4>2, Zenon
    <3> QED
      BY <3>3, SoleMemberHears, Zenon
  <2>3. CASE Deliver
    <3>1. PICK m \in msgs :
                /\ Step(m) /\ m.to \in Node /\ <<m.from, m.to>> \notin blocked
                /\ InFlight(pending) = {m} \cup InFlight(pending')
      BY <2>3, Delivers, Zenon
    <3>2. StepEffect(m)
      BY <3>1, StepDoes, Zenon DEF NodesInv
    <3>3. m.to = n /\ m.type = "Vote" /\ Counts(m) /\ MakesQuorum(m)
      BY <3>2, Zenon DEF StepEffect
    <3>4. role[n] = "candidate" /\ m.granted /\ m.term = term[n]
      BY <3>3, Zenon DEF Counts
    <3>5. \A v \in votes[n] : <<v, n>> \notin blocked
      BY <3>1, <3>3, <3>4, Zenon DEF Candidacies, Candidacy, Voting
    <3> DEFINE V == votes[n] \cup {m.from}
               H == {v \in Node : <<v, n>> \notin blocked}
    <3>6. V \in SUBSET H /\ H \in SUBSET Node
      <4>1. votes[n] \subseteq Node /\ m.from \in Node
        BY Zenon DEF NodesInv, IInv, TypeOK, Message
      <4> QED
        BY <3>1, <3>3, <3>5, <4>1, Zenon
    <3>7. Cardinality(V) >= quorum
      BY <3>3, Zenon DEF MakesQuorum
    <3> HIDE DEF V, H
    <3>8. /\ IsFiniteSet(H) /\ IsFiniteSet(V) /\ Cardinality(V) <= Cardinality(H)
          /\ Cardinality(V) \in Nat /\ Cardinality(H) \in Nat /\ quorum \in Int
      BY <3>6, MembersAssumption, FS_Subset, FS_CardinalityType DEF quorum
    <3>9. Cardinality(H) >= quorum
      BY <3>7, <3>8
    <3> QED
      BY <3>9, Zenon DEF H
  <2> QED
    BY <2>1, <2>2, <2>3, SimSteps, Zenon
<1> QED
  BY <1>1, SimInvariance, PTL DEF SimSpec, WinnerHearsQuorum

-----------------------------------------------------------------------------
(* Heartbeats: what a leader owes its peers on whole links                 *)

Beat(l, p, t) == [type |-> "Heartbeat", from |-> l, to |-> p, term |-> t]

\* Whether n has had its turn in the current tick, and as a number.
Done(n) == \E i \in 1..Len(Order) : i < turn /\ Order[i] = n
Turns(n) == IF Done(n) THEN 1 ELSE 0

\* The ticks n has taken since the links were restored.
Ticked(n) == IF blocked # {} THEN 0 ELSE healthy + Turns(n)

\* The leader l still has to reach p: its heartbeat is on the way, soon enough, or
\* not even due since the links were restored.
Owed(l, p) ==
    \/ Beat(l, p, term[l]) \in InFlight(pending) /\ healthy <= HeartbeatTicks
    \/ /\ Beat(l, p, term[l]) \in InFlight(inbox)
       /\ healthy <= IF turn = 0 THEN HeartbeatTicks ELSE HeartbeatTicks - 1
    \/ Ticked(l) <= elapsed[l]

\* p's timer was reset no earlier than l's, or is about to be reset in time.
Fresh(l, p) ==
    \/ elapsed[p] + Turns(l) <= elapsed[l] + Turns(p)
    \/ Beat(l, p, term[l]) \in InFlight(pending) /\ elapsed[p] <= HeartbeatTicks
    \/ /\ Beat(l, p, term[l]) \in InFlight(inbox)
       /\ elapsed[p] <= IF turn = 0 THEN HeartbeatTicks
                        ELSE HeartbeatTicks - 1 + Turns(p)

\* A leader still owes its heartbeat to whoever is behind its term; and who follows
\* it has a fresh timer unless it is still owed one.
Beats ==
    \A l \in Node : role[l] = "leader" => \A p \in Peers(l) :
        /\ term[p] < term[l] => Owed(l, p)
        /\ leader[p] = l /\ term[p] = term[l] => Owed(l, p) \/ Fresh(l, p)

LEMMA BeatType ==
    ASSUME SimBase, NEW n \in Node
    PROVE  /\ elapsed[n] \in Nat /\ term[n] \in Nat /\ HeartbeatTicks \in Nat \ {0}
           /\ healthy \in Nat /\ Turns(n) \in {0, 1} /\ Ticked(n) \in Nat
           /\ turn \in Nat /\ Len(Order) \in Nat
<1>1. /\ elapsed[n] \in Nat /\ term[n] \in Nat /\ HeartbeatTicks \in Nat \ {0}
      /\ healthy \in Nat /\ turn \in Nat /\ Len(Order) \in Nat
  BY ConfigAssumption, OrderAssumption DEF SimBase, SimTypeOK, TypeOK, SettleTicks
<1>2. Turns(n) \in {0, 1}
  BY Zenon DEF Turns
<1> QED
  BY <1>1, <1>2 DEF Ticked

\* Nobody has had its turn between ticks, nor while messages are delivered.
LEMMA NoneDone ==
    ASSUME NEW n
    PROVE  /\ turn \in {0, 1} => Turns(n) = 0
           /\ turn' \in {0, 1} => Turns(n)' = 0
BY OrderAssumption DEF Turns, Done

\* The node that ticks has its turn now; after the last, a new round begins.
LEMMA TurnTaken ==
    ASSUME turn \in 1..Len(Order), NEW q \in Node, q = Order[turn],
           turn' = IF turn = Len(Order) THEN 0 ELSE turn + 1, NEW n \in Node
    PROVE  /\ Turns(q) = 0
           /\ turn # Len(Order) => Turns(n)' = IF n = q THEN 1 ELSE Turns(n)
           /\ turn = Len(Order) => Turns(n)' = 0 /\ (n # q => Turns(n) = 1)
<1>1. Len(Order) \in Nat /\ \A i \in 1..Len(Order) : Order[i] = q => i = turn
  BY OrderAssumption, SMTT(30)
<1>2. Turns(q) = 0
  BY <1>1 DEF Turns, Done
<1>3. ASSUME turn # Len(Order) PROVE Turns(n)' = IF n = q THEN 1 ELSE Turns(n)
  <2>1. turn' = turn + 1
    BY <1>3, Zenon
  <2>2. CASE n = q
    BY <1>1, <2>1, <2>2 DEF Turns, Done
  <2>3. CASE n # q
    <3>1. Done(n)' <=> Done(n)
      BY <1>1, <2>1, <2>3 DEF Done
    <3> QED
      BY <2>3, <3>1, Zenon DEF Turns
  <2> QED
    BY <2>2, <2>3, Zenon
<1>4. ASSUME turn = Len(Order) PROVE Turns(n)' = 0 /\ (n # q => Turns(n) = 1)
  <2>1. Turns(n)' = 0
    BY <1>1, <1>4, NoneDone, Zenon
  <2>2. ASSUME n # q PROVE Turns(n) = 1
    <3>1. PICK i \in 1..Len(Order) : Order[i] = n
      BY OrderAssumption, Zenon
    <3>2. i # turn /\ i < turn
      BY <1>1, <1>4, <2>2, <3>1
    <3> QED
      BY <3>1, <3>2, Zenon DEF Turns, Done
  <2> QED
    BY <2>1, <2>2, Zenon
<1> QED
  BY <1>2, <1>3, <1>4, Zenon

LEMMA BeatsBegin ==
    ASSUME SimBase, Beats, BeginTick
    PROVE  Beats'
<1>1. /\ UNCHANGED <<role, term, leader, elapsed, blocked, healthy>>
      /\ turn = 0 /\ turn' \in {0, 1} /\ pending = << >> /\ pending' = inbox
  BY DEF BeginTick, vars, SimBase
<1> SUFFICES ASSUME NEW l \in Node, role[l] = "leader", NEW p \in Peers(l)
             PROVE  (Owed(l, p) => Owed(l, p)') /\ (Fresh(l, p) => Fresh(l, p)')
  BY <1>1, Zenon DEF Beats
<1>2. InFlight(pending) = {} /\ InFlight(pending') = InFlight(inbox)
  BY <1>1, InFlightNone, Zenon
<1>3. Turns(l)' = Turns(l) /\ Turns(p)' = Turns(p)
  BY <1>1, NoneDone, Zenon
<1> QED
  BY <1>1, <1>2, <1>3, Zenon DEF Owed, Fresh, Ticked

LEMMA BeatsDrop ==
    ASSUME SimBase, Beats, Drop
    PROVE  Beats'
<1> SUFFICES ASSUME NEW l \in Node PROVE Ticked(l)' <= elapsed'[l]
  BY Zenon DEF Beats, Owed
<1>1. elapsed' = elapsed /\ blocked' # {}
  BY Drops, Zenon DEF vars
<1> QED
  BY <1>1, BeatType DEF Ticked

LEMMA BeatsLinks ==
    ASSUME SimBase, Beats, LinksChange
    PROVE  Beats'
<1>1. /\ UNCHANGED <<role, term, leader, elapsed, inbox, pending, turn>> /\ turn = 0
      /\ healthy' = 0 \/ (blocked' = {} /\ UNCHANGED healthy)
      /\ blocked # {} => healthy = 0
  BY Zenon DEF LinksChange, vars, SimBase
<1>2. CASE healthy' = 0
  <2> SUFFICES ASSUME NEW l \in Node PROVE Ticked(l)' <= elapsed'[l]
    BY Zenon DEF Beats, Owed
  <2>1. Turns(l)' = 0
    BY <1>1, NoneDone, Zenon
  <2> QED
    BY <1>1, <1>2, <2>1, BeatType DEF Ticked
<1>3. CASE blocked' = {} /\ UNCHANGED healthy
  <2> SUFFICES ASSUME NEW l \in Node, role[l] = "leader", NEW p \in Peers(l)
               PROVE  (Owed(l, p) => Owed(l, p)') /\ (Fresh(l, p) => Fresh(l, p)')
    BY <1>1, Zenon DEF Beats
  <2>1. Turns(l)' = 0 /\ Turns(p)' = 0 /\ Turns(l) = 0 /\ Turns(p) = 0
    BY <1>1, NoneDone, Zenon
  <2>2. Ticked(l)' = Ticked(l)
    BY <1>1, <1>3, <2>1, BeatType DEF Ticked
  <2> QED
    BY <1>1, <1>3, <2>1, <2>2, Zenon DEF Owed, Fresh
<1> QED
  BY <1>1, <1>2, <1>3, Zenon

\* A leader's heartbeat that is delivered to p in its term resets p's timer.
LEMMA BeatHeard ==
    ASSUME NodesInv, NEW l \in Node, NEW p \in Peers(l), role[l] = "leader",
           NEW m \in msgs, m = Beat(l, p, term[l]), StepEffect(m), term'[p] = term[l]
    PROVE  elapsed'[p] = 0
<1>1. /\ term[l] \in Nat /\ term[p] \in Nat /\ p \in Node /\ p # l
  BY Zenon DEF NodesInv, IInv, TypeOK, Peers
<1>2. m.type = "Heartbeat" /\ m.to = p /\ m.from = l /\ m.term = term[l]
  BY Zenon DEF Beat
<1>3. term[p] <= term[l]
  BY <1>2, Zenon DEF StepEffect
<1>4. ~(role[p] = "leader" /\ term[p] = term[l])
  <2> SUFFICES ASSUME role[p] = "leader", term[p] = term[l] PROVE FALSE
    BY Zenon
  <2>1. leader[p] = p /\ leader[l] = l /\ p # None /\ l # None
    BY <1>1, MembersAssumption, Zenon DEF NodesInv, IInv, LeadersWon
  <2>2. <<term[l], p>> \in won /\ <<term[l], l>> \in won
    BY <1>1, <2>1, Zenon DEF NodesInv, IInv, LeadersWon, LeaderBeliefSound
  <2> QED
    BY <1>1, <2>2, OneWinner, Zenon DEF NodesInv
<1>5. ~Ignored(m)
  BY <1>1, <1>2, <1>3, <1>4 DEF Ignored, Newer, Stale
<1> QED
  BY <1>2, <1>5, Zenon DEF StepEffect

\* A message reaches p, or makes a leader.
LEMMA BeatsDeliver ==
    ASSUME SimBase, NodesInv, Candidacies, Beats, Deliver
    PROVE  Beats'
<1>1. PICK m \in msgs :
              /\ Step(m) /\ Sends(StepMessages(m)) /\ m.to \in Node
              /\ InFlight(pending) = {m} \cup InFlight(pending')
              /\ turn = 1 /\ UNCHANGED <<turn, blocked, healthy>>
  BY Delivers, Zenon
<1>2. StepEffect(m)
  BY <1>1, StepDoes, Zenon DEF NodesInv
<1> DEFINE I == InFlight(inbox)
           P == InFlight(pending)
           J == InFlight(inbox')
           Q == InFlight(pending')
<1>3. I \subseteq J /\ P = {m} \cup Q
  BY <1>1, Zenon DEF Sends
<1> SUFFICES ASSUME NEW l \in Node, role'[l] = "leader", NEW p \in Peers(l)
             PROVE  /\ term'[p] < term'[l] => Owed(l, p)'
                    /\ leader'[p] = l /\ term'[p] = term'[l] => Owed(l, p)' \/ Fresh(l, p)'
  BY Zenon DEF Beats
<1>4. /\ p \in Node /\ p # l /\ Turns(l) = 0 /\ Turns(p) = 0
      /\ Turns(l)' = 0 /\ Turns(p)' = 0
  BY <1>1, NoneDone, Zenon DEF Peers
<1>5. /\ elapsed[l] \in Nat /\ term[l] \in Nat /\ HeartbeatTicks \in Nat \ {0}
      /\ elapsed[p] \in Nat /\ term[p] \in Nat /\ healthy \in Nat
  BY <1>4, BeatType, Zenon
<1>6. /\ elapsed'[l] \in Nat /\ term'[l] \in Nat
      /\ elapsed'[p] \in Nat /\ term'[p] \in Nat
  <2>1. TypeOK'
    BY <1>1, StepType, Zenon DEF NodesInv, IInv
  <2> QED
    BY <1>4, <2>1, Zenon DEF TypeOK
<1> HIDE DEF I, P, J, Q
<1>7. CASE role[l] # "leader"
  <2>1. /\ m.to = l /\ m.type = "Vote" /\ Counts(m) /\ UNCHANGED term[l]
        /\ UNCHANGED <<term[p], leader[p]>>
    BY <1>2, <1>4, <1>7 DEF StepEffect
  <2>2. /\ role[l] = "candidate" /\ Voting(l, term[l], InFlight(pending))
    BY <1>1, <2>1, Zenon DEF Counts, Voting
  <2>3. term[p] < term[l] => healthy = 0
    BY <2>2, Zenon DEF Candidacies, Candidacy
  <2>4. term[p] < term[l] => Ticked(l)' <= elapsed'[l]
    BY <1>1, <1>4, <1>6, <2>3 DEF Ticked
  <2>5. ~(leader[p] = l /\ term[p] = term[l])
    <3> SUFFICES ASSUME leader[p] = l, term[p] = term[l] PROVE FALSE
      BY Zenon
    <3>1. <<term[l], l>> \in won
      BY <1>4, MembersAssumption, Zenon DEF NodesInv, IInv, LeadersWon, LeaderBeliefSound
    <3> QED
      BY <1>5, <2>2, <3>1 DEF NodesInv, WinnersPast
  <2> QED
    BY <2>1, <2>4, <2>5, Zenon DEF Owed
<1>8. CASE role[l] = "leader"
  <2> DEFINE t == term[l]
             B == Beat(l, p, t)
  <2>1. term'[l] = t /\ elapsed'[l] = elapsed[l]
    BY <1>2, <1>8, Zenon DEF StepEffect
  <2>2. Ticked(l)' = Ticked(l)
    BY <1>1, <1>4, Zenon DEF Ticked
  <2>3. /\ Owed(l, p) => (B \in P /\ healthy <= HeartbeatTicks)
                         \/ (B \in I /\ healthy <= HeartbeatTicks - 1)
                         \/ Ticked(l) <= elapsed[l]
        /\ (B \in Q /\ healthy <= HeartbeatTicks)
              \/ (B \in J /\ healthy <= HeartbeatTicks - 1)
              \/ Ticked(l) <= elapsed[l] => Owed(l, p)'
    BY <1>1, <2>1, <2>2 DEF Owed, P, I, Q, J
  <2>4. /\ Fresh(l, p) => elapsed[p] <= elapsed[l]
                          \/ (B \in P /\ elapsed[p] <= HeartbeatTicks)
                          \/ (B \in I /\ elapsed[p] <= HeartbeatTicks - 1)
        /\ elapsed'[p] <= elapsed[l]
              \/ (B \in Q /\ elapsed'[p] <= HeartbeatTicks)
              \/ (B \in J /\ elapsed'[p] <= HeartbeatTicks - 1) => Fresh(l, p)'
    BY <1>1, <1>4, <1>5, <1>6, <2>1 DEF Fresh, P, I, Q, J
  <2>5. /\ term[p] < t => Owed(l, p)
        /\ leader[p] = l /\ term[p] = t => Owed(l, p) \/ Fresh(l, p)
    BY <1>8, Zenon DEF Beats
  <2>6. CASE m = B
    <3>1. m.to = p /\ m.term = t
      BY <2>6, Zenon DEF Beat
    <3>2. term'[p] >= t
      BY <1>2, <3>1, Zenon DEF StepEffect
    <3>3. term'[p] = t => elapsed'[p] = 0
      BY <1>2, <1>8, <2>6, BeatHeard, Zenon
    <3> QED
      BY <1>5, <1>6, <2>1, <2>4, <3>2, <3>3
  <2>7. CASE m # B
    <3>1. /\ term'[p] >= term[p] /\ elapsed'[p] <= elapsed[p]
          /\ leader'[p] = l /\ term'[p] = t => leader[p] = l /\ term[p] = t
      <4>1. CASE p = m.to
        <5>1. /\ term'[p] >= term[p] /\ elapsed'[p] \in {elapsed[p], 0}
              /\ leader'[p] = l =>
                    \/ leader[p] = l /\ UNCHANGED term[p]
                    \/ m.type = "Heartbeat" /\ m.from = l /\ m.term = term'[p]
          BY <1>2, <1>4, <4>1, Zenon DEF StepEffect, Peers
        <5>2. m.type = "Heartbeat" /\ m.from = l /\ m.term = t => m = B
          BY <4>1, Zenon DEF NodesInv, IInv, TypeOK, Message, Beat
        <5> QED
          BY <1>5, <2>7, <5>1, <5>2
      <4>2. CASE p # m.to
        <5>1. UNCHANGED <<term[p], elapsed[p], leader[p]>>
          BY <1>2, <1>4, <4>2, Zenon DEF StepEffect
        <5>2. term[p] >= term[p] /\ elapsed[p] <= elapsed[p]
          BY <1>5
        <5> QED
          BY <5>1, <5>2, Zenon
      <4> QED
        BY <4>1, <4>2, Zenon
    <3>2. Owed(l, p) => Owed(l, p)'
      BY <1>3, <2>3, <2>7, Zenon
    <3>3. Fresh(l, p) => Fresh(l, p)'
      <4> HIDE DEF B
      <4> QED
        BY <1>3, <1>5, <1>6, <2>4, <2>7, <3>1, SMTT(30)
    <3> HIDE DEF t, B
    <3>4. t \in Nat
      BY <1>5, Zenon DEF t
    <3> QED
      BY <1>5, <1>6, <2>1, <2>5, <3>1, <3>2, <3>3, <3>4
  <2> QED
    BY <2>6, <2>7, Zenon
<1> QED
  BY <1>7, <1>8, Zenon

\* A sole member has no peers.
LEMMA SoleMemberAlone ==
    ASSUME SoleMember, NEW n \in Node
    PROVE  Peers(n) = {}
<1> SUFFICES ASSUME NEW p \in Node, p # n PROVE FALSE
  BY Zenon DEF Peers
<1>1. /\ {n, p} \in SUBSET Node /\ IsFiniteSet(Node) /\ Cardinality(Node) \in Nat
  BY MembersAssumption, FS_CardinalityType, Zenon
<1>2. Cardinality({n, p}) <= Cardinality(Node)
  BY <1>1, FS_Subset, Zenon
<1>3. Cardinality({n, p}) = 2
  <2>1. IsFiniteSet({n}) /\ Cardinality({n}) = 1
    BY FS_Singleton, Zenon
  <2>2. Cardinality({n} \cup {p}) = Cardinality({n}) + 1
    BY <2>1, FS_AddElement, Zenon
  <2>3. {n} \cup {p} = {n, p}
    BY Zenon
  <2> QED
    BY <2>1, <2>2, <2>3
<1>4. quorum >= 2
  BY <1>1, <1>2, <1>3 DEF quorum
<1>5. quorum \in Int
  BY <1>1 DEF quorum
<1> QED
  BY <1>4, <1>5 DEF SoleMember

\* A turn ages the timer of the node that ticks, unless it sends heartbeats: then
\* they are on their way to all.
\* Two timers a and b that run on in one round of ticks keep their order, counting
\* with each whether it has been ticked in the round (c and d); so do they at the end
\* of the round, when both have been.
LEMMA TimersInStep ==
    ASSUME NEW a \in Nat, NEW b \in Nat, NEW c \in {0, 1}, NEW d \in {0, 1},
           NEW x \in {0, 1}, NEW y \in {0, 1}, a + c <= b + d
    PROVE  /\ (a + y) + (c + x) <= (b + x) + (d + y)
           /\ c + x = 1 /\ d + y = 1 => (a + y) + 0 <= (b + x) + 0
  OBVIOUS

LEMMA BeatsTick ==
    ASSUME SimBase, NodesInv, Beats, TickInTurn
    PROVE  Beats'
<1>1. PICK q \in Node :
      /\ turn \in 1..Len(Order) /\ q = Order[turn]
      /\ Tick(q) /\ Sends(TickMessages(q))
      /\ pending = << >> /\ UNCHANGED <<pending, blocked>>
      /\ turn' = IF turn = Len(Order) THEN 0 ELSE turn + 1
      /\ healthy' = IF turn = Len(Order) /\ blocked = {} /\ healthy < SettleTicks
                    THEN healthy + 1 ELSE healthy
  BY TicksInTurn, Zenon
<1>2. TickEffect(q)
  BY <1>1, TickDoes, Zenon DEF NodesInv
<1> SUFFICES ASSUME NEW l \in Node, role'[l] = "leader", NEW p \in Peers(l)
             PROVE  /\ term'[p] < term'[l] => Owed(l, p)'
                    /\ leader'[p] = l /\ term'[p] = term'[l] => Owed(l, p)' \/ Fresh(l, p)'
  BY Zenon DEF Beats
<1> DEFINE last == turn = Len(Order)
           I == InFlight(inbox)
           J == InFlight(inbox')
           t == term[l]
           B == Beat(l, p, t)
           beats == l = q /\ elapsed'[l] = 0 /\ B \in J
           x == IF l = q THEN 1 ELSE 0
           y == IF p = q THEN 1 ELSE 0
<1>3. p \in Node /\ p # l /\ InFlight(pending) = {} /\ InFlight(pending') = {}
  BY <1>1, InFlightNone, Zenon DEF Peers
<1>4. I \subseteq J /\ J = I \cup TickMessages(q)
  BY <1>1, Zenon DEF Sends
<1>5. /\ elapsed[l] \in Nat /\ t \in Nat /\ HeartbeatTicks \in Nat \ {0}
      /\ elapsed[p] \in Nat /\ term[p] \in Nat /\ healthy \in Nat
      /\ Ticked(l) \in Nat /\ turn \in Nat \ {0} /\ Len(Order) \in Nat
      /\ Turns(l) \in {0, 1} /\ Turns(p) \in {0, 1}
  BY <1>1, <1>3, BeatType
<1>6. elapsed'[l] \in Nat /\ elapsed'[p] \in Nat /\ term'[p] \in Nat
  <2>1. TypeOK'
    BY <1>1, TickType, Zenon DEF NodesInv, IInv
  <2> QED
    BY <1>3, <2>1, Zenon DEF TypeOK
<1>7. role[l] = "leader"
  <2> SUFFICES ASSUME role[l] # "leader" PROVE FALSE
    BY Zenon
  <2>1. SoleMember
    BY <1>2, l = q \/ l # q, Zenon DEF TickEffect
  <2> QED
    BY <2>1, SoleMemberAlone, Zenon
<1>8. /\ term'[l] = t /\ elapsed[l] < HeartbeatTicks
      /\ beats \/ elapsed'[l] = elapsed[l] + x
  <2>1. elapsed[l] < HeartbeatTicks
    BY <1>7, Zenon DEF NodesInv, CallInv
  <2>2. CASE l # q
    <3>1. term'[l] = t /\ elapsed'[l] = elapsed[l] /\ x = 0
      BY <1>2, <2>2, Zenon DEF TickEffect
    <3>2. elapsed[l] = elapsed[l] + 0
      BY <1>5
    <3> QED
      BY <2>1, <3>1, <3>2, Zenon
  <2>3. CASE l = q
    <3>1. \/ term'[l] = t /\ elapsed'[l] = elapsed[l] + 1
          \/ /\ term'[l] = t /\ elapsed'[l] = 0
             /\ TickMessages(q) = broadcast("Heartbeat", l, t)
      BY <1>2, <1>7, <2>3, Zenon DEF TickEffect, TimesOut
    <3>2. B \in broadcast("Heartbeat", l, t)
      BY Zenon DEF broadcast, Beat
    <3> QED
      BY <1>4, <2>1, <2>3, <3>1, <3>2, Zenon
  <2> QED
    BY <2>2, <2>3, Zenon
<1>9. /\ term'[p] >= term[p]
      /\ leader'[p] = l => leader[p] = l /\ elapsed'[p] = elapsed[p] + y
  <2>1. CASE p # q
    <3>1. term'[p] = term[p] /\ leader'[p] = leader[p] /\ elapsed'[p] = elapsed[p] /\ y = 0
      BY <1>2, <1>3, <2>1, Zenon DEF TickEffect
    <3>2. elapsed[p] = elapsed[p] + 0 /\ term[p] >= term[p]
      BY <1>5
    <3> QED
      BY <3>1, <3>2, Zenon
  <2>2. CASE p = q
    <3>1. role[p] = "leader" => leader[p] = p
      BY <1>3, Zenon DEF NodesInv, IInv, LeadersWon
    <3>2. \/ UNCHANGED <<leader[p], term[p]>> /\ elapsed'[p] = elapsed[p] + 1
          \/ UNCHANGED <<leader[p], term[p]>> /\ role[p] = "leader"
          \/ term'[p] = term[p] + 1 /\ leader'[p] \in {p, None}
      BY <1>2, <2>2, Zenon DEF TickEffect
    <3> QED
      BY <1>3, <1>5, <2>2, <3>1, <3>2, MembersAssumption
  <2> QED
    BY <2>1, <2>2, Zenon
<1>10. /\ x \in {0, 1} /\ y \in {0, 1}
       /\ x = 1 => Turns(l) = 0 /\ y = 0
       /\ y = 1 => Turns(p) = 0
       /\ ~last => Turns(l)' = Turns(l) + x /\ Turns(p)' = Turns(p) + y
       /\ last => Turns(l)' = 0 /\ Turns(l) + x = 1 /\ Turns(p)' = 0 /\ Turns(p) + y = 1
  <2>1. /\ Turns(q) = 0
        /\ ~last => Turns(l)' = IF l = q THEN 1 ELSE Turns(l)
        /\ last => Turns(l)' = 0 /\ (l # q => Turns(l) = 1)
    BY <1>1, TurnTaken, Zenon
  <2>2. /\ ~last => Turns(p)' = IF p = q THEN 1 ELSE Turns(p)
        /\ last => Turns(p)' = 0 /\ (p # q => Turns(p) = 1)
    BY <1>1, <1>3, TurnTaken, Zenon
  <2> QED
    BY <1>3, <1>5, <2>1, <2>2
<1>11. /\ turn # 0 /\ (last => turn' = 0) /\ (~last => turn' # 0)
       /\ healthy' \in {healthy, healthy + 1} /\ (~last => healthy' = healthy)
       /\ blocked # {} => healthy' = 0 /\ healthy = 0
  BY <1>1, <1>5 DEF SimBase
<1>12. /\ Ticked(l)' \in Nat /\ Ticked(l)' <= Ticked(l) + x
       /\ l = q => healthy <= Ticked(l)
  <2>1. Ticked(l)' = IF blocked # {} THEN 0 ELSE healthy' + Turns(l)'
    BY <1>1, Zenon DEF Ticked
  <2>2. Ticked(l) = IF blocked # {} THEN 0 ELSE healthy + Turns(l)
    BY Zenon DEF Ticked
  <2>3. Turns(l)' \in Nat /\ healthy' \in Nat /\ healthy' + Turns(l)' <= healthy + Turns(l) + x
    <3> HIDE DEF last, x, y
    <3>1. CASE last
      BY <1>5, <1>10, <1>11, <3>1
    <3>2. CASE ~last
      BY <1>5, <1>10, <1>11, <3>2
    <3> QED
      BY <3>1, <3>2, Zenon
  <2>4. CASE blocked # {}
    BY <1>10, <1>11, <2>1, <2>2, <2>4
  <2>5. CASE blocked = {}
    BY <1>5, <2>1, <2>2, <2>3, <2>5
  <2> QED
    BY <2>4, <2>5, Zenon
<1>13. /\ Owed(l, p) => (B \in I /\ healthy <= HeartbeatTicks - 1) \/ Ticked(l) <= elapsed[l]
       /\ B \in J /\ (healthy' <= IF last THEN HeartbeatTicks ELSE HeartbeatTicks - 1)
             => Owed(l, p)'
       /\ Ticked(l)' <= elapsed'[l] => Owed(l, p)'
  BY <1>3, <1>8, <1>11, Zenon DEF Owed
<1>14. /\ Fresh(l, p) => \/ elapsed[p] + Turns(l) <= elapsed[l] + Turns(p)
                         \/ B \in I /\ elapsed[p] <= HeartbeatTicks - 1 + Turns(p)
       /\ elapsed'[p] + Turns(l)' <= elapsed'[l] + Turns(p)' => Fresh(l, p)'
       /\ B \in J /\ (elapsed'[p] <= IF last THEN HeartbeatTicks
                                     ELSE HeartbeatTicks - 1 + Turns(p)') => Fresh(l, p)'
  BY <1>3, <1>8, <1>11, Zenon DEF Fresh
<1>15. /\ term[p] < t => Owed(l, p)
       /\ leader[p] = l /\ term[p] = t => Owed(l, p) \/ Fresh(l, p)
  BY <1>7, Zenon DEF Beats
<1>16. beats => l = q /\ elapsed'[l] = 0 /\ B \in J
  BY Zenon
<1>17. l = q => x = 1
  BY Zenon
<1> HIDE DEF last, I, J, t, B, beats, x, y
<1>18. Owed(l, p) => Owed(l, p)'
  <2>1. CASE B \in I /\ healthy <= HeartbeatTicks - 1
    <3>1. B \in J
      BY <1>4, <2>1, Zenon
    <3>2. healthy' <= IF last THEN HeartbeatTicks ELSE HeartbeatTicks - 1
      BY <1>5, <1>11, <2>1
    <3> QED
      BY <1>13, <3>1, <3>2, Zenon
  <2>2. CASE Ticked(l) <= elapsed[l] /\ ~beats
    <3>1. /\ Ticked(l)' \in Nat /\ Ticked(l)' <= Ticked(l) + x /\ x \in {0, 1}
          /\ Ticked(l) <= elapsed[l] /\ elapsed'[l] = elapsed[l] + x
      BY <1>8, <1>10, <1>12, <2>2, Zenon
    <3>2. Ticked(l)' <= elapsed[l] + x
      BY <1>5, <3>1
    <3> QED
      BY <1>13, <3>1, <3>2, Zenon
  <2>3. CASE Ticked(l) <= elapsed[l] /\ beats
    <3>1. healthy <= HeartbeatTicks - 1
      BY <1>5, <1>8, <1>12, <1>16, <2>3
    <3>2. healthy' <= IF last THEN HeartbeatTicks ELSE HeartbeatTicks - 1
      BY <1>5, <1>11, <3>1
    <3> QED
      BY <1>13, <1>16, <2>3, <3>2, Zenon
  <2> QED
    BY <1>13, <2>1, <2>2, <2>3, Zenon
<1>19. leader'[p] = l /\ Fresh(l, p) => Fresh(l, p)'
  <2> SUFFICES ASSUME leader'[p] = l, Fresh(l, p) PROVE Fresh(l, p)'
    BY Zenon
  <2>1. elapsed'[p] = elapsed[p] + y
    BY <1>9, Zenon
  <2>2. CASE B \in I /\ elapsed[p] <= HeartbeatTicks - 1 + Turns(p)
    <3>1. B \in J
      BY <1>4, <2>2, Zenon
    <3>2. elapsed[p] <= HeartbeatTicks - 1 + Turns(p) /\ y \in {0, 1}
      BY <1>10, <2>2, Zenon
    <3>3. elapsed'[p] <= HeartbeatTicks - 1 + (Turns(p) + y)
      BY <1>5, <2>1, <3>2
    <3>4. elapsed'[p] <= IF last THEN HeartbeatTicks ELSE HeartbeatTicks - 1 + Turns(p)'
      <4>1. HeartbeatTicks - 1 + 1 = HeartbeatTicks
        BY <1>5
      <4> QED
        BY <1>10, <3>3, <4>1, Zenon
    <3> QED
      BY <1>14, <3>1, <3>4, Zenon
  <2>3. CASE elapsed[p] + Turns(l) <= elapsed[l] + Turns(p) /\ ~beats
    <3>1. elapsed'[p] + Turns(l)' <= elapsed'[l] + Turns(p)'
      <4>1. /\ elapsed[p] + Turns(l) <= elapsed[l] + Turns(p)
            /\ elapsed'[l] = elapsed[l] + x /\ x \in {0, 1} /\ y \in {0, 1}
        BY <1>8, <1>10, <2>3, Zenon
      <4>2. /\ (elapsed[p] + y) + (Turns(l) + x) <= (elapsed[l] + x) + (Turns(p) + y)
            /\ Turns(l) + x = 1 /\ Turns(p) + y = 1 =>
                  (elapsed[p] + y) + 0 <= (elapsed[l] + x) + 0
        BY <1>5, <4>1, TimersInStep, ZenonT(60)
      <4>3. CASE last
        <5>1. Turns(l)' = 0 /\ Turns(l) + x = 1 /\ Turns(p)' = 0 /\ Turns(p) + y = 1
          BY <1>10, <4>3, Zenon
        <5> QED
          BY <2>1, <4>1, <4>2, <5>1, Zenon
      <4>4. CASE ~last
        <5>1. Turns(l)' = Turns(l) + x /\ Turns(p)' = Turns(p) + y
          BY <1>10, <4>4, Zenon
        <5> QED
          BY <2>1, <4>1, <4>2, <5>1, Zenon
      <4> QED
        BY <4>3, <4>4, Zenon
    <3> QED
      BY <1>14, <3>1, Zenon
  <2>4. CASE elapsed[p] + Turns(l) <= elapsed[l] + Turns(p) /\ beats
    <3>1. elapsed'[p] <= IF last THEN HeartbeatTicks ELSE HeartbeatTicks - 1 + Turns(p)'
      BY <1>5, <1>8, <1>10, <1>16, <1>17, <2>1, <2>4, SMTT(30)
    <3> QED
      BY <1>14, <1>16, <2>4, <3>1, Zenon
  <2> QED
    BY <1>14, <2>2, <2>3, <2>4, Zenon
<1>20. leader'[p] = l /\ term'[p] = t => leader[p] = l /\ (term[p] = t \/ term[p] < t)
  BY <1>5, <1>6, <1>9
<1>21. term'[p] < t => term[p] < t
  BY <1>5, <1>6, <1>9
<1> QED
  BY <1>8, <1>15, <1>18, <1>19, <1>20, <1>21, Zenon

\* Beats is preserved.
LEMMA BeatsInd ==
    SimBase /\ NodesInv /\ Candidacies /\ Beats /\ [SimNext]_simVars => Beats'
<1> SUFFICES ASSUME SimBase, NodesInv, Candidacies, Beats, [SimNext]_simVars PROVE Beats'
  BY Zenon
<1>1. CASE UNCHANGED simVars
  <2>1. /\ UNCHANGED <<role, term, leader, elapsed, inbox, pending>>
        /\ UNCHANGED <<turn, blocked, healthy>>
    BY <1>1, Zenon DEF simVars
  <2>2. \A n \in Node : Turns(n)' = Turns(n)
    BY <2>1, Zenon DEF Turns, Done
  <2>3. \A n \in Node : Ticked(n)' = Ticked(n)
    BY <2>1, <2>2, Zenon DEF Ticked
  <2>4. \A l, p \in Node : Owed(l, p) => Owed(l, p)'
    BY <2>1, <2>3, Zenon DEF Owed
  <2>5. \A l, p \in Node : Fresh(l, p) => Fresh(l, p)'
    BY <2>1, <2>2, Zenon DEF Fresh
  <2> QED
    BY <2>1, <2>4, <2>5, Zenon DEF Beats, Peers
<1> QED
  BY <1>1, SimSteps, BeatsBegin, BeatsDrop, BeatsLinks, BeatsDeliver, BeatsTick, Zenon

LEMMA BeatsInvariance == SimSpec => [](SimBase /\ NodesInv /\ Beats)
<1>1. SimInit => Beats
  BY Zenon DEF SimInit, ElectionInit, Init, Beats
<1> QED
  BY <1>1, SimBaseInit, SimBaseInd, SimStepAllowed, NodesInvInit, NodesInvInd,
     CandidaciesInit, CandidaciesInd, BeatsInd, PTL DEF SimSpec

\* Between ticks, once the links have been whole for a heartbeat interval and a
\* delivery, no leader owes anyone its heartbeat, so nobody is behind a leader's term
\* and two leaders would have won the same one.
THEOREM DeposedLeadersStepDown == SimSpec => []SoleLeaderWhenHealed
<1>1. SimBase /\ NodesInv /\ Beats => SoleLeaderWhenHealed
  <2> SUFFICES ASSUME SimBase, NodesInv, Beats, turn = 0, healthy = SettleTicks
               PROVE  Cardinality(Leaders) <= 1
    BY Zenon DEF SoleLeaderWhenHealed
  <2>1. ASSUME NEW k \in Leaders, NEW l \in Leaders, k # l, term[k] < term[l] PROVE FALSE
    <3>1. /\ k \in Peers(l) /\ l \in Node /\ role[l] = "leader"
      BY <2>1, Zenon DEF Leaders, Peers
    <3>2. Owed(l, k)
      BY <2>1, <3>1, Zenon DEF Beats
    <3>3. /\ healthy = HeartbeatTicks + 1 /\ HeartbeatTicks \in Nat \ {0}
          /\ elapsed[l] \in Nat /\ elapsed[l] < HeartbeatTicks
          /\ blocked = {} /\ Turns(l) = 0
      BY <3>1, BeatType, NoneDone DEF SettleTicks, SimBase, NodesInv, CallInv
    <3>4. Ticked(l) = HeartbeatTicks + 1
      BY <3>3 DEF Ticked
    <3> QED
      BY <3>2, <3>3, <3>4 DEF Owed
  <2>2. ASSUME NEW k \in Leaders, NEW l \in Leaders PROVE k = l
    <3>1. /\ k \in Node /\ l \in Node /\ role[k] = "leader" /\ role[l] = "leader"
          /\ term[k] \in Nat /\ term[l] \in Nat
      BY BeatType, Zenon DEF Leaders
    <3>2. k # l => term[k] = term[l]
      BY <2>1, <3>1
    <3>3. <<term[k], k>> \in won /\ <<term[l], l>> \in won
      BY <3>1, MembersAssumption, Zenon DEF NodesInv, IInv, LeadersWon, LeaderBeliefSound
    <3> QED
      BY <3>1, <3>2, <3>3, OneWinner, Zenon DEF NodesInv
  <2>3. CASE Leaders = {}
    BY <2>3, FS_EmptySet
  <2>4. CASE Leaders # {}
    <3>1. PICK l \in Leaders : TRUE
      BY <2>4, Zenon
    <3>2. Leaders = {l}
      BY <2>2, <3>1, Zenon
    <3> QED
      BY <3>2, FS_Singleton
  <2> QED
    BY <2>3, <2>4, Zenon
<1> QED
  BY <1>1, BeatsInvariance, PTL

-----------------------------------------------------------------------------
(* A settled cluster on whole links                                        *)

\* A message delivered to a settled cluster is of the leader's term at most, and
\* its heartbeats of that term are the leader's.
LEMMA SettledDeliver ==
    ASSUME SimBase, NodesInv, NEW l \in Leaders,
           \A n \in Node : leader[n] = l /\ term[n] = term[l],
           NEW m \in msgs, Step(m)
    PROVE  \A n \in Node : leader'[n] = l /\ term'[n] = term[l] /\ role'[l] = "leader"
<1> DEFINE n == m.to
<1>1. /\ role \in [Node -> Role] /\ term \in [Node -> Nat]
      /\ leader \in [Node -> Node \cup {None}]
  BY Zenon DEF NodesInv, IInv, TypeOK
<1>2. /\ n \in Node /\ m.from \in Node /\ m.term \in Nat /\ l \in Node
      /\ role[l] = "leader" /\ l # None
  BY MembersAssumption, Zenon DEF NodesInv, IInv, TypeOK, Message, Leaders
<1>3. ~Newer(m)
  BY <1>1, <1>2 DEF NodesInv, CallInv, Newer
<1>4. ~Counts(m)
  BY <1>2, Zenon DEF NodesInv, IInv, LeadersWon, Counts
<1>5. CASE StepRequestVote(m)
  BY <1>1, <1>2, <1>3, <1>5, Zenon DEF StepRequestVote, Grants
<1>6. CASE StepHeartbeat(m)
  <2>1. /\ m.type = "Heartbeat" /\ m.term = term[l] /\ role[n] # "leader"
        /\ becomeFollower(n, m.term, m.from)
    BY <1>1, <1>2, <1>3, <1>6 DEF StepHeartbeat, Stale, Newer
  <2>2. <<term[l], m.from>> \in won /\ <<term[l], l>> \in won
    BY <1>2, <2>1, Zenon DEF NodesInv, IInv, LeadersWon, LeaderBeliefSound
  <2>3. m.from = l
    BY <1>1, <1>2, <2>2, OneWinner, Zenon DEF NodesInv
  <2> QED
    BY <1>1, <1>2, <2>1, <2>3, Zenon DEF becomeFollower
<1>7. CASE StepIgnored(m)
  BY <1>2, <1>7, Zenon DEF StepIgnored, nodeVars
<1> QED
  BY <1>3, <1>4, <1>5, <1>6, <1>7, Zenon DEF Step, StepNode, StepVote, StepNewerAnswer

\* With heartbeats due before the shortest election timeout, nobody times out.
LEMMA SettledTick ==
    ASSUME HeartbeatTicks < ElectionTimeoutMin,
           SimBase, NodesInv, Beats, healthy = SettleTicks, NEW l \in Leaders,
           \A n \in Node : leader[n] = l /\ term[n] = term[l],
           turn \in 1..Len(Order), pending = << >>,
           NEW q \in Node, Turns(q) = 0
    PROVE  ~TimesOut(q)
<1> SUFFICES ASSUME TimesOut(q) PROVE FALSE
  BY Zenon
<1>1. l \in Node /\ role[l] = "leader" /\ q \in Peers(l)
  BY Zenon DEF Leaders, TimesOut, Peers
<1>2. /\ healthy = HeartbeatTicks + 1 /\ HeartbeatTicks \in Nat \ {0}
      /\ elapsed[l] \in Nat /\ elapsed[l] < HeartbeatTicks /\ elapsed[q] \in Nat
      /\ blocked = {} /\ Turns(l) \in {0, 1}
  BY <1>1, BeatType DEF SettleTicks, SimBase, NodesInv, CallInv
<1>3. elapsed[q] >= HeartbeatTicks
  <2>1. electionTimeout[q] \in ElectionTimeoutMin..ElectionTimeoutMax
    BY Zenon DEF NodesInv, IInv, TypeOK
  <2> QED
    BY <1>2, <2>1, ConfigAssumption DEF TimesOut
<1>4. Owed(l, q) \/ Fresh(l, q)
  BY <1>1, Zenon DEF Beats
<1>5. InFlight(pending) = {} /\ turn # 0
  BY InFlightNone, OrderAssumption
<1>6. ~Owed(l, q)
  BY <1>2, <1>5 DEF Owed, Ticked
<1>7. ~Fresh(l, q)
  BY <1>2, <1>3, <1>5 DEF Fresh
<1> QED
  BY <1>4, <1>6, <1>7, Zenon

\* With a heartbeat interval below the shortest election timeout, a cluster that
\* follows one leader on whole links follows it until a link is cut: no call is
\* missing from the heartbeats that keep every timer from firing.
THEOREM SettledClustersStay ==
    ASSUME HeartbeatTicks < ElectionTimeoutMin
    PROVE  SimSpec => SettledStays
<1>1. SimBase /\ NodesInv /\ Beats /\ [SimNext]_simVars =>
        [Settled /\ healthy = SettleTicks /\ blocked' = {} => Settled']_simVars
  <2> SUFFICES ASSUME SimBase, NodesInv, Beats, SimNext, Settled, healthy = SettleTicks
               PROVE  Settled'
    BY Zenon
  <2>1. PICK l \in Leaders : \A n \in Node : leader[n] = l /\ term[n] = term[l]
    BY Zenon DEF Settled
  <2>2. l \in Node /\ role[l] = "leader"
    BY Zenon DEF Leaders
  <2> SUFFICES \A n \in Node : leader'[n] = l /\ term'[n] = term[l] /\ role'[l] = "leader"
    BY <2>2, Zenon DEF Settled, Leaders
  <2>3. CASE BeginTick \/ LinksChange
    BY <2>1, <2>2, <2>3, Zenon DEF BeginTick, LinksChange, vars
  <2>4. CASE Drop
    BY <2>4, Drops, ConfigAssumption DEF SettleTicks
  <2>5. CASE Deliver
    BY <2>1, <2>5, Delivers, SettledDeliver, Zenon
  <2>6. CASE TickInTurn
    <3>1. PICK q \in Node :
                 /\ turn \in 1..Len(Order) /\ q = Order[turn] /\ Tick(q) /\ pending = << >>
                 /\ turn' = IF turn = Len(Order) THEN 0 ELSE turn + 1
      BY <2>6, TicksInTurn, Zenon
    <3>2. Turns(q) = 0
      BY <3>1, TurnTaken, Zenon
    <3>3. ~TimesOut(q)
      BY <2>1, <3>1, <3>2, SettledTick, Zenon
    <3>4. TickEffect(q)
      BY <3>1, TickDoes, Zenon DEF NodesInv
    <3>5. \A n \in Node : UNCHANGED <<role[n], term[n], leader[n]>>
      BY <3>3, <3>4, Zenon DEF TickEffect
    <3> QED
      BY <2>1, <2>2, <3>5, Zenon
  <2> QED
    BY <2>3, <2>4, <2>5, <2>6, SimSteps, Zenon
<1> QED
  BY <1>1, BeatsInvariance, PTL DEF SimSpec, SettledStays
=============================================================================
