--------------------------- MODULE TopologyFaults ---------------------------
(***************************************************************************)
(* InMemoryClusterView and the four topology faults that change it or act  *)
(* on the nodes it lists (internal/faults/topology.go).  The view is       *)
(* shared; each fault object has one goroutine that calls its Inject and   *)
(* Revert one after the other, in any order and any number of times, since *)
(* the objects themselves are not synchronised (quorum loss excepted).     *)
(* One step is one locked section of the view or one driver command.       *)
(***************************************************************************)
EXTENDS Integers, Sequences, Functions, FiniteSets

CONSTANTS
    Nodes,        \* the view's nodes, a sequence
    Partitions,   \* PartitionFault objects
    Groups,       \* partition -> group name -> its nodes, a sequence
    SplitBrains,  \* SplitBrainFault objects
    Leaders,      \* split brain -> its nodes, a sequence
    QuorumLosses, \* QuorumLossFault objects
    VoterNodes,   \* the voters of every quorum loss, a sequence
    NodesToBlock, \* and how many of them each blocks
    Storms        \* LeaderElectionStormFault objects

Node == Range(Nodes)
Fault == Partitions \cup SplitBrains \cup QuorumLosses \cup Storms
Default == [n \in Node |-> "default"]
NoSnapshot == <<>>   \* preSnapshot is nil

\* No object is of two kinds.
ASSUME FaultsAssumption ==
    /\ (Partitions \cup QuorumLosses \cup Storms) \cap SplitBrains = {}
    /\ (Partitions \cup Storms) \cap QuorumLosses = {} /\ Partitions \cap Storms = {}
ASSUME NodesAssumption == IsInjective(Nodes) /\ IsInjective(VoterNodes)
ASSUME ListsAssumption ==
    /\ Nodes \in Seq(Node)
    /\ VoterNodes \in Seq(Node)
    /\ \A s \in SplitBrains : Leaders[s] \in Seq(Node)
ASSUME VotersAssumption == Range(VoterNodes) \subseteq Node /\ NodesToBlock \in Nat
ASSUME GroupsAssumption ==
    \A p \in Partitions : \A g, h \in DOMAIN Groups[p] :
        /\ IsInjective(Groups[p][g])
        /\ Range(Groups[p][g]) \subseteq Node
        /\ g # h => Range(Groups[p][g]) \cap Range(Groups[p][h]) = {}

VARIABLES
    groups,       \* InMemoryClusterView: node -> group
    realLeaders,  \* nodes whose real role is "leader"
    overrides,    \* nodes overridden to "leader", the one role overrides give
    preSnapshot,  \* partition -> the groups it found
    previous,     \* split brain -> its nodes that reported "leader" before
    blockedSet,   \* QuorumLossFault
    isolated,     \* nodes disconnected from the cluster's network
    loops,        \* the storms' goroutines, in the order they were started
    cancel,       \* storm -> the loop its cancel stops, 0 for nil
    down,         \* nodes killed by a storm
    call,         \* fault -> its call in progress and the nodes still to do
    \* History, read by the properties and by nothing in the code:
    stack,        \* partitions in force, when they have been nested so far
    nested,       \* calls of partitions have not overlapped, nor reverts crossed
    active        \* faults injected and not reverted since

view == <<groups, realLeaders, overrides>>
quorum == <<blockedSet, isolated>>
storm == <<loops, cancel, down>>
vars == <<view, preSnapshot, previous, quorum, storm, call, stack, nested, active>>

Idle == [op |-> "idle", todo |-> <<>>]
Calling(op, todo) == IF todo = <<>> THEN Idle ELSE [op |-> op, todo |-> todo]

Init ==
    /\ groups = Default
    /\ realLeaders = {} /\ overrides = {}
    /\ preSnapshot = [p \in Partitions |-> NoSnapshot]
    /\ previous = [s \in SplitBrains |-> {}]
    /\ blockedSet = [q \in QuorumLosses |-> {}]
    /\ isolated = {}
    /\ loops = <<>>
    /\ cancel = [f \in Storms |-> 0]
    /\ down = {}
    /\ call = [f \in Fault |-> Idle]
    /\ stack = <<>> /\ nested = TRUE
    /\ active = {}

RoleIsLeader(n) == n \in overrides \cup realLeaders

\* A health probe, or whoever knows, tells the view a node's role.
SetRealRole(n) ==
    /\ \E leads \in BOOLEAN :
          realLeaders' = IF leads THEN realLeaders \cup {n} ELSE realLeaders \ {n}
    /\ UNCHANGED <<groups, overrides, preSnapshot, previous, quorum, storm, call,
                   stack, nested, active>>

-----------------------------------------------------------------------------
(* PartitionFault                                                          *)

GroupIn(p, n) == CHOOSE g \in DOMAIN Groups[p] : n \in Range(Groups[p][g])

Members(p) == UNION {Range(Groups[p][g]) : g \in DOMAIN Groups[p]}

Orders(S) == Bijection(1..Cardinality(S), S)

\* The orders in which a range over the map visits the nodes: group after group.
Visits(p) ==
    {o \in Orders(Members(p)) : \A g \in DOMAIN Groups[p] :
        LET k == Len(Groups[p][g])
        IN  \E i \in 0..(Len(o) - k) : SubSeq(o, i + 1, i + k) = Groups[p][g]}

PartitionsIdle == \A p \in Partitions : call[p].op = "idle"

PartitionInject(p) ==
    /\ call[p].op = "idle"
    /\ preSnapshot' = [preSnapshot EXCEPT ![p] = groups]
    /\ \E todo \in Visits(p) : call' = [call EXCEPT ![p] = Calling("inject", todo)]
    /\ nested' = (nested /\ PartitionsIdle /\ p \notin Range(stack))
    /\ stack' = IF nested' THEN Append(stack, p) ELSE <<>>
    /\ active' = active \cup {p}
    /\ UNCHANGED <<view, previous, quorum, storm>>

SetGroup(p) ==
    LET n == Head(call[p].todo) IN
    /\ call[p].op = "inject"
    /\ groups' = [groups EXCEPT ![n] = GroupIn(p, n)]
    /\ call' = [call EXCEPT ![p] = Calling("inject", Tail(call[p].todo))]
    /\ UNCHANGED <<realLeaders, overrides, preSnapshot, previous, quorum, storm,
                   stack, nested, active>>

\* Mutant: Revert sends the fault's own nodes back to the default group.
restoreDefault(p) ==
    [n \in Node |-> IF n \in Members(p) THEN "default" ELSE groups[n]]

\* restoreGroups: the whole layout goes back, and the snapshot is kept.
restoreGroups(p) == IF preSnapshot[p] = NoSnapshot THEN groups ELSE preSnapshot[p]

PartitionRevert(p) ==
    /\ call[p].op = "idle"
    /\ groups' = restoreGroups(p)
    /\ nested' = (nested /\ \/ preSnapshot[p] = NoSnapshot
                            \/ PartitionsIdle /\ stack # <<>> /\ stack[Len(stack)] = p)
    /\ stack' = IF nested' /\ preSnapshot[p] # NoSnapshot THEN SubSeq(stack, 1, Len(stack) - 1)
                ELSE IF nested' THEN stack ELSE <<>>
    /\ active' = active \ {p}
    /\ UNCHANGED <<realLeaders, overrides, preSnapshot, previous, quorum, storm, call>>

-----------------------------------------------------------------------------
(* SplitBrainFault                                                         *)

SplitBrainInject(s) ==
    /\ call[s].op = "idle"
    /\ previous' = [previous EXCEPT ![s] = {}]
    /\ call' = [call EXCEPT ![s] = Calling("role", Leaders[s])]
    /\ active' = active \cup {s}
    /\ UNCHANGED <<view, preSnapshot, quorum, storm, stack, nested>>

SavePrevious(s) ==
    LET n == Head(call[s].todo) IN
    /\ call[s].op = "role"
    /\ previous' = [previous EXCEPT ![s] = IF RoleIsLeader(n) THEN @ \cup {n} ELSE @ \ {n}]
    /\ call' = [call EXCEPT ![s].op = "override"]
    /\ UNCHANGED <<view, preSnapshot, quorum, storm, stack, nested, active>>

SetRoleOverride(s) ==
    /\ call[s].op = "override"
    /\ overrides' = overrides \cup {Head(call[s].todo)}
    /\ call' = [call EXCEPT ![s] = Calling("role", Tail(call[s].todo))]
    /\ UNCHANGED <<groups, realLeaders, preSnapshot, previous, quorum, storm,
                   stack, nested, active>>

SplitBrainRevert(s) ==
    /\ call[s].op = "idle"
    /\ call' = [call EXCEPT ![s] = Calling("clear", Leaders[s])]
    /\ active' = IF Leaders[s] = <<>> THEN active \ {s} ELSE active
    /\ UNCHANGED <<view, preSnapshot, previous, quorum, storm, stack, nested>>

\* Mutant: the role saved by Inject is put back.
ClearToPrevious(s) ==
    LET n == Head(call[s].todo) IN
    /\ call[s].op = "clear"
    /\ overrides' = IF n \in previous[s] THEN overrides ELSE overrides \ {n}
    /\ call' = [call EXCEPT ![s] = Calling("clear", Tail(call[s].todo))]
    /\ active' = IF Len(call[s].todo) = 1 THEN active \ {s} ELSE active
    /\ UNCHANGED <<groups, realLeaders, preSnapshot, previous, quorum, storm, stack, nested>>

\* The saved role is not used.
ClearRoleOverride(s) ==
    /\ call[s].op = "clear"
    /\ overrides' = overrides \ {Head(call[s].todo)}
    /\ call' = [call EXCEPT ![s] = Calling("clear", Tail(call[s].todo))]
    /\ active' = IF Len(call[s].todo) = 1 THEN active \ {s} ELSE active
    /\ UNCHANGED <<groups, realLeaders, preSnapshot, previous, quorum, storm, stack, nested>>

-----------------------------------------------------------------------------
(* QuorumLossFault: its mutex is held through Inject and through Revert    *)

Enough(q) == Cardinality(blockedSet'[q]) >= NodesToBlock

\* The next voter, or Inject returns nil.
NextVoter(q, rest) ==
    LET next == IF Enough(q) THEN Idle ELSE Calling("isolate", rest) IN
    /\ call' = [call EXCEPT ![q] = next]
    /\ active' = IF next = Idle THEN active \cup {q} ELSE active \ {q}

QuorumInject(q) ==
    /\ call[q].op = "idle"
    /\ blockedSet' = [blockedSet EXCEPT ![q] = {}]
    /\ NextVoter(q, VoterNodes)
    /\ UNCHANGED <<view, preSnapshot, previous, isolated, storm, stack, nested>>

\* docker refuses to disconnect a container that is not connected.
Disconnectable(n) == n \notin isolated

\* Mutant: a voter that cannot be isolated is skipped, and counted.
IsolateSkipping(q) ==
    /\ call[q].op = "isolate"
    /\ blockedSet' = [blockedSet EXCEPT ![q] = @ \cup {Head(call[q].todo)}]
    /\ NextVoter(q, Tail(call[q].todo))
    /\ UNCHANGED <<view, preSnapshot, previous, isolated, storm, stack, nested>>

Isolate(q) ==
    LET v == Head(call[q].todo) IN
    /\ call[q].op = "isolate"
    /\ Disconnectable(v)
    /\ isolated' = isolated \cup {v}
    /\ blockedSet' = [blockedSet EXCEPT ![q] = @ \cup {v}]
    /\ NextVoter(q, Tail(call[q].todo))
    /\ UNCHANGED <<view, preSnapshot, previous, storm, stack, nested>>

\* No driver, one that cannot isolate, or a failed command, which may have done
\* its work all the same: Inject returns the error.
IsolateFails(q) ==
    /\ call[q].op = "isolate"
    /\ isolated' \in {isolated, isolated \cup {Head(call[q].todo)}}
    /\ call' = [call EXCEPT ![q] = Idle]
    /\ UNCHANGED <<view, preSnapshot, previous, blockedSet, storm, stack, nested, active>>

QuorumRevert(q) ==
    /\ call[q].op = "idle"
    /\ \E todo \in Orders(blockedSet[q]) :
          call' = [call EXCEPT ![q] = Calling("reconnect", todo)]
    /\ active' = active \ {q}
    /\ UNCHANGED <<view, preSnapshot, previous, quorum, storm, stack, nested>>

\* Best effort; after the last voter the set is emptied.
Reconnect(q) ==
    LET v == Head(call[q].todo) IN
    /\ call[q].op = "reconnect"
    /\ isolated' \in {isolated, isolated \ {v}}
    /\ call' = [call EXCEPT ![q] = Calling("reconnect", Tail(call[q].todo))]
    /\ blockedSet' = IF Len(call[q].todo) = 1 THEN [blockedSet EXCEPT ![q] = {}] ELSE blockedSet
    /\ UNCHANGED <<view, preSnapshot, previous, storm, stack, nested, active>>

-----------------------------------------------------------------------------
(* LeaderElectionStormFault, with the default probe                        *)

InLoop(i, op) == i \in DOMAIN loops /\ loops[i].op = op

StormInject(f) ==
    /\ loops' = Append(loops, [fault |-> f, op |-> "select", over |-> FALSE, at |-> 1])
    /\ cancel' = [cancel EXCEPT ![f] = Len(loops')]
    /\ active' = active \cup {f}
    /\ UNCHANGED <<view, preSnapshot, previous, quorum, down, call, stack, nested>>

\* Mutant: Revert drops the cancel function and does not call it.
StormRevertForgetting(f) ==
    /\ cancel' = [cancel EXCEPT ![f] = 0]
    /\ active' = active \ {f}
    /\ UNCHANGED <<view, preSnapshot, previous, quorum, loops, down, call, stack, nested>>

\* Cancelling is asynchronous: the loop is not waited for.
StormRevert(f) ==
    /\ loops' = IF cancel[f] = 0 THEN loops ELSE [loops EXCEPT ![cancel[f]].over = TRUE]
    /\ active' = active \ {f}
    /\ UNCHANGED <<view, preSnapshot, previous, quorum, cancel, down, call, stack, nested>>

\* What a step of loop i leaves alone.
LoopOnly == UNCHANGED <<view, preSnapshot, previous, quorum, cancel, call, stack, nested, active>>

\* Mutant: the loop's context has no deadline.
DeadlineNever(i) == FALSE

\* Duration passes.
Deadline(i) ==
    /\ i \in DOMAIN loops /\ ~loops[i].over
    /\ loops' = [loops EXCEPT ![i].over = TRUE]
    /\ UNCHANGED down /\ LoopOnly

LoopReturns(i) ==
    /\ InLoop(i, "select") /\ loops[i].over
    /\ loops' = [loops EXCEPT ![i].op = "returned"]
    /\ UNCHANGED down /\ LoopOnly

\* With both ready, select may still take the ticker.
LoopTicks(i) ==
    /\ InLoop(i, "select")
    /\ loops' = [loops EXCEPT ![i].op = "probe", ![i].at = 1]
    /\ UNCHANGED down /\ LoopOnly

\* defaultProbe reads one role after the other; the first "leader" is the target.
Probe(i) ==
    LET l == loops[i] IN
    /\ InLoop(i, "probe")
    /\ loops' = [loops EXCEPT ![i] =
                   IF l.at > Len(Nodes) THEN [l EXCEPT !.op = "select"]
                   ELSE IF RoleIsLeader(Nodes[l.at]) THEN [l EXCEPT !.op = "signal"]
                   ELSE [l EXCEPT !.at = @ + 1]]
    /\ UNCHANGED down /\ LoopOnly

\* A command is not started under a context that is over; one that is may fail.
Signal(i) ==
    /\ InLoop(i, "signal")
    /\ down' \in {down, IF loops[i].over THEN down ELSE down \cup {Nodes[loops[i].at]}}
    /\ loops' = [loops EXCEPT ![i].op = "select"]
    /\ LoopOnly

-----------------------------------------------------------------------------
PartitionCall == \E p \in Partitions : PartitionInject(p) \/ PartitionRevert(p)
SplitBrainCall == \E s \in SplitBrains : SplitBrainInject(s) \/ SplitBrainRevert(s)
QuorumCall == \E q \in QuorumLosses : QuorumInject(q) \/ QuorumRevert(q)
StormCall == \E f \in Storms : StormInject(f) \/ StormRevert(f)
RoleCall == \E n \in Node : SetRealRole(n)

Work ==
    \/ \E p \in Partitions : SetGroup(p)
    \/ \E s \in SplitBrains : SavePrevious(s) \/ SetRoleOverride(s) \/ ClearRoleOverride(s)
    \/ \E q \in QuorumLosses : Isolate(q) \/ IsolateFails(q) \/ Reconnect(q)
    \/ \E i \in DOMAIN loops : Deadline(i) \/ LoopReturns(i) \/ LoopTicks(i) \/ Probe(i) \/ Signal(i)

Next == PartitionCall \/ SplitBrainCall \/ QuorumCall \/ StormCall \/ RoleCall \/ Work

Spec == Init /\ [][Next]_vars

-----------------------------------------------------------------------------
(* Properties                                                              *)

\* Of the first k partitions of the stack, those that have node n among their members.
Claiming(k, n) == {i \in 1..k : n \in Members(stack[i])}
LastLayer(I) == CHOOSE i \in I : \A j \in I : j <= i

\* The group that they give to node n: that of the last one.
Layered(k, n) ==
    IF Claiming(k, n) = {} THEN "default" ELSE GroupIn(stack[LastLayer(Claiming(k, n))], n)

\* Partitions that nest (the last one injected is the first one reverted, and no
\* two calls overlap) compose: whatever was injected and reverted on the way, the
\* layout is that of the partitions in force, the later over the earlier.
PartitionsCompose ==
    nested /\ PartitionsIdle => \A n \in Node : groups[n] = Layered(Len(stack), n)

\* A role override never outlives the split brain that made it, however the
\* calls of overlapping split brains interleave and whatever the roles were.
OverridesClaimed == overrides \subseteq UNION {Range(Leaders[s]) : s \in SplitBrains \cap active}

\* After an Inject of quorum loss that returned nil, and until its Revert, as many
\* voters as asked for are off the network, and the fault lists exactly its own:
\* another fault's Revert cannot bring them back.
QuorumLost ==
    /\ \A q \in QuorumLosses \cap active :
          /\ blockedSet[q] \subseteq isolated
          /\ Cardinality(blockedSet[q]) =
                IF NodesToBlock < Len(VoterNodes) THEN NodesToBlock ELSE Len(VoterNodes)
    /\ \A q, r \in QuorumLosses \cap active : q # r => blockedSet[q] \cap blockedSet[r] = {}

\* A later Inject of the same fault has overwritten the cancel function of loop i.
Superseded(i) == \E j \in DOMAIN loops : j > i /\ loops[j].fault = loops[i].fault

KillsInForce ==
    \A i \in DOMAIN loops :
       InLoop(i, "signal") /\ loops'[i].op = "select" /\ down' # down =>
          loops[i].fault \in active \/ Superseded(i)

\* A storm kills nobody once its Revert has returned, although Revert does not
\* wait for the loop.  The exception is a loop that is Superseded.
NoKillAfterRevert == [][KillsInForce]_vars
=============================================================================
