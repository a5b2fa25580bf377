------------------------ MODULE ClusterFaultsProofs -------------------------
(***************************************************************************)
(* Topology faults, for any nodes and any number of faults of each kind:   *)
(* overrides do not outlive their split brain (OverridesClaimed), a storm  *)
(* kills nobody after its Revert (NoKillAfterRevert), a quorum that is     *)
(* lost stays lost until its own fault's Revert (QuorumLost), and          *)
(* partitions that nest compose (PartitionsCompose).                       *)
(* Node faults, for any target, faults and interleaving of heals, crash    *)
(* loop and failing commands: what is wrong with the node is owed to a     *)
(* fault still to be reverted, or has been given up on (EffectsOwned).     *)
(***************************************************************************)
EXTENDS TopologyFaults, NodeFaults, FiniteSetTheorems, TLAPS

LEMMA EmptyLen ==
    ASSUME NEW S, NEW s \in Seq(S)
    PROVE  s = <<>> <=> Len(s) = 0
OBVIOUS

LEMMA RangeTail ==
    ASSUME NEW S, NEW s \in Seq(S), s # <<>>
    PROVE  /\ Tail(s) \in Seq(S) /\ Head(s) \in S /\ Head(s) \in Range(s)
           /\ Range(s) \subseteq {Head(s)} \cup Range(Tail(s))
           /\ Range(Tail(s)) \subseteq Range(s)
           /\ Tail(s) = <<>> <=> Len(s) = 1
<1>1. Len(s) \in Nat /\ Len(s) > 0 /\ DOMAIN s = 1..Len(s)
  OBVIOUS
<1>2. Tail(s) \in Seq(S) /\ DOMAIN Tail(s) = 1..(Len(s) - 1) /\ Head(s) = s[1]
  BY <1>1
<1>3. \A i \in 1..(Len(s) - 1) : Tail(s)[i] = s[i + 1]
  BY <1>1
<1>4. ASSUME NEW i \in 1..Len(s), i # 1 PROVE s[i] \in Range(Tail(s))
  <2>1. i - 1 \in 1..(Len(s) - 1) /\ s[i] = Tail(s)[i - 1]
    BY <1>1, <1>3, <1>4
  <2> QED BY <2>1, <1>2, Zenon DEF Range
<1>5. Range(s) \subseteq {Head(s)} \cup Range(Tail(s))
  BY <1>1, <1>2, <1>4, Zenon DEF Range
<1>6. ASSUME NEW i \in 1..(Len(s) - 1) PROVE Tail(s)[i] \in Range(s)
  BY <1>1, <1>3, <1>6 DEF Range
<1>7. Head(s) \in Range(s)
  BY <1>1, <1>2 DEF Range
<1>8. Tail(s) = <<>> <=> Len(s) = 1
  <2> DEFINE u == Tail(s)
  <2>1. Len(u) = Len(s) - 1 /\ u \in Seq(S)
    BY <1>1
  <2> HIDE DEF u
  <2>2. u = <<>> <=> Len(u) = 0
    BY <2>1, EmptyLen, Zenon
  <2>3. Len(u) = 0 <=> Len(s) = 1
    BY <1>1, <2>1
  <2> QED BY <2>2, <2>3, Zenon DEF u
<1>9. Range(Tail(s)) \subseteq Range(s)
  BY <1>2, <1>6, Zenon DEF Range
<1>10. Head(s) \in S
  BY <1>1, <1>2
<1> QED BY <1>2, <1>5, <1>7, <1>8, <1>9, <1>10, Zenon

LEMMA RangeEmpty == Range(<<>>) = {}
BY DEF Range

-----------------------------------------------------------------------------
(* Calls                                                                   *)

CallSet == [op : {"idle", "role", "override", "clear", "isolate", "reconnect"}, todo : Seq(Node)]

\* Only a fault's own steps change its call.
LEMMA OtherCalls ==
    ASSUME DOMAIN call = Fault, NEW f \in Fault, NEW x, call' = [call EXCEPT ![f] = x]
    PROVE  DOMAIN call' = Fault /\ call'[f] = x /\ \A g \in Fault \ {f} : call'[g] = call[g]
BY Zenon

LEMMA CallingCall ==
    ASSUME NEW op \in {"role", "clear", "isolate", "reconnect"}, NEW todo \in Seq(Node)
    PROVE  /\ Calling(op, todo) \in CallSet
           /\ todo # <<>> => Calling(op, todo).op = op /\ Calling(op, todo).todo = todo
           /\ todo = <<>> => Calling(op, todo) = Idle
           /\ Idle \in CallSet /\ Idle.op = "idle"
<1>1. Idle \in CallSet /\ Idle.op = "idle"
  BY DEF Idle, CallSet
<1>2. [op |-> op, todo |-> todo] \in CallSet
  BY Zenon DEF CallSet
<1> QED BY <1>1, <1>2, Zenon DEF Calling

-----------------------------------------------------------------------------
(* Split brains                                                            *)

\* A split brain that is clearing its nodes claims only those still to be cleared.
Claims(s, n) ==
    n \in Range(Leaders[s]) /\ (call[s].op = "clear" => n \in Range(call[s].todo))

SplitInv ==
    /\ DOMAIN call = Fault
    /\ \A s \in SplitBrains :
          /\ call[s] \in CallSet
          /\ call[s].op \in {"role", "override"} =>
                s \in active /\ call[s].todo # <<>> /\ Range(call[s].todo) \subseteq Range(Leaders[s])
          /\ call[s].op = "clear" => call[s].todo # <<>>
    /\ \A n \in overrides : \E s \in SplitBrains \cap active : Claims(s, n)

\* What the steps of other faults do to split brains.
SplitFrame ==
    /\ overrides' = overrides /\ DOMAIN call' = Fault
    /\ \A s \in SplitBrains : call'[s] = call[s] /\ (s \in active <=> s \in active')

LEMMA SplitFrameStep == SplitInv /\ SplitFrame => SplitInv'
BY Zenon DEF SplitInv, SplitFrame, Claims

\* A step of split brain s that leaves the others' calls and claims alone.
LEMMA SplitOwnStep ==
    ASSUME SplitInv, NEW s \in SplitBrains, NEW x \in CallSet, call' = [call EXCEPT ![s] = x],
           \A r \in SplitBrains \ {s} : r \in active <=> r \in active',
           x.op \in {"role", "override"} =>
              s \in active' /\ x.todo # <<>> /\ Range(x.todo) \subseteq Range(Leaders[s]),
           x.op = "clear" => x.todo # <<>>,
           \A n \in overrides' :
              \/ n \in overrides /\ ~(s \in active /\ Claims(s, n))
              \/ s \in active' /\ n \in Range(Leaders[s]) /\ (x.op = "clear" => n \in Range(x.todo))
    PROVE  SplitInv'
<1>1. /\ DOMAIN call' = Fault /\ call'[s] = x
      /\ \A r \in SplitBrains \ {s} : call'[r] = call[r]
  BY OtherCalls, Zenon DEF SplitInv, Fault
<1>2. ASSUME NEW n \in overrides' PROVE \E r \in SplitBrains \cap active' : Claims(r, n)'
  <2>1. CASE n \in overrides /\ ~(s \in active /\ Claims(s, n))
    <3>1. PICK r \in SplitBrains \cap active : Claims(r, n)
      BY <2>1, Zenon DEF SplitInv
    <3>2. r # s
      BY <2>1, <3>1, Zenon
    <3> QED BY <1>1, <3>1, <3>2, Zenon DEF Claims
  <2>2. CASE s \in active' /\ n \in Range(Leaders[s]) /\ (x.op = "clear" => n \in Range(x.todo))
    BY <2>2, <1>1, Zenon DEF Claims
  <2> QED BY <1>2, <2>1, <2>2, Zenon
<1> QED BY <1>1, <1>2, Zenon DEF SplitInv

LEMMA SplitStep ==
    ASSUME SplitInv, [Next]_vars
    PROVE  SplitInv'
<1> USE FaultsAssumption
<1>0. DOMAIN call = Fault
  BY Zenon DEF SplitInv
<1>1. ASSUME NEW f \in Fault \ SplitBrains, overrides' = overrides,
             \E x : call' = [call EXCEPT ![f] = x],
             active' \in {active, active \cup {f}, active \ {f}}
      PROVE  SplitInv'
  BY <1>0, <1>1, OtherCalls, SplitFrameStep DEF SplitFrame
<1>2. ASSUME UNCHANGED <<overrides, call>>,
             \A s \in SplitBrains : s \in active <=> s \in active'
      PROVE  SplitInv'
  BY <1>0, <1>2, SplitFrameStep, Zenon DEF SplitFrame
<1>3. ASSUME NEW p \in Partitions, PartitionInject(p) \/ PartitionRevert(p) \/ SetGroup(p)
      PROVE  SplitInv'
  <2>1. CASE PartitionInject(p)
    <3>1. overrides' = overrides /\ active' = active \cup {p} /\ \E x : call' = [call EXCEPT ![p] = x]
      BY <2>1, Zenon DEF PartitionInject, view
    <3> QED BY <3>1, <1>1, Zenon DEF Fault
  <2>2. CASE PartitionRevert(p)
    BY <2>2, <1>2, Zenon DEF PartitionRevert
  <2>3. CASE SetGroup(p)
    <3>1. overrides' = overrides /\ active' = active /\ \E x : call' = [call EXCEPT ![p] = x]
      BY <2>3, Zenon DEF SetGroup
    <3> QED BY <3>1, <1>1, Zenon DEF Fault
  <2> QED BY <1>3, <2>1, <2>2, <2>3, Zenon
<1>4. ASSUME NEW q \in QuorumLosses,
             QuorumInject(q) \/ Isolate(q) \/ IsolateFails(q) \/ QuorumRevert(q) \/ Reconnect(q)
      PROVE  SplitInv'
  <2>1. /\ overrides' = overrides /\ active' \in {active, active \cup {q}, active \ {q}}
        /\ \E x : call' = [call EXCEPT ![q] = x]
    BY <1>4, Zenon DEF QuorumInject, Isolate, IsolateFails, QuorumRevert, Reconnect, NextVoter, view
  <2> QED BY <2>1, <1>1, Zenon DEF Fault
<1>5. ASSUME NEW s \in SplitBrains, SplitBrainInject(s) PROVE SplitInv'
  <2> DEFINE x == Calling("role", Leaders[s])
  <2>1. Leaders[s] \in Seq(Node)
    BY ListsAssumption, Zenon
  <2>2. /\ x \in CallSet /\ x.op # "clear" /\ x.op # "override"
        /\ x.op = "role" => x.todo = Leaders[s] /\ x.todo # <<>>
    BY <2>1, CallingCall
  <2>3. call' = [call EXCEPT ![s] = x] /\ active' = active \cup {s} /\ overrides' = overrides
        /\ call[s].op = "idle"
    BY <1>5, Zenon DEF SplitBrainInject, view
  <2> HIDE DEF x
  <2> QED BY <2>2, <2>3, SplitOwnStep, Zenon DEF Claims
<1>6. ASSUME NEW s \in SplitBrains, SavePrevious(s) PROVE SplitInv'
  <2>1. call[s] \in CallSet /\ call[s].op = "role" /\ s \in active /\ call[s].todo # <<>>
        /\ Range(call[s].todo) \subseteq Range(Leaders[s])
    BY <1>6, Zenon DEF SavePrevious, SplitInv
  <2> DEFINE x == [call[s] EXCEPT !.op = "override"]
  <2>2. x \in CallSet /\ x.op = "override" /\ x.todo = call[s].todo
    BY <2>1, Zenon DEF CallSet
  <2>3. call' = [call EXCEPT ![s] = x] /\ active' = active /\ overrides' = overrides
    BY <1>6, Zenon DEF SavePrevious, view
  <2> HIDE DEF x
  <2> QED BY <2>1, <2>2, <2>3, SplitOwnStep, Zenon DEF Claims
<1>7. ASSUME NEW s \in SplitBrains, SetRoleOverride(s) PROVE SplitInv'
  <2>1. call[s] \in CallSet /\ call[s].op = "override" /\ s \in active /\ call[s].todo # <<>>
        /\ Range(call[s].todo) \subseteq Range(Leaders[s])
    BY <1>7, Zenon DEF SetRoleOverride, SplitInv
  <2> DEFINE t == call[s].todo  u == Tail(t)  x == Calling("role", u)
  <2>2. t \in Seq(Node) /\ t # <<>> /\ Range(t) \subseteq Range(Leaders[s])
    BY <2>1, Zenon DEF CallSet
  <2>3. u \in Seq(Node) /\ Head(t) \in Range(Leaders[s]) /\ Range(u) \subseteq Range(Leaders[s])
    <3> HIDE DEF t
    <3> QED BY <2>2, RangeTail, Zenon
  <2>4. /\ x \in CallSet /\ x.op # "clear" /\ x.op # "override"
        /\ x.op = "role" => x.todo = u /\ x.todo # <<>>
    <3> HIDE DEF u
    <3> QED BY <2>3, CallingCall
  <2>5. call' = [call EXCEPT ![s] = x] /\ active' = active /\ overrides' = overrides \cup {Head(t)}
    BY <1>7, Zenon DEF SetRoleOverride
  <2> HIDE DEF x, u, t
  <2>6. \A n \in overrides' : n \in overrides \/ n \in Range(Leaders[s])
    BY <2>3, <2>5, Zenon
  <2> QED BY <2>1, <2>3, <2>4, <2>5, <2>6, SplitOwnStep, Zenon DEF Claims
<1>8. ASSUME NEW s \in SplitBrains, SplitBrainRevert(s) PROVE SplitInv'
  <2> DEFINE x == Calling("clear", Leaders[s])
  <2>1. Leaders[s] \in Seq(Node)
    BY ListsAssumption, Zenon
  <2>2. /\ x \in CallSet /\ x.op \notin {"role", "override"}
        /\ x.op = "clear" => x.todo = Leaders[s] /\ x.todo # <<>>
    BY <2>1, CallingCall
  <2>3. /\ call' = [call EXCEPT ![s] = x] /\ overrides' = overrides
        /\ active' = IF Leaders[s] = <<>> THEN active \ {s} ELSE active
    BY <1>8, Zenon DEF SplitBrainRevert, view
  <2> HIDE DEF x
  <2>4. CASE Leaders[s] = <<>>
    BY <2>2, <2>3, <2>4, RangeEmpty, SplitOwnStep, Zenon DEF Claims
  <2>5. CASE Leaders[s] # <<>>
    BY <2>2, <2>3, <2>5, SplitOwnStep, Zenon DEF Claims
  <2> QED BY <2>4, <2>5, Zenon
<1>9. ASSUME NEW s \in SplitBrains, ClearRoleOverride(s) PROVE SplitInv'
  <2> DEFINE t == call[s].todo  u == Tail(t)  x == Calling("clear", u)
  <2>1. t \in Seq(Node) /\ t # <<>> /\ call[s].op = "clear"
    BY <1>9, Zenon DEF ClearRoleOverride, SplitInv, CallSet
  <2>2. u \in Seq(Node) /\ Range(t) \subseteq {Head(t)} \cup Range(u)
        /\ (u = <<>> <=> Len(t) = 1)
    <3> HIDE DEF t
    <3> QED BY <2>1, RangeTail, Zenon
  <2>3. /\ x \in CallSet /\ x.op \notin {"role", "override"}
        /\ x.op = "clear" => x.todo = u /\ x.todo # <<>>
    <3> HIDE DEF u
    <3> QED BY <2>2, CallingCall, Zenon
  <2>4. /\ call' = [call EXCEPT ![s] = x] /\ overrides' = overrides \ {Head(t)}
        /\ active' = IF Len(t) = 1 THEN active \ {s} ELSE active
    BY <1>9, Zenon DEF ClearRoleOverride
  <2>5. \A n \in overrides' : Claims(s, n) => n \in Range(Leaders[s]) /\ n \in Range(u)
    BY <2>1, <2>2, <2>4, Zenon DEF Claims
  <2> HIDE DEF x, u, t
  <2>6. CASE u = <<>>
    BY <2>2, <2>3, <2>4, <2>5, <2>6, RangeEmpty, SplitOwnStep, Zenon
  <2>7. CASE u # <<>>
    BY <2>2, <2>3, <2>4, <2>5, <2>7, SplitOwnStep, Zenon
  <2> QED BY <2>6, <2>7, Zenon
<1>10. ASSUME NEW f \in Storms, StormInject(f) \/ StormRevert(f) PROVE SplitInv'
  BY <1>10, <1>2, Zenon DEF StormInject, StormRevert, view
<1>11. ASSUME NEW i, Deadline(i) \/ LoopReturns(i) \/ LoopTicks(i) \/ Probe(i) \/ Signal(i)
       PROVE  SplitInv'
  BY <1>11, <1>2, Zenon DEF Deadline, LoopReturns, LoopTicks, Probe, Signal, LoopOnly, view
<1>12. ASSUME NEW n, SetRealRole(n) PROVE SplitInv'
  BY <1>12, <1>2, Zenon DEF SetRealRole
<1>13. CASE UNCHANGED vars
  BY <1>13, <1>2, Zenon DEF vars, view
<1> QED BY <1>3, <1>4, <1>5, <1>6, <1>7, <1>8, <1>9, <1>10, <1>11, <1>12, <1>13, Zenon
        DEF Next, PartitionCall, SplitBrainCall, QuorumCall, StormCall, RoleCall, Work

\* However the calls of any number of split brains interleave, no role override
\* outlives the split brain that made it.
THEOREM OverridesEnd == Spec => []OverridesClaimed
<1>1. Init => SplitInv
  BY DEF Init, SplitInv, Fault, Idle, CallSet
<1>2. SplitInv => OverridesClaimed
  BY Zenon DEF SplitInv, OverridesClaimed, Claims
<1> QED BY <1>1, <1>2, SplitStep, PTL DEF Spec

-----------------------------------------------------------------------------
(* Storms                                                                  *)

LoopRec == [fault : Storms, op : {"select", "probe", "signal", "returned"}, over : BOOLEAN, at : Int]

\* cancel stops the last loop of its fault, so a loop that is not over belongs to a
\* storm in force or is Superseded.
StormInv ==
    /\ loops \in Seq(LoopRec)
    /\ cancel \in [Storms -> Nat]
    /\ \A i \in DOMAIN loops :
          /\ cancel[loops[i].fault] \in DOMAIN loops /\ cancel[loops[i].fault] >= i
          /\ loops[cancel[loops[i].fault]].fault = loops[i].fault
          /\ loops[i].over \/ loops[i].fault \in active \/ Superseded(i)
    /\ \A f \in Storms : cancel[f] # 0 =>
          cancel[f] \in DOMAIN loops /\ loops[cancel[f]].fault = f

LEMMA LoopTypes ==
    ASSUME StormInv, NEW i \in DOMAIN loops
    PROVE  loops[i] \in LoopRec /\ loops[i].fault \in Storms /\ i \in Nat
<1>1. loops[i] \in LoopRec /\ i \in Nat
  BY DEF StormInv
<1> QED BY <1>1, Zenon DEF LoopRec

LEMMA StormFrameStep ==
    ASSUME StormInv, UNCHANGED <<loops, cancel>>,
           \A f \in Storms : f \in active => f \in active'
    PROVE  StormInv'
<1>1. \A i \in DOMAIN loops : loops[i].fault \in Storms
  BY LoopTypes, Zenon
<1> QED BY <1>1 DEF StormInv, Superseded

\* A step of loop i, which may end it.
LEMMA StormLoopStep ==
    ASSUME StormInv, NEW i \in DOMAIN loops, NEW r \in LoopRec, loops' = [loops EXCEPT ![i] = r],
           r.fault = loops[i].fault, UNCHANGED cancel,
           loops[i].over => r.over,
           \A f \in Storms : f \in active => f \in active' \/ (f = r.fault /\ cancel[f] = i /\ r.over)
    PROVE  StormInv'
<1>1. /\ loops' \in Seq(LoopRec) /\ DOMAIN loops' = DOMAIN loops /\ loops'[i] = r
      /\ \A k \in DOMAIN loops : k # i => loops'[k] = loops[k]
  BY DEF StormInv
<1>2. \A k \in DOMAIN loops : loops'[k].fault = loops[k].fault
  BY <1>1, Zenon
<1>3. \A k \in DOMAIN loops : loops[k].fault \in Storms /\ k \in Nat
  BY LoopTypes, Zenon
<1>4. \A k \in DOMAIN loops : Superseded(k) <=> Superseded(k)'
  BY <1>1, <1>2 DEF Superseded
<1>5. ASSUME NEW k \in DOMAIN loops PROVE loops'[k].over \/ loops'[k].fault \in active' \/ Superseded(k)'
  <2>1. loops[k].over => loops'[k].over
    BY <1>1, Zenon
  <2>2. CASE loops[k].fault \in active /\ loops[k].fault \notin active'
    <3>1. loops[k].fault = r.fault /\ cancel[r.fault] = i /\ r.over
      BY <1>3, <2>2, Zenon
    <3>2. i >= k /\ i \in Nat /\ k \in Nat
      BY <3>1, <1>3, Zenon DEF StormInv
    <3>3. CASE k = i
      BY <3>1, <3>3, <1>1, Zenon
    <3>4. CASE k # i
      <4>1. Superseded(k)
        BY <3>1, <3>2, <3>4 DEF Superseded
      <4> QED BY <4>1, <1>4, Zenon
    <3> QED BY <3>3, <3>4, Zenon
  <2> QED BY <1>2, <1>4, <2>1, <2>2, Zenon DEF StormInv
<1>6. ASSUME NEW k \in DOMAIN loops
      PROVE  /\ cancel'[loops'[k].fault] \in DOMAIN loops' /\ cancel'[loops'[k].fault] >= k
             /\ loops'[cancel'[loops'[k].fault]].fault = loops'[k].fault
  <2> DEFINE c == cancel[loops[k].fault]
  <2>1. c \in DOMAIN loops /\ c >= k /\ loops[c].fault = loops[k].fault
    BY Zenon DEF StormInv
  <2>2. cancel'[loops'[k].fault] = c
    BY <1>2, Zenon
  <2> HIDE DEF c
  <2> QED BY <1>1, <1>2, <2>1, <2>2, Zenon
<1>7. ASSUME NEW f \in Storms, cancel'[f] # 0
      PROVE  cancel'[f] \in DOMAIN loops' /\ loops'[cancel'[f]].fault = f
  <2>1. cancel'[f] = cancel[f]
    BY Zenon
  <2>2. cancel[f] \in DOMAIN loops /\ loops[cancel[f]].fault = f
    BY <1>7, <2>1, Zenon DEF StormInv
  <2> QED BY <1>1, <1>2, <2>1, <2>2, Zenon
<1>8. cancel' \in [Storms -> Nat]
  BY Zenon DEF StormInv
<1> QED BY <1>1, <1>5, <1>6, <1>7, <1>8, Zenon DEF StormInv

LEMMA StormInjectStep ==
    ASSUME StormInv, NEW f \in Storms, StormInject(f)
    PROVE  StormInv'
<1> DEFINE r == [fault |-> f, op |-> "select", over |-> FALSE, at |-> 1]
           n == Len(loops) + 1
<1>1. loops' = Append(loops, r) /\ cancel' = [cancel EXCEPT ![f] = Len(loops')]
      /\ active' = active \cup {f}
  BY Zenon DEF StormInject
<1>2. r \in LoopRec /\ r.fault = f
  BY DEF LoopRec
<1> HIDE DEF r
<1>3. /\ loops' \in Seq(LoopRec) /\ Len(loops') = n /\ n \in Nat /\ loops'[n] = r
      /\ DOMAIN loops = 1..Len(loops) /\ DOMAIN loops' = 1..n /\ Len(loops) \in Nat
      /\ \A k \in 1..Len(loops) : loops'[k] = loops[k]
  BY <1>1, <1>2 DEF StormInv
<1>4. cancel' \in [Storms -> Nat] /\ cancel'[f] = n /\ \A g \in Storms \ {f} : cancel'[g] = cancel[g]
  BY <1>1, <1>3, Zenon DEF StormInv
<1>5. ASSUME NEW k \in 1..n
      PROVE  /\ cancel'[loops'[k].fault] \in 1..n /\ cancel'[loops'[k].fault] >= k
             /\ loops'[cancel'[loops'[k].fault]].fault = loops'[k].fault
             /\ loops'[k].over \/ loops'[k].fault \in active' \/ Superseded(k)'
  <2>1. CASE loops'[k].fault = f
    BY <1>1, <1>2, <1>3, <1>4, <2>1
  <2>2. CASE loops'[k].fault # f
    <3>1. k \in DOMAIN loops /\ loops'[k] = loops[k] /\ loops[k].fault \in Storms
      <4>1. k \in DOMAIN loops /\ loops'[k] = loops[k]
        BY <1>2, <1>3, <2>2
      <4> QED BY <4>1, LoopTypes, Zenon
    <3>2. cancel'[loops'[k].fault] = cancel[loops[k].fault]
      BY <1>4, <2>2, <3>1, Zenon
    <3>3. Superseded(k) => Superseded(k)'
      BY <1>3, <3>1 DEF Superseded
    <3>4. /\ cancel[loops[k].fault] \in DOMAIN loops /\ cancel[loops[k].fault] >= k
          /\ loops[cancel[loops[k].fault]].fault = loops[k].fault
          /\ loops[k].over \/ loops[k].fault \in active \/ Superseded(k)
      BY <3>1, Zenon DEF StormInv
    <3> QED BY <1>1, <1>3, <3>1, <3>2, <3>3, <3>4
  <2> QED BY <2>1, <2>2, Zenon
<1>6. ASSUME NEW g \in Storms, cancel'[g] # 0
      PROVE  cancel'[g] \in 1..n /\ loops'[cancel'[g]].fault = g
  <2>1. CASE g = f
    BY <1>2, <1>3, <1>4, <2>1
  <2>2. CASE g # f
    BY <1>3, <1>4, <1>6, <2>2 DEF StormInv
  <2> QED BY <2>1, <2>2, Zenon
<1> QED BY <1>3, <1>4, <1>5, <1>6, Zenon DEF StormInv

LEMMA StormStep ==
    ASSUME StormInv, [Next]_vars
    PROVE  StormInv'
<1> USE FaultsAssumption
<1>1. ASSUME NEW p \in Partitions, PartitionInject(p) \/ PartitionRevert(p) \/ SetGroup(p)
      PROVE  StormInv'
  BY <1>1, StormFrameStep, Zenon DEF PartitionInject, PartitionRevert, SetGroup, storm
<1>2. ASSUME NEW s \in SplitBrains,
             \/ SplitBrainInject(s) \/ SavePrevious(s) \/ SetRoleOverride(s)
             \/ SplitBrainRevert(s) \/ ClearRoleOverride(s)
      PROVE  StormInv'
  BY <1>2, StormFrameStep, Zenon
     DEF SplitBrainInject, SavePrevious, SetRoleOverride, SplitBrainRevert, ClearRoleOverride, storm
<1>3. ASSUME NEW q \in QuorumLosses,
             QuorumInject(q) \/ Isolate(q) \/ IsolateFails(q) \/ QuorumRevert(q) \/ Reconnect(q)
      PROVE  StormInv'
  <2>1. UNCHANGED <<loops, cancel>> /\ active' \in {active, active \cup {q}, active \ {q}}
    BY <1>3, Zenon
      DEF QuorumInject, Isolate, IsolateFails, QuorumRevert, Reconnect, NextVoter, storm
  <2> QED BY <2>1, StormFrameStep, Zenon
<1>4. ASSUME NEW f \in Storms, StormRevert(f) PROVE StormInv'
  <2>1. CASE cancel[f] = 0
    <3>1. UNCHANGED <<loops, cancel>> /\ active' = active \ {f}
      BY <1>4, <2>1, Zenon DEF StormRevert
    <3>2. \A i \in DOMAIN loops : loops[i].fault \in Storms /\ loops[i].fault # f
      <4>1. ASSUME NEW i \in DOMAIN loops, loops[i].fault = f PROVE FALSE
        BY <2>1, <4>1 DEF StormInv
      <4> QED BY <4>1, LoopTypes, Zenon
    <3> QED BY <3>1, <3>2, Zenon DEF StormInv, Superseded
  <2>2. CASE cancel[f] # 0
    <3> DEFINE i == cancel[f]  r == [loops[i] EXCEPT !.over = TRUE]
    <3>1. i \in DOMAIN loops /\ loops[i].fault = f /\ loops[i] \in LoopRec
      BY <2>2 DEF StormInv
    <3>2. r \in LoopRec /\ r.fault = f /\ r.over
      BY <3>1, Zenon DEF LoopRec
    <3>3. loops' = [loops EXCEPT ![i] = r] /\ UNCHANGED cancel /\ active' = active \ {f}
      BY <1>4, <2>2, Zenon DEF StormRevert
    <3> HIDE DEF i, r
    <3>4. cancel[f] = i
      BY Zenon DEF i
    <3> QED BY <3>1, <3>2, <3>3, <3>4, StormLoopStep, Zenon
  <2> QED BY <2>1, <2>2, Zenon
<1>5. ASSUME NEW i \in DOMAIN loops, Deadline(i) \/ LoopReturns(i) \/ LoopTicks(i) \/ Probe(i) \/ Signal(i)
      PROVE  StormInv'
  <2>1. loops[i] \in LoopRec /\ UNCHANGED <<cancel, active>>
    BY <1>5 DEF StormInv, Deadline, LoopReturns, LoopTicks, Probe, Signal, LoopOnly
  <2>2. PICK r \in LoopRec : /\ loops' = [loops EXCEPT ![i] = r] /\ r.fault = loops[i].fault
                             /\ loops[i].over => r.over
    <3>1. CASE Deadline(i)
      <4> DEFINE r == [loops[i] EXCEPT !.over = TRUE]
      <4>1. loops' = [loops EXCEPT ![i] = r]
        BY <3>1, Zenon DEF Deadline
      <4>2. r \in LoopRec /\ r.fault = loops[i].fault /\ (loops[i].over => r.over)
        BY <2>1, Zenon DEF LoopRec
      <4> HIDE DEF r
      <4> QED BY <4>1, <4>2, Zenon
    <3>2. CASE LoopReturns(i)
      <4> DEFINE r == [loops[i] EXCEPT !.op = "returned"]
      <4>1. loops' = [loops EXCEPT ![i] = r]
        BY <3>2, Zenon DEF LoopReturns
      <4>2. r \in LoopRec /\ r.fault = loops[i].fault /\ (loops[i].over => r.over)
        BY <2>1, Zenon DEF LoopRec
      <4> HIDE DEF r
      <4> QED BY <4>1, <4>2, Zenon
    <3>3. CASE LoopTicks(i)
      <4> DEFINE r == [loops[i] EXCEPT !.op = "probe", !.at = 1]
      <4>1. loops' = [loops EXCEPT ![i] = r]
        BY <3>3, Zenon DEF LoopTicks
      <4>2. r \in LoopRec /\ r.fault = loops[i].fault /\ (loops[i].over => r.over)
        <5>1. [loops[i] EXCEPT !.op = "probe"] \in LoopRec
          BY <2>1, Zenon DEF LoopRec
        <5>2. r = [[loops[i] EXCEPT !.op = "probe"] EXCEPT !.at = 1]
          BY Zenon
        <5>3. 1 \in Int
          OBVIOUS
        <5> QED BY <2>1, <5>1, <5>2, <5>3, Zenon DEF LoopRec
      <4> HIDE DEF r
      <4> QED BY <4>1, <4>2, Zenon
    <3>4. CASE Probe(i)
      <4> DEFINE l == loops[i]
                 r == IF l.at > Len(Nodes) THEN [l EXCEPT !.op = "select"]
                      ELSE IF RoleIsLeader(Nodes[l.at]) THEN [l EXCEPT !.op = "signal"]
                      ELSE [l EXCEPT !.at = l.at + 1]
      <4>1. loops' = [loops EXCEPT ![i] = r]
        BY <3>4, Zenon DEF Probe
      <4>2. l.at + 1 \in Int
        BY <2>1 DEF LoopRec
      <4>3. r \in LoopRec /\ r.fault = loops[i].fault /\ (loops[i].over => r.over)
        BY <2>1, <4>2, Zenon DEF LoopRec
      <4> HIDE DEF r
      <4> QED BY <4>1, <4>3, Zenon
    <3>5. CASE Signal(i)
      <4> DEFINE r == [loops[i] EXCEPT !.op = "select"]
      <4>1. loops' = [loops EXCEPT ![i] = r]
        BY <3>5, Zenon DEF Signal
      <4>2. r \in LoopRec /\ r.fault = loops[i].fault /\ (loops[i].over => r.over)
        BY <2>1, Zenon DEF LoopRec
      <4> HIDE DEF r
      <4> QED BY <4>1, <4>2, Zenon
    <3> QED BY <1>5, <3>1, <3>2, <3>3, <3>4, <3>5, Zenon
  <2> QED BY <2>1, <2>2, StormLoopStep, Zenon
<1>6. ASSUME NEW n, SetRealRole(n) PROVE StormInv'
  BY <1>6, StormFrameStep, Zenon DEF SetRealRole, storm
<1>7. CASE UNCHANGED vars
  BY <1>7, StormFrameStep, Zenon DEF vars, storm
<1> QED BY <1>1, <1>2, <1>3, <1>4, <1>5, <1>6, <1>7, StormInjectStep, Zenon
        DEF Next, PartitionCall, SplitBrainCall, QuorumCall, StormCall, RoleCall, Work

\* Only a Signal kills, and it does not under a context that is over.
LEMMA StormKill ==
    ASSUME StormInv, [Next]_vars
    PROVE  [KillsInForce]_vars
<1> SUFFICES ASSUME Next, NEW i \in DOMAIN loops, InLoop(i, "signal"), loops'[i].op = "select",
                    down' # down
             PROVE  loops[i].fault \in active \/ Superseded(i)
  BY Zenon DEF KillsInForce
<1>1. PICK k \in DOMAIN loops : Signal(k)
  BY Zenon DEF Next, PartitionCall, SplitBrainCall, QuorumCall, StormCall, RoleCall, Work,
         PartitionInject, PartitionRevert, SetGroup, SplitBrainInject, SavePrevious,
         SetRoleOverride, SplitBrainRevert, ClearRoleOverride, QuorumInject, Isolate,
         IsolateFails, QuorumRevert, Reconnect, StormInject, StormRevert, SetRealRole,
         Deadline, LoopReturns, LoopTicks, Probe, storm
<1>2. ~loops[k].over /\ loops' = [loops EXCEPT ![k].op = "select"]
  BY <1>1, Zenon DEF Signal
<1>3. k = i
  BY <1>2, Zenon DEF InLoop, StormInv
<1> QED BY <1>2, <1>3, Zenon DEF StormInv

\* No storm kills a node once its Revert has returned, unless a second Inject of the
\* same fault has overwritten the cancel function of the loop that kills.
THEOREM StormsStop == Spec => NoKillAfterRevert
<1>1. Init => StormInv
  BY DEF Init, StormInv
<1> QED BY <1>1, StormStep, StormKill, PTL DEF Spec, NoKillAfterRevert

-----------------------------------------------------------------------------
(* Quorum losses                                                           *)

VotersTo(n) == {VoterNodes[i] : i \in 1..n}

\* rest is what Inject has left to do after n voters.
VotersAfter(rest, n) ==
    Len(rest) = Len(VoterNodes) - n /\ \A i \in 1..Len(rest) : rest[i] = VoterNodes[n + i]

Wanted == IF NodesToBlock < Len(VoterNodes) THEN NodesToBlock ELSE Len(VoterNodes)

\* The call c and the blocked set B of fault q when A are the faults in force.
QuorumState(q, c, B, A) ==
    /\ c \in CallSet /\ c.op \in {"idle", "isolate", "reconnect"}
    /\ c.op # "idle" => c.todo # <<>> /\ q \notin A
    /\ c.op = "reconnect" => IsInjective(c.todo)
    /\ \E n \in 0..Len(VoterNodes) :
          /\ B = VotersTo(n)
          /\ c.op = "isolate" => n < NodesToBlock /\ VotersAfter(c.todo, n)
          /\ q \in A => n = Wanted

\* The voters a Revert of q has still to reconnect.
Answers(c, B) == IF c.op = "reconnect" THEN Range(c.todo) ELSE B
Pending(q) == Answers(call[q], blockedSet[q])

\* QuorumLost is not inductive: the voters of a fault that is being reverted, or
\* whose Inject failed, must be its own too.
QuorumInv ==
    /\ DOMAIN call = Fault /\ blockedSet \in [QuorumLosses -> SUBSET Node]
    /\ \A q \in QuorumLosses : QuorumState(q, call[q], blockedSet[q], active) /\ Pending(q) \subseteq isolated
    /\ \A q, r \in QuorumLosses : q # r => Pending(q) \cap Pending(r) = {}

LEMMA VotersCount ==
    ASSUME NEW n \in 0..Len(VoterNodes)
    PROVE  IsFiniteSet(VotersTo(n)) /\ Cardinality(VotersTo(n)) = n /\ VotersTo(n) \subseteq Node
<1> DEFINE f == [i \in 1..n |-> VoterNodes[i]]
<1>1. VoterNodes \in Seq(Node) /\ Len(VoterNodes) \in Nat /\ n \in Nat /\ DOMAIN VoterNodes = 1..Len(VoterNodes)
  BY ListsAssumption
<1>2. \A i \in 1..n : i \in DOMAIN VoterNodes /\ VoterNodes[i] \in Node
  BY <1>1
<1>3. f \in Bijection(1..n, VotersTo(n))
  <2>1. f \in [1..n -> VotersTo(n)]
    BY Zenon DEF VotersTo
  <2>2. IsInjective(f)
    BY <1>2, NodesAssumption, Zenon DEF IsInjective
  <2>3. \A t \in VotersTo(n) : \E i \in 1..n : f[i] = t
    BY Zenon DEF VotersTo
  <2> QED BY <2>1, <2>2, <2>3, Zenon DEF Bijection, Injection, Surjection
<1>4. IsFiniteSet(1..n) /\ Cardinality(1..n) = n
  BY <1>1, FS_Interval
<1>5. IsFiniteSet(VotersTo(n)) /\ Cardinality(VotersTo(n)) = Cardinality(1..n)
  BY <1>3, <1>4, FS_Bijection DEF ExistsBijection
<1> QED BY <1>2, <1>4, <1>5, Zenon DEF VotersTo

LEMMA QuorumFrameStep ==
    ASSUME QuorumInv, DOMAIN call' = Fault, UNCHANGED <<blockedSet, isolated>>,
           \A q \in QuorumLosses : call'[q] = call[q] /\ (q \in active' <=> q \in active)
    PROVE  QuorumInv'
BY Zenon DEF QuorumInv, QuorumState, Pending

\* A step of quorum loss q.
LEMMA QuorumOwnStep ==
    ASSUME QuorumInv, NEW q \in QuorumLosses, NEW c, NEW B,
           call' = [call EXCEPT ![q] = c], blockedSet' = [blockedSet EXCEPT ![q] = B],
           QuorumState(q, c, B, active'), Answers(c, B) \subseteq isolated',
           \A r \in QuorumLosses \ {q} :
              /\ r \in active' <=> r \in active
              /\ Pending(r) \subseteq isolated' /\ Answers(c, B) \cap Pending(r) = {}
    PROVE  QuorumInv'
<1>0. B \subseteq Node
  BY VotersCount, Zenon DEF QuorumState
<1>1. /\ DOMAIN call' = Fault /\ call'[q] = c /\ blockedSet' \in [QuorumLosses -> SUBSET Node]
      /\ blockedSet'[q] = B
      /\ \A r \in QuorumLosses \ {q} : call'[r] = call[r] /\ blockedSet'[r] = blockedSet[r]
  BY <1>0, OtherCalls DEF QuorumInv, Fault
<1>2. Pending(q)' = Answers(c, B) /\ \A r \in QuorumLosses \ {q} : Pending(r)' = Pending(r)
  BY <1>1, Zenon DEF Pending
<1>3. \A r \in QuorumLosses \ {q} : QuorumState(r, call'[r], blockedSet'[r], active')
  BY <1>1 DEF QuorumInv, QuorumState
<1> QED BY <1>1, <1>2, <1>3 DEF QuorumInv

\* Inject goes on with the voters after the first n, or returns nil.
LEMMA NextVoterState ==
    ASSUME NEW q \in QuorumLosses, NEW rest \in Seq(Node), NEW n \in 0..Len(VoterNodes),
           n <= NodesToBlock, VotersAfter(rest, n), blockedSet'[q] = VotersTo(n),
           NextVoter(q, rest)
    PROVE  \E c : /\ call' = [call EXCEPT ![q] = c] /\ c.op # "reconnect"
                  /\ QuorumState(q, c, VotersTo(n), active')
                  /\ active' \in {active \cup {q}, active \ {q}}
<1> DEFINE c == IF Enough(q) THEN Idle ELSE Calling("isolate", rest)
<1>0. Len(VoterNodes) \in Nat /\ NodesToBlock \in Nat /\ n \in Nat
  BY ListsAssumption, VotersAssumption
<1>1. call' = [call EXCEPT ![q] = c] /\ active' = IF c = Idle THEN active \cup {q} ELSE active \ {q}
  BY Zenon DEF NextVoter
<1>2. Enough(q) <=> n >= NodesToBlock
  BY VotersCount, Zenon DEF Enough
<1>3. /\ Calling("isolate", rest) \in CallSet /\ Idle \in CallSet /\ Idle.op = "idle"
      /\ rest # <<>> => Calling("isolate", rest).op = "isolate" /\ Calling("isolate", rest).todo = rest
      /\ rest = <<>> => Calling("isolate", rest) = Idle
  BY CallingCall, Zenon
<1>4. CASE c = Idle
  <2>1. n >= NodesToBlock \/ rest = <<>>
    BY <1>2, <1>3, <1>4, Zenon
  <2>2. rest = <<>> => n = Len(VoterNodes)
    <3>1. rest = <<>> => Len(rest) = 0
      OBVIOUS
    <3> QED BY <1>0, <3>1 DEF VotersAfter
  <2>3. n = Wanted
    BY <1>0, <2>1, <2>2 DEF Wanted
  <2>4. active' = active \cup {q} /\ c \in CallSet /\ c.op = "idle"
    BY <1>1, <1>3, <1>4, Zenon
  <2> HIDE DEF c
  <2>5. QuorumState(q, c, VotersTo(n), active')
    BY <2>3, <2>4, Zenon DEF QuorumState
  <2> QED BY <1>1, <2>4, <2>5, Zenon
<1>5. CASE c # Idle
  <2>1. c = Calling("isolate", rest) /\ rest # <<>> /\ n < NodesToBlock
    BY <1>0, <1>2, <1>3, <1>5
  <2>2. c \in CallSet /\ c.op = "isolate" /\ c.todo = rest /\ active' = active \ {q}
    BY <1>1, <1>3, <1>5, <2>1, Zenon
  <2> HIDE DEF c
  <2>3. QuorumState(q, c, VotersTo(n), active')
    BY <2>1, <2>2, Zenon DEF QuorumState
  <2> QED BY <1>1, <2>2, <2>3, Zenon
<1> QED BY <1>4, <1>5, Zenon

LEMMA QuorumInjectStep ==
    ASSUME QuorumInv, NEW q \in QuorumLosses, QuorumInject(q)
    PROVE  QuorumInv'
<1>1. VotersTo(0) = {} /\ VotersAfter(VoterNodes, 0) /\ VoterNodes \in Seq(Node)
      /\ 0 \in 0..Len(VoterNodes) /\ 0 <= NodesToBlock
  BY ListsAssumption, VotersAssumption DEF VotersTo, VotersAfter
<1>2. blockedSet' = [blockedSet EXCEPT ![q] = {}] /\ blockedSet'[q] = {} /\ UNCHANGED isolated
      /\ NextVoter(q, VoterNodes)
  BY Zenon DEF QuorumInject, QuorumInv
<1>3. PICK c : /\ call' = [call EXCEPT ![q] = c] /\ c.op # "reconnect"
               /\ QuorumState(q, c, VotersTo(0), active')
               /\ active' \in {active \cup {q}, active \ {q}}
  <2>1. blockedSet'[q] = VotersTo(0)
    BY <1>1, <1>2, Zenon
  <2> QED BY <1>1, <1>2, <2>1, NextVoterState, Zenon
<1>4. Answers(c, {}) = {}
  BY <1>3, Zenon DEF Answers
<1>5. \A r \in QuorumLosses \ {q} : Pending(r) \subseteq isolated' /\ (r \in active' <=> r \in active)
  BY <1>2, <1>3, Zenon DEF QuorumInv
<1> QED BY <1>1, <1>2, <1>3, <1>4, <1>5, QuorumOwnStep, Zenon

LEMMA IsolateStep ==
    ASSUME QuorumInv, NEW q \in QuorumLosses, Isolate(q)
    PROVE  QuorumInv'
<1> DEFINE t == call[q].todo  v == Head(t)  u == Tail(t)
<1>0. /\ call[q].op = "isolate" /\ v \notin isolated /\ isolated' = isolated \cup {v}
      /\ blockedSet' = [blockedSet EXCEPT ![q] = blockedSet[q] \cup {v}] /\ NextVoter(q, u)
  BY Zenon DEF Isolate, Disconnectable
<1>1. t \in Seq(Node) /\ t # <<>>
  BY <1>0, Zenon DEF QuorumInv, QuorumState, CallSet
<1>2. PICK n \in 0..Len(VoterNodes) :
        blockedSet[q] = VotersTo(n) /\ n < NodesToBlock /\ VotersAfter(t, n)
  BY <1>0, Zenon DEF QuorumInv, QuorumState
<1>3. Len(VoterNodes) \in Nat /\ NodesToBlock \in Nat /\ n \in Nat /\ Len(t) \in Nat /\ Len(t) > 0
  BY <1>1, ListsAssumption, VotersAssumption
<1>4. n + 1 \in 0..Len(VoterNodes) /\ n + 1 <= NodesToBlock
  BY <1>2, <1>3 DEF VotersAfter
<1>5. v = VoterNodes[n + 1] /\ u \in Seq(Node) /\ VotersAfter(u, n + 1)
  <2>1. u \in Seq(Node) /\ Len(u) = Len(t) - 1 /\ \A i \in 1..(Len(t) - 1) : u[i] = t[i + 1]
    BY <1>1, <1>3
  <2>2. v = t[1]
    BY <1>1
  <2> HIDE DEF t, u, v
  <2>3. \A i \in 1..Len(t) : t[i] = VoterNodes[n + i]
    BY <1>2, Zenon DEF VotersAfter
  <2>4. \A i \in 1..Len(u) : u[i] = VoterNodes[(n + 1) + i]
    <3>1. ASSUME NEW i \in 1..Len(u) PROVE u[i] = VoterNodes[(n + 1) + i]
      <4>1. i \in 1..(Len(t) - 1) /\ i + 1 \in 1..Len(t) /\ n + (i + 1) = (n + 1) + i
        BY <1>3, <2>1
      <4> QED BY <4>1, <2>1, <2>3, Zenon
    <3> QED BY <3>1, Zenon
  <2>5. Len(u) = Len(VoterNodes) - (n + 1)
    BY <1>2, <1>3, <2>1 DEF VotersAfter
  <2>6. v = VoterNodes[n + 1]
    BY <1>3, <2>2, <2>3
  <2> QED BY <2>1, <2>4, <2>5, <2>6, Zenon DEF VotersAfter
<1> HIDE DEF t, u, v
<1>6. VotersTo(n) \cup {v} = VotersTo(n + 1)
  <2>1. 1..(n + 1) = 1..n \cup {n + 1}
    BY <1>3
  <2> QED BY <1>5, <2>1, Zenon DEF VotersTo
<1>7. blockedSet' = [blockedSet EXCEPT ![q] = VotersTo(n + 1)] /\ blockedSet'[q] = VotersTo(n + 1)
  BY <1>0, <1>2, <1>6, Zenon DEF QuorumInv
<1>8. PICK c : /\ call' = [call EXCEPT ![q] = c] /\ c.op # "reconnect"
               /\ QuorumState(q, c, VotersTo(n + 1), active')
               /\ active' \in {active \cup {q}, active \ {q}}
  BY <1>0, <1>4, <1>5, <1>7, NextVoterState, Zenon
<1>9. Answers(c, VotersTo(n + 1)) = Pending(q) \cup {v}
  BY <1>0, <1>2, <1>6, <1>8, Zenon DEF Answers, Pending
<1>10. \A r \in QuorumLosses : Pending(r) \subseteq isolated /\ (r # q => Pending(q) \cap Pending(r) = {})
  BY Zenon DEF QuorumInv
<1>11. \A r \in QuorumLosses \ {q} :
          /\ r \in active' <=> r \in active
          /\ Pending(r) \subseteq isolated' /\ Answers(c, VotersTo(n + 1)) \cap Pending(r) = {}
  BY <1>0, <1>8, <1>9, <1>10, Zenon
<1>12. Answers(c, VotersTo(n + 1)) \subseteq isolated'
  BY <1>0, <1>9, <1>10, Zenon
<1> QED BY <1>7, <1>8, <1>11, <1>12, QuorumOwnStep, Zenon

LEMMA IsolateFailsStep ==
    ASSUME QuorumInv, NEW q \in QuorumLosses, IsolateFails(q)
    PROVE  QuorumInv'
<1>1. /\ call[q].op = "isolate" /\ isolated \subseteq isolated' /\ call' = [call EXCEPT ![q] = Idle]
      /\ UNCHANGED <<blockedSet, active>>
  BY Zenon DEF IsolateFails
<1>2. Idle \in CallSet /\ Idle.op = "idle"
  BY DEF Idle, CallSet
<1>3. QuorumState(q, Idle, blockedSet[q], active') /\ Answers(Idle, blockedSet[q]) = Pending(q)
  BY <1>1, <1>2, Zenon DEF QuorumInv, QuorumState, Answers, Pending
<1> DEFINE B == blockedSet[q]
<1>4. blockedSet' = [blockedSet EXCEPT ![q] = B]
  BY <1>1, Zenon DEF QuorumInv
<1>5. \A r \in QuorumLosses :
         Pending(r) \subseteq isolated' /\ (r # q => Pending(q) \cap Pending(r) = {})
  BY <1>1, Zenon DEF QuorumInv
<1>6. QuorumState(q, Idle, B, active') /\ Answers(Idle, B) = Pending(q)
  BY <1>3, Zenon
<1> HIDE DEF B
<1> QED BY <1>1, <1>4, <1>5, <1>6, QuorumOwnStep, Zenon

LEMMA QuorumRevertStep ==
    ASSUME QuorumInv, NEW q \in QuorumLosses, QuorumRevert(q)
    PROVE  QuorumInv'
<1> DEFINE B == blockedSet[q]
<1>1. /\ call[q].op = "idle" /\ active' = active \ {q} /\ UNCHANGED <<blockedSet, isolated>>
      /\ \E todo \in Orders(B) : call' = [call EXCEPT ![q] = Calling("reconnect", todo)]
  BY Zenon DEF QuorumRevert, quorum
<1>2. PICK n \in 0..Len(VoterNodes) : B = VotersTo(n)
  BY Zenon DEF QuorumInv, QuorumState
<1>3. B \subseteq Node /\ Cardinality(B) = n /\ n \in Nat
  BY <1>2, VotersCount, ListsAssumption
<1>4. PICK todo \in Orders(B) : call' = [call EXCEPT ![q] = Calling("reconnect", todo)]
  BY <1>1, Zenon
<1> HIDE DEF B
<1>5. todo \in [1..n -> B] /\ IsInjective(todo)
  BY <1>3, <1>4, Zenon DEF Orders, Bijection, Injection
<1>6. todo \in Seq(Node) /\ IsInjective(todo) /\ Range(todo) \subseteq B
  <2>1. todo \in [1..n -> Node]
    BY <1>3, <1>5, Zenon
  <2>2. todo \in Seq(Node)
    BY <1>3, <2>1
  <2> QED BY <1>5, <2>2, Zenon DEF Range
<1> DEFINE c == Calling("reconnect", todo)
<1>7. /\ c \in CallSet /\ c.op \in {"idle", "reconnect"}
      /\ c.op = "reconnect" => c.todo = todo /\ c.todo # <<>>
  BY <1>6, CallingCall
<1> HIDE DEF c
<1>8. QuorumState(q, c, B, active')
  BY <1>1, <1>2, <1>6, <1>7, Zenon DEF QuorumState
<1>9. Answers(c, B) \subseteq Pending(q)
  BY <1>1, <1>6, <1>7, Zenon DEF Answers, Pending, B
<1>10. \A r \in QuorumLosses :
          Pending(r) \subseteq isolated' /\ (r # q => Pending(q) \cap Pending(r) = {})
  BY <1>1, Zenon DEF QuorumInv
<1>11. blockedSet' = [blockedSet EXCEPT ![q] = B]
  BY <1>1, Zenon DEF QuorumInv, B
<1>12. \A r \in QuorumLosses \ {q} :
          /\ r \in active' <=> r \in active
          /\ Pending(r) \subseteq isolated' /\ Answers(c, B) \cap Pending(r) = {}
  BY <1>1, <1>9, <1>10, Zenon
<1>13. Answers(c, B) \subseteq isolated' /\ call' = [call EXCEPT ![q] = c]
  BY <1>4, <1>9, <1>10, Zenon DEF c
<1> QED BY <1>8, <1>11, <1>12, <1>13, QuorumOwnStep, Zenon

LEMMA TailInjective ==
    ASSUME NEW S, NEW s \in Seq(S), s # <<>>, IsInjective(s)
    PROVE  IsInjective(Tail(s)) /\ Head(s) \notin Range(Tail(s))
<1>1. Len(s) \in Nat /\ Len(s) > 0 /\ DOMAIN s = 1..Len(s)
  OBVIOUS
<1>2. DOMAIN Tail(s) = 1..(Len(s) - 1) /\ Head(s) = s[1]
  BY <1>1
<1>3. \A i \in 1..(Len(s) - 1) : Tail(s)[i] = s[i + 1] /\ i + 1 \in 1..Len(s) /\ i + 1 # 1
  BY <1>1
<1>4. \A i, j \in 1..(Len(s) - 1) : s[i + 1] = s[j + 1] => i = j
  BY <1>1, <1>3 DEF IsInjective
<1>5. IsInjective(Tail(s))
  BY <1>2, <1>3, <1>4, Zenon DEF IsInjective
<1>6. ASSUME NEW i \in 1..(Len(s) - 1) PROVE Tail(s)[i] # s[1]
  BY <1>1, <1>3 DEF IsInjective
<1> QED BY <1>2, <1>5, <1>6, Zenon DEF Range

LEMMA ReconnectStep ==
    ASSUME QuorumInv, NEW q \in QuorumLosses, Reconnect(q)
    PROVE  QuorumInv'
<1> DEFINE t == call[q].todo  v == Head(t)  u == Tail(t)  c == Calling("reconnect", u)
           B == IF Len(t) = 1 THEN {} ELSE blockedSet[q]
<1>0. /\ call[q].op = "reconnect" /\ isolated \ {v} \subseteq isolated' /\ UNCHANGED active
      /\ isolated' \subseteq isolated
      /\ call' = [call EXCEPT ![q] = c] /\ blockedSet' = [blockedSet EXCEPT ![q] = B]
  BY Zenon DEF Reconnect, QuorumInv
<1>1. t \in Seq(Node) /\ t # <<>> /\ IsInjective(t) /\ q \notin active
  BY <1>0, Zenon DEF QuorumInv, QuorumState, CallSet
<1>2. Pending(q) = Range(t)
  BY <1>0, Zenon DEF Pending, Answers
<1>3. PICK n \in 0..Len(VoterNodes) : blockedSet[q] = VotersTo(n)
  BY Zenon DEF QuorumInv, QuorumState
<1>4. VotersTo(0) = {} /\ 0 \in 0..Len(VoterNodes)
  BY ListsAssumption DEF VotersTo
<1>5. \E m \in 0..Len(VoterNodes) : B = VotersTo(m)
  BY <1>3, <1>4, Zenon
<1>6. /\ u \in Seq(Node) /\ IsInjective(u) /\ Range(u) \subseteq Range(t) /\ v \in Range(t)
      /\ v \notin Range(u) /\ (u = <<>> <=> Len(t) = 1)
  <2> HIDE DEF t
  <2> QED BY <1>1, RangeTail, TailInjective, Zenon
<1>7. /\ c \in CallSet /\ (u # <<>> => c.op = "reconnect" /\ c.todo = u)
      /\ (u = <<>> => c.op = "idle")
  <2> HIDE DEF u
  <2> QED BY <1>6, CallingCall, Zenon
<1>8. B = {} \/ u # <<>>
  BY <1>6, Zenon
<1> HIDE DEF t, u, v, c, B
<1>9. QuorumState(q, c, B, active')
  BY <1>0, <1>1, <1>5, <1>6, <1>7, Zenon DEF QuorumState
<1>10. Answers(c, B) \subseteq Range(u)
  BY <1>7, <1>8, Zenon DEF Answers
<1>11. \A r \in QuorumLosses : Pending(r) \subseteq isolated /\ (r # q => Range(t) \cap Pending(r) = {})
  BY <1>2, Zenon DEF QuorumInv
<1>12. \A r \in QuorumLosses \ {q} : Pending(r) \subseteq isolated' /\ Answers(c, B) \cap Pending(r) = {}
  BY <1>0, <1>6, <1>10, <1>11, Zenon
<1>13. Answers(c, B) \subseteq isolated'
  BY <1>0, <1>2, <1>6, <1>10, <1>11, Zenon
<1> QED BY <1>0, <1>9, <1>12, <1>13, QuorumOwnStep, Zenon

LEMMA QuorumStep ==
    ASSUME QuorumInv, [Next]_vars
    PROVE  QuorumInv'
<1> USE FaultsAssumption
<1>0. DOMAIN call = Fault
  BY Zenon DEF QuorumInv
<1>1. ASSUME NEW f \in Fault \ QuorumLosses, UNCHANGED quorum,
             call' = call \/ \E x : call' = [call EXCEPT ![f] = x],
             active' \in {active, active \cup {f}, active \ {f}}
      PROVE  QuorumInv'
  <2>1. DOMAIN call' = Fault /\ \A q \in QuorumLosses : call'[q] = call[q] /\ (q \in active' <=> q \in active)
    BY <1>0, <1>1, OtherCalls, Zenon DEF Fault
  <2> QED BY <1>1, <2>1, QuorumFrameStep, Zenon DEF quorum
<1>2. ASSUME NEW p \in Partitions, PartitionInject(p) \/ PartitionRevert(p) \/ SetGroup(p)
      PROVE  QuorumInv'
  <2>1. /\ UNCHANGED quorum /\ active' \in {active, active \cup {p}, active \ {p}}
        /\ call' = call \/ \E x : call' = [call EXCEPT ![p] = x]
    BY <1>2, Zenon DEF PartitionInject, PartitionRevert, SetGroup
  <2> QED BY <2>1, <1>1, Zenon DEF Fault
<1>3. ASSUME NEW s \in SplitBrains,
             \/ SplitBrainInject(s) \/ SavePrevious(s) \/ SetRoleOverride(s)
             \/ SplitBrainRevert(s) \/ ClearRoleOverride(s)
      PROVE  QuorumInv'
  <2>1. UNCHANGED quorum /\ active' \in {active, active \cup {s}, active \ {s}}
    BY <1>3, Zenon
      DEF SplitBrainInject, SavePrevious, SetRoleOverride, SplitBrainRevert, ClearRoleOverride
  <2>2. \E x : call' = [call EXCEPT ![s] = x]
    BY <1>3, Zenon
      DEF SplitBrainInject, SavePrevious, SetRoleOverride, SplitBrainRevert, ClearRoleOverride
  <2> QED BY <2>1, <2>2, <1>1, Zenon DEF Fault
<1>4. ASSUME NEW f \in Storms, StormInject(f) \/ StormRevert(f) PROVE QuorumInv'
  BY <1>1, <1>4, Zenon DEF StormInject, StormRevert, Fault
<1>5. ASSUME UNCHANGED <<quorum, call, active>> PROVE QuorumInv'
  BY <1>0, <1>5, QuorumFrameStep, Zenon DEF quorum
<1>6. ASSUME NEW i, Deadline(i) \/ LoopReturns(i) \/ LoopTicks(i) \/ Probe(i) \/ Signal(i)
      PROVE  QuorumInv'
  BY <1>5, <1>6, Zenon DEF Deadline, LoopReturns, LoopTicks, Probe, Signal, LoopOnly
<1>7. ASSUME NEW n, SetRealRole(n) PROVE QuorumInv'
  BY <1>5, <1>7, Zenon DEF SetRealRole
<1>8. CASE UNCHANGED vars
  BY <1>5, <1>8, Zenon DEF vars
<1> QED BY <1>2, <1>3, <1>4, <1>6, <1>7, <1>8, QuorumInjectStep, IsolateStep, IsolateFailsStep,
           QuorumRevertStep, ReconnectStep, Zenon
        DEF Next, PartitionCall, SplitBrainCall, QuorumCall, StormCall, RoleCall, Work

\* For any voters and any number of concurrent quorum losses with failing commands:
\* after an Inject that returned nil, and until its Revert, as many voters as asked
\* for are off the network, and no other fault lists them.
THEOREM QuorumStaysLost == Spec => []QuorumLost
<1>1. Init => QuorumInv
  <2>1. VotersTo(0) = {} /\ 0 \in 0..Len(VoterNodes)
    BY ListsAssumption DEF VotersTo
  <2>2. Idle \in CallSet /\ Idle.op = "idle"
    BY DEF Idle, CallSet
  <2>3. Init => \A q \in QuorumLosses : call[q] = Idle /\ blockedSet[q] = {} /\ q \notin active
    BY Zenon DEF Init, Fault
  <2>4. Init => \A q \in QuorumLosses :
                   QuorumState(q, call[q], blockedSet[q], active) /\ Pending(q) = {}
    BY <2>1, <2>2, <2>3, Zenon DEF QuorumState, Pending, Answers
  <2> QED BY <2>4, Zenon DEF Init, QuorumInv
<1>2. QuorumInv => QuorumLost
  <2> SUFFICES ASSUME QuorumInv PROVE QuorumLost
    BY Zenon
  <2>1. ASSUME NEW q \in QuorumLosses \cap active
        PROVE  Pending(q) = blockedSet[q] /\ Cardinality(blockedSet[q]) = Wanted
    <3>1. call[q].op = "idle" /\ \E n \in 0..Len(VoterNodes) : blockedSet[q] = VotersTo(n) /\ n = Wanted
      BY Zenon DEF QuorumInv, QuorumState
    <3> QED BY <3>1, VotersCount, Zenon DEF Pending, Answers
  <2> QED BY <2>1, Zenon DEF QuorumInv, QuorumLost, Wanted
<1> QED BY <1>1, <1>2, QuorumStep, PTL DEF Spec
-----------------------------------------------------------------------------
(* Partitions                                                              *)

\* A set of layers that is not empty has a last one.
HasLast(I) == I = {} \/ \E i \in I : \A j \in I : j <= i

\* A partition that is being injected has still to move node n.
Moving(n) == \E p \in Partitions : call[p].op = "inject" /\ n \in Range(call[p].todo)

\* A call of a partition: Inject on its way, or none.
PartitionCallOK(p, c) ==
    /\ c.op \in {"idle", "inject"}
    /\ c.op = "inject" =>
          /\ c.todo \in Seq(Node) /\ c.todo # <<>> /\ IsInjective(c.todo)
          /\ Range(c.todo) \subseteq Members(p)

GroupNames == {"default"} \cup UNION {DOMAIN Groups[p] : p \in Partitions}

NestTypes ==
    /\ DOMAIN call = Fault /\ groups \in [Node -> GroupNames]
    /\ DOMAIN preSnapshot = Partitions
    /\ \A p \in Partitions :
          /\ PartitionCallOK(p, call[p])
          /\ preSnapshot[p] # NoSnapshot => preSnapshot[p] \in [Node -> GroupNames]
    /\ stack \in Seq(Partitions) /\ nested \in BOOLEAN

LayersEnd == \A k \in 0..Len(stack), n \in Node : HasLast(Claiming(k, n))

\* Each snapshot is the layout under its layer.
Snapshots == \A k \in 1..Len(stack), n \in Node : preSnapshot[stack[k]][n] = Layered(k - 1, n)

OnlyTopMoves ==
    \A p \in Partitions : call[p].op = "inject" => stack # <<>> /\ stack[Len(stack)] = p

\* A node still to be moved by the partition on top is where the others have put it.
Layout ==
    \A n \in Node : groups[n] = Layered(IF Moving(n) THEN Len(stack) - 1 ELSE Len(stack), n)

NestInv == NestTypes /\ LayersEnd /\ (nested => Snapshots /\ OnlyTopMoves /\ Layout)

LEMMA LastLayerIn == ASSUME NEW I, HasLast(I), I # {} PROVE LastLayer(I) \in I
BY Zenon DEF HasLast, LastLayer

LEMMA LastLayerIs ==
    ASSUME NEW I \in SUBSET Nat, NEW k \in I, \A j \in I : j <= k
    PROVE  HasLast(I) /\ LastLayer(I) = k
<1>1. \E i \in I : \A j \in I : j <= i
  BY Zenon
<1>2. LastLayer(I) \in I /\ \A j \in I : j <= LastLayer(I)
  BY <1>1, Zenon DEF LastLayer
<1>3. k \in Nat /\ LastLayer(I) \in Nat /\ LastLayer(I) <= k /\ k <= LastLayer(I)
  BY <1>2, Zenon
<1>4. LastLayer(I) = k
  BY <1>3
<1> QED BY <1>1, <1>4, Zenon DEF HasLast

LEMMA LayersBelow ==
    ASSUME NEW k \in Nat, NEW n, \A i \in 1..k : stack'[i] = stack[i], HasLast(Claiming(k, n))
    PROVE  Claiming(k, n)' = Claiming(k, n) /\ Layered(k, n)' = Layered(k, n)
<1>1. Claiming(k, n)' = Claiming(k, n)
  BY Zenon DEF Claiming
<1>2. Claiming(k, n) # {} => LastLayer(Claiming(k, n)) \in 1..k
  BY LastLayerIn, Zenon DEF Claiming
<1> QED BY <1>1, <1>2, Zenon DEF Layered

LEMMA LayerOnTop ==
    ASSUME NEW k \in Nat, k # 0, NEW n, HasLast(Claiming(k - 1, n)')
    PROVE  /\ HasLast(Claiming(k, n)')
           /\ n \in Members(stack'[k]) => Layered(k, n)' = GroupIn(stack'[k], n)
           /\ n \notin Members(stack'[k]) => Layered(k, n)' = Layered(k - 1, n)'
<1> DEFINE I == Claiming(k, n)'
<1>1. CASE n \in Members(stack'[k])
  <2>1. k \in I /\ (\A j \in I : j <= k) /\ I \subseteq Nat
    BY <1>1 DEF Claiming
  <2>2. HasLast(I) /\ LastLayer(I) = k
    <3> HIDE DEF I
    <3> QED BY <2>1, LastLayerIs, Zenon
  <2> QED BY <1>1, <2>1, <2>2, Zenon DEF Layered, I
<1>2. CASE n \notin Members(stack'[k])
  <2>1. I = Claiming(k - 1, n)'
    BY <1>2 DEF Claiming
  <2> QED BY <1>2, <2>1, Zenon DEF Layered
<1> QED BY <1>1, <1>2, Zenon

LEMMA MembersFinite ==
    ASSUME NEW p \in Partitions
    PROVE  Members(p) \subseteq Node /\ IsFiniteSet(Members(p)) /\ Cardinality(Members(p)) \in Nat
<1>1. Members(p) \subseteq Node
  BY GroupsAssumption, Zenon DEF Members
<1>2. IsFiniteSet(Node)
  <2>1. Nodes \in Surjection(1..Len(Nodes), Node) /\ Len(Nodes) \in Nat
    BY ListsAssumption DEF Surjection, Node, Range
  <2>2. IsFiniteSet(1..Len(Nodes))
    BY <2>1, FS_Interval
  <2> QED BY <2>1, <2>2, FS_Surjection, Zenon DEF ExistsSurjection
<1> QED BY <1>1, <1>2, FS_Subset, FS_CardinalityType, Zenon

LEMMA VisitsAll ==
    ASSUME NEW p \in Partitions, NEW todo \in Visits(p)
    PROVE  todo \in Seq(Node) /\ IsInjective(todo) /\ Range(todo) = Members(p)
<1> DEFINE M == Members(p)
<1>1. M \subseteq Node /\ Cardinality(M) \in Nat
  BY MembersFinite, Zenon
<1>2. todo \in Bijection(1..Cardinality(M), M)
  BY Zenon DEF Visits, Orders
<1> HIDE DEF M
<1>3. todo \in [1..Cardinality(M) -> M] /\ IsInjective(todo) /\ \A m \in M : \E i \in 1..Cardinality(M) : todo[i] = m
  BY <1>2, Zenon DEF Bijection, Injection, Surjection
<1>4. todo \in [1..Cardinality(M) -> Node]
  BY <1>1, <1>3, Zenon
<1>5. todo \in Seq(Node)
  BY <1>1, <1>4
<1>6. Range(todo) = M
  BY <1>3, Zenon DEF Range
<1> QED BY <1>3, <1>5, <1>6, Zenon DEF M

LEMMA GroupInNames ==
    ASSUME NEW p \in Partitions, NEW n \in Members(p)
    PROVE  GroupIn(p, n) \in GroupNames
<1>1. \E g \in DOMAIN Groups[p] : n \in Range(Groups[p][g])
  BY Zenon DEF Members
<1>2. GroupIn(p, n) \in DOMAIN Groups[p]
  BY <1>1, Zenon DEF GroupIn
<1> QED BY <1>2, Zenon DEF GroupNames

LEMMA NestFrameStep ==
    ASSUME NestInv, UNCHANGED <<groups, preSnapshot, stack, nested>>, DOMAIN call' = Fault,
           \A p \in Partitions : call'[p] = call[p]
    PROVE  NestInv'
<1>1. \A k, n : Claiming(k, n)' = Claiming(k, n) /\ Layered(k, n)' = Layered(k, n)
  BY Zenon DEF Layered, Claiming
<1>2. \A n : Moving(n)' <=> Moving(n)
  BY Zenon DEF Moving
<1>3. NestTypes' /\ LayersEnd'
  BY <1>1, Zenon DEF NestInv, NestTypes, LayersEnd, PartitionCallOK, HasLast
<1>4. nested' => Snapshots' /\ OnlyTopMoves'
  BY <1>1, Zenon DEF NestInv, Snapshots, OnlyTopMoves
<1>5. nested' => Layout'
  BY <1>1, <1>2, Zenon DEF NestInv, Layout
<1> QED BY <1>3, <1>4, <1>5, Zenon DEF NestInv

\* Once calls have overlapped, or reverts have crossed, the stack stays empty.
LEMMA EmptyStackStep ==
    ASSUME stack' = <<>>
    PROVE  stack' \in Seq(Partitions) /\ LayersEnd'
<1>1. Len(stack') = 0 /\ stack' \in Seq(Partitions)
  OBVIOUS
<1>2. \A n : Claiming(0, n)' = {}
  BY DEF Claiming
<1> QED BY <1>1, <1>2 DEF HasLast, LayersEnd

\* What an Inject of partition p has still to do, todo in front.
LEMMA InjectCall ==
    ASSUME NEW p \in Partitions, NEW todo \in Seq(Node), IsInjective(todo), Range(todo) \subseteq Members(p)
    PROVE  /\ PartitionCallOK(p, Calling("inject", todo))
           /\ todo = <<>> => Calling("inject", todo).op = "idle"
           /\ todo # <<>> => Calling("inject", todo) = [op |-> "inject", todo |-> todo]
BY Zenon DEF PartitionCallOK, Calling, Idle

\* Who moves a node, when p is the only partition that may be injected.
LEMMA MovingOnly ==
    ASSUME DOMAIN call = Fault, NEW p \in Partitions, NEW todo \in Seq(Node),
           call' = [call EXCEPT ![p] = Calling("inject", todo)],
           \A q \in Partitions \ {p} : call[q].op # "inject", NEW n
    PROVE  Moving(n)' <=> n \in Range(todo)
<1>1. call'[p] = Calling("inject", todo) /\ \A q \in Partitions \ {p} : call'[q].op # "inject"
  BY OtherCalls, Zenon DEF Fault
<1>2. CASE todo = <<>>
  BY <1>1, <1>2, RangeEmpty DEF Moving, Calling, Idle
<1>3. CASE todo # <<>>
  <2>1. call'[p].op = "inject" /\ call'[p].todo = todo
    BY <1>1, <1>3 DEF Calling
  <2> QED BY <1>1, <2>1, Zenon DEF Moving
<1> QED BY <1>2, <1>3, Zenon

LEMMA NestInjectStep ==
    ASSUME NestInv, NEW p \in Partitions, PartitionInject(p)
    PROVE  NestInv'
<1>0. NestTypes /\ LayersEnd
  BY Zenon DEF NestInv
<1>1. PICK todo \in Visits(p) : call' = [call EXCEPT ![p] = Calling("inject", todo)]
  BY Zenon DEF PartitionInject
<1>2. /\ preSnapshot' = [preSnapshot EXCEPT ![p] = groups] /\ groups' = groups
      /\ nested' = (nested /\ PartitionsIdle /\ p \notin Range(stack))
      /\ stack' = IF nested' THEN Append(stack, p) ELSE <<>>
  BY Zenon DEF PartitionInject, view
<1>3. todo \in Seq(Node) /\ IsInjective(todo) /\ Range(todo) = Members(p)
  BY VisitsAll, Zenon
<1>4. PartitionCallOK(p, Calling("inject", todo))
  BY <1>3, InjectCall, Zenon
<1>5. /\ DOMAIN call' = Fault /\ call'[p] = Calling("inject", todo)
      /\ \A q \in Partitions \ {p} : call'[q] = call[q]
  BY <1>0, <1>1, OtherCalls, Zenon DEF NestTypes, Fault
<1>6. ASSUME stack' \in Seq(Partitions) PROVE NestTypes'
  <2>1. /\ groups' \in [Node -> GroupNames] /\ DOMAIN preSnapshot' = Partitions /\ nested' \in BOOLEAN
        /\ \A q \in Partitions : preSnapshot'[q] # NoSnapshot => preSnapshot'[q] \in [Node -> GroupNames]
    BY <1>0, <1>2, Zenon DEF NestTypes
  <2>2. \A q \in Partitions : PartitionCallOK(q, call'[q])
    BY <1>0, <1>4, <1>5, Zenon DEF NestTypes
  <2> QED BY <1>5, <1>6, <2>1, <2>2, Zenon DEF NestTypes, PartitionCallOK
<1>7. CASE ~nested'
  BY <1>2, <1>6, <1>7, EmptyStackStep, Zenon DEF NestInv
<1>8. CASE nested'
  <2>1. nested /\ PartitionsIdle /\ p \notin Range(stack) /\ stack' = Append(stack, p)
    BY <1>2, <1>8, Zenon
  <2>2. PICK K \in Nat : K = Len(stack) /\ DOMAIN stack = 1..K
    BY <1>0 DEF NestTypes
  <2>3. stack \in Seq(Partitions)
    BY <1>0, Zenon DEF NestTypes
  <2>4. /\ stack' \in Seq(Partitions) /\ stack' # <<>> /\ Len(stack') = K + 1 /\ stack'[K + 1] = p
        /\ \A i \in 1..K : stack'[i] = stack[i]
    BY <2>1, <2>2, <2>3
  <2>5. \A i \in 1..K : stack[i] \in Partitions /\ stack[i] # p
    BY <2>1, <2>2, <2>3 DEF Range
  <2>6. ASSUME NEW k \in 0..K, NEW n \in Node
        PROVE  HasLast(Claiming(k, n)') /\ Layered(k, n)' = Layered(k, n)
    <3>1. HasLast(Claiming(k, n))
      BY <1>0, <2>2, Zenon DEF LayersEnd
    <3>2. k \in Nat /\ \A i \in 1..k : stack'[i] = stack[i]
      BY <2>4
    <3> QED BY <3>1, <3>2, LayersBelow, Zenon
  <2>7. K \in 0..K /\ (K + 1) - 1 = K /\ K + 1 \in Nat /\ K + 1 # 0
    OBVIOUS
  <2>8. ASSUME NEW n \in Node
        PROVE  /\ HasLast(Claiming(K + 1, n)')
               /\ n \notin Members(p) => Layered(K + 1, n)' = Layered(K, n)'
    <3>1. HasLast(Claiming(K, n)')
      BY <2>6, <2>7, Zenon
    <3> QED BY <2>4, <2>7, <3>1, LayerOnTop, Zenon
  <2>9. \A q \in Partitions : call[q].op # "inject"
    BY <2>1, Zenon DEF PartitionsIdle
  <2>10. \A n : Moving(n)' <=> n \in Members(p)
    BY <1>0, <1>1, <1>3, <2>9, MovingOnly, Zenon DEF NestTypes
  <2>11. \A n \in Node : groups[n] = Layered(K, n)
    BY <2>1, <2>2, <2>9, Zenon DEF NestInv, Layout, Moving
  <2>12. Layout'
    BY <1>2, <2>4, <2>6, <2>7, <2>8, <2>10, <2>11, Zenon DEF Layout
  <2>13. Snapshots'
    <3> SUFFICES ASSUME NEW k \in 1..(K + 1), NEW n \in Node
                 PROVE  preSnapshot'[stack'[k]][n] = Layered(k - 1, n)'
      BY <2>4, Zenon DEF Snapshots
    <3>1. preSnapshot'[p] = groups /\ \A q \in Partitions \ {p} : preSnapshot'[q] = preSnapshot[q]
      BY <1>0, <1>2, Zenon DEF NestTypes
    <3>2. CASE k = K + 1
      BY <2>4, <2>6, <2>7, <2>11, <3>1, <3>2, Zenon
    <3>3. CASE k # K + 1
      <4>1. k \in 1..K /\ k - 1 \in 0..K
        BY <3>3
      <4>2. preSnapshot[stack[k]][n] = Layered(k - 1, n)
        BY <2>1, <2>2, <4>1, Zenon DEF NestInv, Snapshots
      <4> QED BY <2>4, <2>5, <2>6, <3>1, <4>1, <4>2, Zenon
    <3> QED BY <3>2, <3>3, Zenon
  <2>14. OnlyTopMoves'
    BY <1>5, <2>4, <2>9, Zenon DEF OnlyTopMoves
  <2>15. \A k \in 0..(K + 1) : k \in 0..K \/ k = K + 1
    OBVIOUS
  <2>16. LayersEnd'
    BY <2>4, <2>6, <2>8, <2>15, Zenon DEF LayersEnd, HasLast
  <2> QED BY <1>6, <2>4, <2>12, <2>13, <2>14, <2>16, Zenon DEF NestInv
<1> QED BY <1>7, <1>8, Zenon

LEMMA NestSetGroupStep ==
    ASSUME NestInv, NEW p \in Partitions, SetGroup(p)
    PROVE  NestInv'
<1> DEFINE t == call[p].todo  u == Tail(t)
<1>0. NestTypes /\ LayersEnd
  BY Zenon DEF NestInv
<1>1. PICK m : m = Head(t)
  BY Zenon
<1>2. /\ call[p].op = "inject" /\ groups' = [groups EXCEPT ![m] = GroupIn(p, m)]
      /\ call' = [call EXCEPT ![p] = Calling("inject", u)]
      /\ preSnapshot' = preSnapshot /\ stack' = stack /\ nested' = nested
  BY <1>1, Zenon DEF SetGroup
<1>3. t \in Seq(Node) /\ t # <<>> /\ IsInjective(t) /\ Range(t) \subseteq Members(p)
  BY <1>0, <1>2, Zenon DEF NestTypes, PartitionCallOK
<1>4. /\ u \in Seq(Node) /\ IsInjective(u) /\ m \in Node /\ m \in Members(p) /\ m \notin Range(u)
      /\ Range(u) \subseteq Range(t) /\ Range(t) \subseteq {m} \cup Range(u)
  <2> HIDE DEF t
  <2> QED BY <1>1, <1>3, RangeTail, TailInjective, Zenon
<1>5. GroupIn(p, m) \in GroupNames
  BY <1>4, GroupInNames, Zenon
<1> HIDE DEF t, u
<1>6. PartitionCallOK(p, Calling("inject", u))
  BY <1>3, <1>4, InjectCall, Zenon
<1>7. /\ DOMAIN call' = Fault /\ call'[p] = Calling("inject", u)
      /\ \A q \in Partitions \ {p} : call'[q] = call[q]
  BY <1>0, <1>2, OtherCalls, Zenon DEF NestTypes, Fault
<1>8. /\ groups' \in [Node -> GroupNames] /\ groups'[m] = GroupIn(p, m)
      /\ \A n \in Node \ {m} : groups'[n] = groups[n]
  BY <1>0, <1>2, <1>4, <1>5, Zenon DEF NestTypes
<1>9. \A k, n : Claiming(k, n)' = Claiming(k, n) /\ Layered(k, n)' = Layered(k, n)
  BY <1>2, Zenon DEF Layered, Claiming
<1>10. NestTypes'
  <2>1. \A q \in Partitions : PartitionCallOK(q, call'[q])
    <3>1. \A q \in Partitions : PartitionCallOK(q, call[q])
      BY <1>0, Zenon DEF NestTypes
    <3> QED BY <1>6, <1>7, <3>1, Zenon
  <2>2. /\ DOMAIN preSnapshot' = Partitions /\ stack' \in Seq(Partitions) /\ nested' \in BOOLEAN
        /\ \A q \in Partitions : preSnapshot'[q] # NoSnapshot => preSnapshot'[q] \in [Node -> GroupNames]
    BY <1>0, <1>2, Zenon DEF NestTypes
  <2>3. DOMAIN call' = Fault /\ groups' \in [Node -> GroupNames]
    BY <1>7, <1>8, Zenon
  <2> QED BY <2>1, <2>2, <2>3, Zenon DEF NestTypes, PartitionCallOK
<1>11. LayersEnd'
  BY <1>0, <1>2, <1>9, Zenon DEF LayersEnd, HasLast
<1>12. ASSUME nested PROVE Snapshots' /\ OnlyTopMoves' /\ Layout'
  <2>0. Snapshots /\ OnlyTopMoves /\ Layout
    BY <1>12, Zenon DEF NestInv
  <2>1. stack # <<>> /\ stack[Len(stack)] = p /\ stack \in Seq(Partitions)
    BY <1>0, <1>2, <2>0, Zenon DEF OnlyTopMoves, NestTypes
  <2>2. PICK K \in Nat : K = Len(stack) /\ K # 0
    BY <2>1, EmptyLen
  <2>3. \A q \in Partitions \ {p} : call[q].op # "inject"
    BY <2>0, <2>1, Zenon DEF OnlyTopMoves
  <2>4. \A n : Moving(n)' <=> n \in Range(u)
    BY <1>0, <1>2, <1>4, <2>3, MovingOnly, Zenon DEF NestTypes
  <2>5. \A n : Moving(n) <=> n \in Range(t)
    BY <1>2, <2>3, Zenon DEF Moving, t
  <2>6. Layered(K, m)' = GroupIn(p, m)
    <3>1. K - 1 \in 0..Len(stack)
      BY <2>2
    <3>2. HasLast(Claiming(K - 1, m)')
      BY <1>0, <1>4, <1>9, <3>1, Zenon DEF LayersEnd
    <3>3. stack'[K] = p
      BY <1>2, <2>1, <2>2, Zenon
    <3> QED BY <1>4, <2>2, <3>2, <3>3, LayerOnTop, Zenon
  <2>7. ASSUME NEW n \in Node
        PROVE  groups'[n] = Layered(IF Moving(n) THEN Len(stack) - 1 ELSE Len(stack), n)'
    <3>1. groups[n] = Layered(IF Moving(n) THEN K - 1 ELSE K, n)
      BY <2>0, <2>2, Zenon DEF Layout
    <3>2. CASE n = m
      BY <1>2, <1>4, <1>8, <2>2, <2>4, <2>6, <3>2, Zenon
    <3>3. CASE n # m
      BY <1>2, <1>4, <1>8, <1>9, <2>2, <2>4, <2>5, <3>1, <3>3
    <3> QED BY <3>2, <3>3, Zenon
  <2>8. OnlyTopMoves'
    BY <1>2, <1>7, <2>1, <2>3, Zenon DEF OnlyTopMoves
  <2>9. Snapshots'
    BY <1>2, <1>9, <2>0, Zenon DEF Snapshots
  <2> QED BY <2>7, <2>8, <2>9, Zenon DEF Layout
<1> QED BY <1>2, <1>10, <1>11, <1>12, Zenon DEF NestInv

LEMMA NestRevertStep ==
    ASSUME NestInv, NEW p \in Partitions, PartitionRevert(p)
    PROVE  NestInv'
<1>0. NestTypes /\ LayersEnd
  BY Zenon DEF NestInv
<1>1. /\ groups' = IF preSnapshot[p] = NoSnapshot THEN groups ELSE preSnapshot[p]
      /\ nested' = (nested /\ \/ preSnapshot[p] = NoSnapshot
                              \/ PartitionsIdle /\ stack # <<>> /\ stack[Len(stack)] = p)
      /\ stack' = IF nested' /\ preSnapshot[p] # NoSnapshot THEN SubSeq(stack, 1, Len(stack) - 1)
                  ELSE IF nested' THEN stack ELSE <<>>
      /\ preSnapshot' = preSnapshot /\ call' = call
  BY Zenon DEF PartitionRevert, restoreGroups
<1>2. ASSUME stack' \in Seq(Partitions) PROVE NestTypes'
  BY <1>0, <1>1, <1>2, Zenon DEF NestTypes, PartitionCallOK
<1>3. CASE ~nested'
  BY <1>1, <1>2, <1>3, EmptyStackStep, Zenon DEF NestInv
<1>4. CASE nested' /\ preSnapshot[p] = NoSnapshot
  <2>1. nested /\ stack' = stack /\ groups' = groups
    BY <1>1, <1>4, Zenon
  <2>2. UNCHANGED <<groups, preSnapshot, stack, nested>> /\ DOMAIN call' = Fault
    BY <1>0, <1>1, <1>4, <2>1, Zenon DEF NestTypes
  <2> QED BY <1>1, <2>2, NestFrameStep, Zenon
<1>5. CASE nested' /\ preSnapshot[p] # NoSnapshot
  <2>1. /\ nested /\ PartitionsIdle /\ stack # <<>> /\ stack[Len(stack)] = p
        /\ stack' = SubSeq(stack, 1, Len(stack) - 1) /\ groups' = preSnapshot[p]
    BY <1>1, <1>5, Zenon
  <2>2. stack \in Seq(Partitions)
    BY <1>0, Zenon DEF NestTypes
  <2>3. PICK K \in Nat : K + 1 = Len(stack)
    <3>1. Len(stack) \in Nat /\ Len(stack) # 0
      BY <2>1, <2>2, EmptyLen
    <3>2. Len(stack) - 1 \in Nat /\ (Len(stack) - 1) + 1 = Len(stack)
      BY <3>1
    <3> QED BY <3>2, Zenon
  <2>4. /\ stack' \in Seq(Partitions) /\ Len(stack') = K
        /\ \A i \in 1..K : stack'[i] = stack[i]
    BY <2>1, <2>2, <2>3
  <2>5. ASSUME NEW k \in 0..K, NEW n \in Node
        PROVE  HasLast(Claiming(k, n)') /\ Layered(k, n)' = Layered(k, n)
    <3>1. k \in 0..Len(stack) /\ k \in Nat
      BY <2>3
    <3>2. HasLast(Claiming(k, n))
      BY <1>0, <3>1, Zenon DEF LayersEnd
    <3>3. \A i \in 1..k : stack'[i] = stack[i]
      BY <2>4
    <3> QED BY <3>1, <3>2, <3>3, LayersBelow, Zenon
  <2>6. \A q \in Partitions : call'[q].op # "inject"
    BY <1>1, <2>1, Zenon DEF PartitionsIdle
  <2>7. \A n : ~Moving(n)'
    BY <2>6, Zenon DEF Moving
  <2>8. \A k \in 1..(K + 1), n \in Node : preSnapshot[stack[k]][n] = Layered(k - 1, n)
    BY <2>1, <2>3, Zenon DEF NestInv, Snapshots
  <2>9. K \in 0..K /\ K + 1 \in 1..(K + 1) /\ (K + 1) - 1 = K
    OBVIOUS
  <2>10. Layout'
    <3>1. \A n \in Node : groups'[n] = Layered(K, n)
      BY <2>1, <2>3, <2>8, <2>9, Zenon
    <3> QED BY <2>4, <2>5, <2>7, <2>9, <3>1, Zenon DEF Layout
  <2>11. Snapshots'
    <3> SUFFICES ASSUME NEW k \in 1..K, NEW n \in Node
                 PROVE  preSnapshot'[stack'[k]][n] = Layered(k - 1, n)'
      BY <2>4, Zenon DEF Snapshots
    <3>1. k \in 1..(K + 1) /\ k - 1 \in 0..K
      OBVIOUS
    <3> QED BY <1>1, <2>4, <2>5, <2>8, <3>1
  <2>12. LayersEnd'
    BY <2>4, <2>5, Zenon DEF LayersEnd, HasLast
  <2>13. OnlyTopMoves'
    BY <2>6, Zenon DEF OnlyTopMoves
  <2> QED BY <1>2, <2>4, <2>10, <2>11, <2>12, <2>13, Zenon DEF NestInv
<1> QED BY <1>3, <1>4, <1>5, Zenon

LEMMA NestStep ==
    ASSUME NestInv, [Next]_vars
    PROVE  NestInv'
<1> USE FaultsAssumption
<1>0. DOMAIN call = Fault
  BY Zenon DEF NestInv, NestTypes
<1>1. ASSUME NEW f \in Fault \ Partitions, UNCHANGED <<groups, preSnapshot, stack, nested>>,
             call' = call \/ \E x : call' = [call EXCEPT ![f] = x]
      PROVE  NestInv'
  <2>1. DOMAIN call' = Fault /\ \A p \in Partitions : call'[p] = call[p]
    BY <1>0, <1>1, OtherCalls, Zenon DEF Fault
  <2> QED BY <1>1, <2>1, NestFrameStep, Zenon
<1>2. ASSUME NEW s \in SplitBrains,
             \/ SplitBrainInject(s) \/ SavePrevious(s) \/ SetRoleOverride(s)
             \/ SplitBrainRevert(s) \/ ClearRoleOverride(s)
      PROVE  NestInv'
  <2>1. UNCHANGED <<groups, preSnapshot, stack, nested>> /\ \E x : call' = [call EXCEPT ![s] = x]
    BY <1>2, Zenon
      DEF SplitBrainInject, SavePrevious, SetRoleOverride, SplitBrainRevert, ClearRoleOverride, view
  <2> QED BY <2>1, <1>1, Zenon DEF Fault
<1>3. ASSUME NEW q \in QuorumLosses,
             QuorumInject(q) \/ QuorumRevert(q) \/ Isolate(q) \/ IsolateFails(q) \/ Reconnect(q)
      PROVE  NestInv'
  <2>1. UNCHANGED <<groups, preSnapshot, stack, nested>> /\ \E x : call' = [call EXCEPT ![q] = x]
    BY <1>3, Zenon DEF QuorumInject, QuorumRevert, Isolate, IsolateFails, Reconnect, NextVoter, view
  <2> QED BY <2>1, <1>1, Zenon DEF Fault
<1>4. ASSUME UNCHANGED <<groups, preSnapshot, stack, nested, call>> PROVE NestInv'
  BY <1>0, <1>4, NestFrameStep, Zenon
<1>5. ASSUME NEW f \in Storms, StormInject(f) \/ StormRevert(f) PROVE NestInv'
  BY <1>4, <1>5, Zenon DEF StormInject, StormRevert, view
<1>6. ASSUME NEW i, Deadline(i) \/ LoopReturns(i) \/ LoopTicks(i) \/ Probe(i) \/ Signal(i)
      PROVE  NestInv'
  BY <1>4, <1>6, Zenon DEF Deadline, LoopReturns, LoopTicks, Probe, Signal, LoopOnly, view
<1>7. ASSUME NEW n, SetRealRole(n) PROVE NestInv'
  BY <1>4, <1>7, Zenon DEF SetRealRole
<1>8. CASE UNCHANGED vars
  BY <1>4, <1>8, Zenon DEF vars, view
<1> QED BY <1>2, <1>3, <1>5, <1>6, <1>7, <1>8, NestInjectStep, NestSetGroupStep, NestRevertStep, Zenon
        DEF Next, PartitionCall, SplitBrainCall, QuorumCall, StormCall, RoleCall, Work

\* For any number of partitions over any nodes: as long as they nest, the layout is
\* that of the partitions in force, the later over the earlier.
THEOREM NestedPartitionsCompose == Spec => []PartitionsCompose
<1>1. Init => NestInv
  <2> SUFFICES ASSUME Init PROVE NestInv
    BY Zenon
  <2>1. /\ DOMAIN call = Fault /\ groups = Default /\ DOMAIN preSnapshot = Partitions
        /\ stack = <<>> /\ nested = TRUE
        /\ \A p \in Partitions : preSnapshot[p] = NoSnapshot /\ call[p].op = "idle"
    BY Zenon DEF Init, Fault, Idle
  <2>2. Len(stack) = 0 /\ stack \in Seq(Partitions) /\ groups \in [Node -> GroupNames]
    BY <2>1 DEF Default, GroupNames
  <2>3. NestTypes
    BY <2>1, <2>2, Zenon DEF NestTypes, PartitionCallOK
  <2>4. \A n : Claiming(0, n) = {}
    BY DEF Claiming
  <2>5. \A n : Layered(0, n) = "default"
    BY <2>4, Zenon DEF Layered
  <2>6. \A n : ~Moving(n)
    BY <2>1, Zenon DEF Moving
  <2>7. LayersEnd
    BY <2>2, <2>4 DEF LayersEnd, HasLast
  <2>8. Snapshots /\ OnlyTopMoves
    BY <2>1, <2>2 DEF Snapshots, OnlyTopMoves
  <2>9. Layout
    BY <2>1, <2>2, <2>5, <2>6, Zenon DEF Layout, Default
  <2> QED BY <2>3, <2>7, <2>8, <2>9, Zenon DEF NestInv
<1>2. NestInv => PartitionsCompose
  BY Zenon DEF NestInv, Layout, PartitionsCompose, PartitionsIdle, Moving
<1> QED BY <1>1, <1>2, NestStep, PTL DEF Spec

-----------------------------------------------------------------------------
(* Node faults                                                             *)

\* The effects that faults injected or being healed answer for.
Owed == {Causes(k) : k \in Range(injected) \cup Range(healing)}

\* EffectsOwned is not inductive: a SIGTERM still to take effect must be answered
\* for as well, and so must the next kill of a crash loop.
OwedInv ==
    /\ Coming(backend) \subseteq lost \cup Owed
    /\ loop.pc # "none" => "crash_loop" \in Range(injected) \cup Range(healing)

NodeInv == NodeTypeOK /\ OwedInv

-----------------------------------------------------------------------------
(* Sequences                                                               *)

LEMMA RangeAppend ==
    ASSUME NEW S, NEW s \in Seq(S), NEW e \in S
    PROVE  Append(s, e) \in Seq(S) /\ Range(Append(s, e)) = Range(s) \cup {e}
<1>1. DOMAIN Append(s, e) = 1..(Len(s) + 1) /\ DOMAIN s = 1..Len(s) /\ Len(s) \in Nat
  OBVIOUS
<1>2. \A i \in 1..(Len(s) + 1) : Append(s, e)[i] = IF i = Len(s) + 1 THEN e ELSE s[i]
  OBVIOUS
<1>3. Len(s) + 1 \in 1..(Len(s) + 1) /\ 1..(Len(s) + 1) = 1..Len(s) \cup {Len(s) + 1}
  BY <1>1
<1> QED BY <1>1, <1>2, <1>3 DEF Range

-----------------------------------------------------------------------------
(* Commands                                                                *)

States == [eff : SUBSET Effects, drain : BOOLEAN, first : BOOLEAN]

LoopStates == [pc : {"none", "select", "kill", "wait", "start", "ended"}, done : BOOLEAN]

LEMMA CausesEffect == \A k : Causes(k) \in Effects
BY Zenon DEF Causes, Effects

LEMMA KillEffect ==
    ASSUME NEW b \in States
    PROVE  Kill(b) \in States /\ Coming(Kill(b)) \subseteq Coming(b) \cup {"down"}
<1> DEFINE E == (b.eff \ {"frozen"}) \cup {"down"}
<1>1. E \in SUBSET Effects /\ E \subseteq b.eff \cup {"down"}
  BY Zenon DEF States, Effects
<1>2. Kill(b) = [b EXCEPT !.eff = E, !.drain = FALSE]
  BY Zenon DEF Kill
<1> HIDE DEF E
<1>3. Kill(b) \in States /\ Kill(b).eff = E /\ Kill(b).drain = FALSE
  BY <1>1, <1>2, Zenon DEF States
<1> QED BY <1>1, <1>3, Zenon DEF Coming

\* A command adds nothing to what the node suffers from but its own effect.
LEMMA DoesEffect ==
    ASSUME NEW op, NEW e \in Effects, NEW b \in States, NEW c \in Does(op, e, b),
           op \in {"Kill", "Term"} => e = "down"
    PROVE  c \in States /\ Coming(c) \subseteq Coming(b) \cup {e}
<1>1. CASE op \in {"Kill", "Term"}
  <2>1. c \in {Kill(b), [b EXCEPT !.drain = TRUE], b}
    BY <1>1, Zenon DEF Does
  <2>2. e = "down" /\ [b EXCEPT !.drain = TRUE] \in States
        /\ Coming([b EXCEPT !.drain = TRUE]) \subseteq Coming(b) \cup {e}
    BY <1>1, Zenon DEF Coming, States
  <2> QED BY <2>1, <2>2, KillEffect, Zenon
<1>2. CASE op = "Start"
  <2>1. c \in {b, Restart(b)}
    BY <1>2, Zenon DEF Does
  <2>2. Restart(b) \in States /\ Coming(Restart(b)) \subseteq Coming(b)
    BY Zenon DEF Restart, Coming, States
  <2> QED BY <2>1, <2>2, Zenon
<1>3. CASE op = "Freeze"
  BY <1>3 DEF Does, Coming, States
<1>4. CASE op = "Thaw"
  BY <1>4 DEF Does, Coming, States
<1>5. CASE op \in {"Exec", "ExecUndo"}
  BY <1>5 DEF Does, UndoExec, Coming, States
<1>6. CASE op \in {"LimitCPU", "LimitMemory"}
  BY <1>6 DEF Does, Coming, States
<1>7. CASE op \notin {"Kill", "Term", "Start", "Freeze", "Thaw", "Exec", "ExecUndo", "LimitCPU",
                      "LimitMemory"}
  BY <1>7 DEF Does, Coming, States
<1> QED BY <1>1, <1>2, <1>3, <1>4, <1>5, <1>6, <1>7, Zenon

LEMMA CommandEffect ==
    ASSUME NEW op, NEW e \in Effects, NEW ok, backend \in States, Command(op, e, ok),
           op \in {"Kill", "Term"} => e = "down"
    PROVE  backend' \in States /\ Coming(backend') \subseteq Coming(backend) \cup {e}
<1>1. CASE backend' \in Does(op, e, backend)
  BY <1>1, DoesEffect, Zenon
<1>2. CASE backend' = backend
  BY <1>2, Zenon
<1> QED BY <1>1, <1>2, Zenon DEF Command

LEMMA InjectPair == \A k : InjectOp(k) \in {"Kill", "Term"} => Causes(k) = "down"
BY Zenon DEF InjectOp, Causes

LEMMA RevertPair == \A k : RevertOp(k) \notin {"Kill", "Term"}
BY Zenon DEF RevertOp

\* A Revert adds nothing; one that succeeds and is not Ineffective removes the
\* effect of its fault.
LEMMA RevertEffect ==
    ASSUME NEW k, NEW ok, backend \in States, Command(RevertOp(k), Causes(k), ok)
    PROVE  /\ Coming(backend') \subseteq Coming(backend)
           /\ ok /\ ~Ineffective(k) => Causes(k) \notin Coming(backend')
<1>1. ASSUME NEW c \in Does(RevertOp(k), Causes(k), backend)
      PROVE  /\ Coming(c) \subseteq Coming(backend)
             /\ ~Ineffective(k) => Causes(k) \notin Coming(c)
  <2>1. CASE k \in {"crash", "shutdown", "crash_loop"}
    <3>1. RevertOp(k) = "Start" /\ Causes(k) = "down"
      BY <2>1, Zenon DEF RevertOp, Causes
    <3> QED BY <3>1, <1>1 DEF Does, Restart, Up, Coming, States, Ineffective
  <2>2. CASE k = "zombie"
    <3>1. RevertOp(k) = "Thaw" /\ Causes(k) = "frozen"
      BY <2>2, Zenon DEF RevertOp, Causes
    <3> QED BY <3>1, <1>1 DEF Does, Coming, States
  <2>3. CASE k \in {"cpu_throttle", "oom"}
    <3>1. RevertOp(k) = "Unlimit" /\ Causes(k) \in {"cpu", "memory"}
      BY <2>3, Zenon DEF RevertOp, Causes
    <3> QED BY <3>1, <1>1 DEF Does, Coming, States
  <2>4. CASE k \notin {"crash", "shutdown", "crash_loop", "zombie", "cpu_throttle", "oom"}
    <3>1. RevertOp(k) = "ExecUndo" /\ Causes(k) \in {"clock", "io", "disk"}
          /\ (Causes(k) = "clock" => k = "clock_skew")
      BY <2>4, Zenon DEF RevertOp, Causes
    <3> QED BY <3>1, <1>1 DEF Does, UndoExec, Coming, States, Ineffective
  <2> QED BY <2>1, <2>2, <2>3, <2>4, Zenon
<1>2. CASE backend' \in Does(RevertOp(k), Causes(k), backend)
  BY <1>1, <1>2, Zenon
<1>3. CASE ~ok /\ backend' = backend
  BY <1>3, Zenon
<1> QED BY <1>2, <1>3, Zenon DEF Command

-----------------------------------------------------------------------------
(* The invariant                                                           *)

\* What Leave(E) makes of the effects to be answered for.
LEMMA LeaveOwed ==
    ASSUME OwedInv, NEW E \in SUBSET Effects, Leave(E), backend' \in States,
           Coming(backend') \subseteq Coming(backend) \cup E \cup Owed',
           Owed \subseteq Owed' \cup E \cup (Effects \ Coming(backend')),
           loop'.pc # "none" => "crash_loop" \in Range(injected') \cup Range(healing')
    PROVE  OwedInv' /\ lost' \subseteq Effects
<1>1. Coming(backend') \subseteq Effects
  BY Zenon DEF Coming, States, Effects
<1>2. lost' = (lost \cup E) \cap Coming(backend')
  BY Zenon DEF Leave
<1> QED BY <1>1, <1>2, Zenon DEF OwedInv

LEMMA NodeStep ==
    ASSUME NodeInv, [NodeNext]_nodeVars
    PROVE  NodeInv'
<1>0. backend \in States /\ injected \in Seq(Kinds) /\ healing \in Seq(Kinds) /\ OwedInv
  BY Zenon DEF NodeInv, NodeTypeOK, States
<1>1. ASSUME NEW k \in Kinds, Inject(k) PROVE NodeInv'
  <2>1. PICK ok \in BOOLEAN :
          /\ Command(InjectOp(k), Causes(k), ok)
          /\ injected' = IF ok THEN Append(injected, k) ELSE injected
          /\ Leave(IF ok \/ backend' = backend THEN {} ELSE {Causes(k)})
    BY <1>1, Zenon DEF Inject
  <2>2. backend' \in States /\ Coming(backend') \subseteq Coming(backend) \cup {Causes(k)}
    BY <1>0, <2>1, CommandEffect, CausesEffect, InjectPair
  <2>3. UNCHANGED <<driver, healing, loop>>
    BY <1>1, Zenon DEF Inject
  <2>4. injected' \in Seq(Kinds) /\ Range(injected') = Range(injected) \cup IF ok THEN {k} ELSE {}
    <3>1. Append(injected, k) \in Seq(Kinds) /\ Range(Append(injected, k)) = Range(injected) \cup {k}
      BY <1>0, RangeAppend
    <3>2. CASE ok
      BY <3>1, <3>2, <2>1, Zenon
    <3>3. CASE ~ok
      <4>1. injected' = injected
        BY <3>3, <2>1, Zenon
      <4> QED BY <1>0, <3>3, <4>1, Zenon
    <3> QED BY <3>2, <3>3, Zenon
  <2>5. Owed \subseteq Owed' /\ (ok => Causes(k) \in Owed')
    BY <2>3, <2>4, Zenon DEF Owed
  <2>6. OwedInv' /\ lost' \subseteq Effects
    <3> DEFINE E == IF ok \/ backend' = backend THEN {} ELSE {Causes(k)}
    <3>1. E \in SUBSET Effects /\ Leave(E)
      BY <2>1, CausesEffect, Zenon
    <3>2. Coming(backend') \subseteq Coming(backend) \cup E \cup Owed'
      BY <2>2, <2>5, Zenon
    <3>3. loop'.pc # "none" => "crash_loop" \in Range(injected') \cup Range(healing')
      BY <1>0, <2>3, <2>4, Zenon DEF OwedInv
    <3> HIDE DEF E
    <3> QED BY <1>0, <2>2, <2>5, <3>1, <3>2, <3>3, LeaveOwed, Zenon
  <2> QED BY <2>2, <2>3, <2>4, <2>6, Zenon DEF NodeInv, NodeTypeOK, States
<1>2. CASE Heal
  <2>1. healing' = injected /\ injected' = <<>> /\ UNCHANGED <<driver, backend, loop, lost>>
        /\ healing = <<>>
    BY <1>2, Zenon DEF Heal
  <2>2. Range(<<>>) = {}
    BY DEF Range
  <2>3. Owed' = Owed /\ Range(injected') \cup Range(healing') = Range(injected) \cup Range(healing)
    BY <2>1, <2>2, Zenon DEF Owed
  <2>4. OwedInv'
    BY <1>0, <2>1, <2>3, Zenon DEF OwedInv
  <2> QED BY <1>0, <2>1, <2>4, Zenon DEF NodeInv, NodeTypeOK
<1>3. CASE healing # <<>> /\ healing' = Tail(healing) /\ UNCHANGED <<driver, injected>>
           /\ (\E ok \in BOOLEAN :
                 /\ Command(RevertOp(Head(healing)), Causes(Head(healing)), ok)
                 /\ Leave(IF ok /\ ~Ineffective(Head(healing)) THEN {} ELSE {Causes(Head(healing))}))
           /\ \/ UNCHANGED loop /\ Head(healing) # "crash_loop"
              \/ loop' = [pc |-> "none", done |-> FALSE]
  <2> DEFINE k == Head(healing)
  <2>1. PICK ok \in BOOLEAN :
          /\ Command(RevertOp(k), Causes(k), ok)
          /\ Leave(IF ok /\ ~Ineffective(k) THEN {} ELSE {Causes(k)})
    BY <1>3, Zenon
  <2>2. /\ Tail(healing) \in Seq(Kinds) /\ k \in Kinds
        /\ Range(healing) \subseteq {k} \cup Range(Tail(healing))
    BY <1>0, <1>3, RangeTail, Zenon
  <2>3. backend' \in States
    BY <1>0, <2>1, CommandEffect, CausesEffect, RevertPair, Zenon
  <2>4. /\ Coming(backend') \subseteq Coming(backend)
        /\ ok /\ ~Ineffective(k) => Causes(k) \notin Coming(backend')
    BY <1>0, <2>1, RevertEffect, Zenon
  <2>5. Owed \subseteq Owed' \cup {Causes(k)}
    BY <2>2, <1>3, Zenon DEF Owed
  <2>6. OwedInv' /\ lost' \subseteq Effects
    <3> DEFINE E == IF ok /\ ~Ineffective(k) THEN {} ELSE {Causes(k)}
    <3>1. E \in SUBSET Effects /\ Leave(E)
      BY <2>1, CausesEffect, Zenon
    <3>2. Owed \subseteq Owed' \cup E \cup (Effects \ Coming(backend'))
      BY <2>4, <2>5, CausesEffect, Zenon
    <3>3. loop'.pc # "none" => "crash_loop" \in Range(injected') \cup Range(healing')
      BY <1>0, <1>3, <2>2 DEF OwedInv
    <3> HIDE DEF E
    <3> QED BY <1>0, <2>3, <2>4, <3>1, <3>2, <3>3, LeaveOwed, Zenon
  <2>7. loop' \in LoopStates
    <3>1. loop \in LoopStates /\ [pc |-> "none", done |-> FALSE] \in LoopStates
      BY Zenon DEF NodeInv, NodeTypeOK, LoopStates
    <3>2. loop' = loop \/ loop' = [pc |-> "none", done |-> FALSE]
      BY <1>3, Zenon
    <3> QED BY <3>1, <3>2, Zenon
  <2>8. driver' \in driverFor /\ injected' \in Seq(Kinds)
    <3>1. driver' = driver /\ injected' = injected
      BY <1>3, Zenon
    <3> QED BY <3>1, <1>0, Zenon DEF NodeInv, NodeTypeOK, driverFor
  <2>9. healing' \in Seq(Kinds)
    <3>1. healing' = Tail(healing)
      BY <1>3, Zenon
    <3> QED BY <3>1, <2>2, Zenon
  <2> QED BY <2>3, <2>6, <2>7, <2>8, <2>9, Zenon DEF NodeInv, NodeTypeOK, States, LoopStates
<1>4. CASE Revert
  BY <1>3, <1>4, Zenon DEF Revert
<1>5. CASE RevertLoop
  <2>1. RevertOp("crash_loop") = "Start" /\ Causes("crash_loop") = "down"
    BY Zenon DEF RevertOp, Causes
  <2> QED BY <2>1, <1>3, <1>5, Zenon DEF RevertLoop
<1>6. CASE InjectLoop /\ "crash_loop" \in Kinds
  <2>1. injected' \in Seq(Kinds) /\ Range(injected') = Range(injected) \cup {"crash_loop"}
    BY <1>0, <1>6, RangeAppend DEF InjectLoop
  <2>2. UNCHANGED <<driver, backend, healing, lost>> /\ loop' = [pc |-> "select", done |-> FALSE]
    BY <1>6, Zenon DEF InjectLoop
  <2>3. Owed \subseteq Owed'
    BY <2>1, <2>2, Zenon DEF Owed
  <2>4. OwedInv'
    BY <1>0, <2>1, <2>2, <2>3, Zenon DEF OwedInv
  <2> QED BY <2>1, <2>2, <2>4, Zenon DEF NodeInv, NodeTypeOK
<1>7. CASE LoopDeadline \/ LoopDone \/ LoopGoesOn \/ CancelLoop
  <2>1. UNCHANGED <<driver, backend, injected, healing, lost>>
    BY <1>7, Zenon DEF LoopDeadline, LoopDone, LoopGoesOn, CancelLoop
  <2>2. /\ loop' \in [pc : {"none", "select", "kill", "wait", "start", "ended"}, done : BOOLEAN]
        /\ loop'.pc # "none" => loop.pc # "none"
    BY <1>7, Zenon DEF LoopDeadline, LoopDone, LoopGoesOn, CancelLoop, NodeInv, NodeTypeOK
  <2>3. OwedInv'
    BY <1>0, <2>1, <2>2, Zenon DEF OwedInv, Owed
  <2> QED BY <2>1, <2>2, <2>3, Zenon DEF NodeInv, NodeTypeOK
<1>8. ASSUME NEW pc \in {"kill", "start"}, NEW op \in {"Kill", "Start"},
             NEW next \in {"wait", "select"}, LoopCommand(pc, op, next)
      PROVE  NodeInv'
  <2>1. backend' \in States /\ Coming(backend') \subseteq Coming(backend) \cup {"down"}
    <3>1. ASSUME NEW ok \in BOOLEAN, Command(op, "down", ok)
          PROVE  backend' \in States /\ Coming(backend') \subseteq Coming(backend) \cup {"down"}
      BY <1>0, <3>1, CommandEffect, Zenon DEF Effects
    <3> QED BY <1>0, <1>8, <3>1, Zenon DEF LoopCommand
  <2>2. UNCHANGED <<driver, injected, healing>> /\ Leave({}) /\ loop.pc = pc
        /\ loop' = [loop EXCEPT !.pc = next]
    BY <1>8, Zenon DEF LoopCommand
  <2>3. "crash_loop" \in Range(injected') \cup Range(healing') /\ Owed' = Owed
    BY <1>0, <2>2, Zenon DEF OwedInv, Owed
  <2>4. "down" \in Owed'
    BY <2>2, <2>3, Zenon DEF Owed, Causes
  <2>5. OwedInv' /\ lost' \subseteq Effects
    BY <1>0, <2>1, <2>2, <2>3, <2>4, LeaveOwed, Zenon
  <2> QED BY <2>1, <2>2, <2>5, Zenon DEF NodeInv, NodeTypeOK, States
<1>9. CASE Exit \/ OOMKill
  <2>1. backend' \in States /\ Coming(backend') \subseteq Coming(backend) \cup {"down"}
    BY <1>0, <1>9, KillEffect, Zenon DEF Exit, OOMKill
  <2>2. UNCHANGED <<driver, injected, healing, loop>>
    BY <1>9, Zenon DEF Exit, OOMKill
  <2>3. PICK E \in SUBSET Effects : Leave(E) /\ Coming(backend') \subseteq Coming(backend) \cup E
    <3>1. CASE Exit
      BY <1>0, <2>1, <3>1, Zenon DEF Exit, Coming, States
    <3>2. CASE OOMKill
      BY <2>1, <3>2, Zenon DEF OOMKill, Effects
    <3> QED BY <1>9, <3>1, <3>2, Zenon
  <2>4. OwedInv' /\ lost' \subseteq Effects
    BY <1>0, <2>1, <2>2, <2>3, LeaveOwed, Zenon DEF OwedInv, Owed
  <2> QED BY <2>1, <2>2, <2>4, Zenon DEF NodeInv, NodeTypeOK, States
<1>10. CASE NodeNext
  BY <1>1, <1>2, <1>4, <1>5, <1>6, <1>7, <1>8, <1>9, <1>10, Zenon
     DEF NodeNext, InjectSome, Reverting, CrashLoop
<1>11. CASE UNCHANGED nodeVars
  BY <1>0, <1>11, Zenon DEF nodeVars, NodeInv, NodeTypeOK, OwedInv, Owed
<1> QED BY <1>10, <1>11, Zenon

LEMMA NodeInitInv == NodeInit => NodeInv
<1>1. Range(<<>>) = {}
  BY DEF Range
<1> QED BY <1>1 DEF NodeInit, NodeInv, NodeTypeOK, OwedInv, Owed, Running, Coming

\* On any target, whatever fails and however a heal races a crash loop, what is
\* wrong with the node has a fault that a heal will revert, or was given up on.
THEOREM FaultsOwned == NodeSpec => []EffectsOwned
<1>1. NodeInv => EffectsOwned
  BY Zenon DEF NodeInv, OwedInv, Owed, Coming, EffectsOwned
<1> QED BY <1>1, NodeInitInv, NodeStep, PTL DEF NodeSpec

\* Node, crash loop, lists and history stay in their ranges.
THEOREM NodeTypeCorrect == NodeSpec => []NodeTypeOK
<1>1. NodeInv => NodeTypeOK
  BY Zenon DEF NodeInv
<1> QED BY <1>1, NodeInitInv, NodeStep, PTL DEF NodeSpec

\* A target that Load accepts has a driver: a node fault is refused for want of a
\* driver only on a node without a target.
THEOREM ValidTargetsHaveDrivers ==
    \A t : Validate(t) => newDriver(t) # NoDriver
BY Zenon DEF Validate, newDriver, NoDriver
=============================================================================
