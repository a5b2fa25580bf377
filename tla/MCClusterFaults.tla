-------------------------- MODULE MCClusterFaults ---------------------------
(* TopologyFaults and NodeFaults with a bounded number of calls.  A        *)
(* behaviour exercises one kind of topology fault, or the node faults of   *)
(* one node.  The kinds write no state in common; storms read the roles    *)
(* split brains override, and SetRealRole changes those as freely.         *)
EXTENDS TopologyFaults, NodeFaults, TLC

CONSTANTS MaxCalls,   \* Inject, Revert and SetRealRole calls of a topology fault
          MaxLoops,   \* Injects of a storm among them
          MaxInjects, \* node faults injected
          Families    \* the kinds of behaviour to explore

VARIABLES calls, kind

mcVars == <<vars, nodeVars, calls, kind>>

ThreeNodes == <<"a", "b", "c">>

\* p2 cuts across p1 and shares the name of a group with it.
TwoPartitions ==
    "p1" :> ("left" :> <<"a">> @@ "right" :> <<"b", "c">>) @@
    "p2" :> ("left" :> <<"b">> @@ "rest" :> <<"a">>)

OverlappingLeaders == "s1" :> <<"a", "b">> @@ "s2" :> <<"b">>

\* Every driver: by pid and by pid file, with and without a start command, ssh
\* around a unit, and targets that are rejected.
EveryTarget ==
    LET unit == Target("systemd", "name", FALSE, <<>>) IN
    {Target("process", id, start, <<>>) : id \in {"", "pid", "pid_file"}, start \in BOOLEAN} \cup
    {Target("docker", "name", FALSE, <<>>), unit, Target("ssh", "name", FALSE, <<unit>>),
     Target("ssh", "name", FALSE, <<>>), Target("", "", FALSE, <<>>)}

MCInit ==
    /\ Init /\ NodeInit /\ calls = 0 /\ kind \in Families
    /\ kind # "node" => driver = NoDriver

Call ==
    /\ calls < MaxCalls
    /\ calls' = calls + 1
    /\ UNCHANGED nodeVars
    /\ \/ kind = "partition" /\ PartitionCall
       \/ kind = "quorum" /\ QuorumCall
       \/ kind = "split" /\ (SplitBrainCall \/ RoleCall)
       \/ kind = "storm" /\ (StormCall \/ RoleCall) /\ Len(loops') <= MaxLoops

NodeCall ==
    /\ kind = "node" /\ calls < MaxInjects
    /\ calls' = calls + 1
    /\ InjectSome
    /\ UNCHANGED vars

NodeWork ==
    /\ Heal \/ Reverting \/ CrashLoop \/ LoopDeadline \/ Exit \/ OOMKill
    /\ UNCHANGED <<vars, calls>>

MCNext ==
    /\ UNCHANGED kind
    /\ Call \/ NodeCall \/ NodeWork \/ (UNCHANGED <<calls, nodeVars>> /\ Work)

Other == <<calls, kind, nodeVars>>
NodeOther == <<vars, calls, kind>>

\* The deadline passes, commands return, and a select with a ready Done does not
\* take the ticker for ever: it chooses at random.
MCFairness ==
    /\ \A i \in 1..MaxLoops :
          /\ WF_mcVars(Deadline(i) /\ UNCHANGED Other)
          /\ WF_mcVars((Probe(i) \/ Signal(i)) /\ UNCHANGED Other)
          /\ SF_mcVars(LoopReturns(i) /\ UNCHANGED Other)
    /\ WF_mcVars(Reverting /\ UNCHANGED NodeOther)
    /\ WF_mcVars(LoopDeadline /\ UNCHANGED NodeOther)
    /\ WF_mcVars(CrashLoop /\ UNCHANGED NodeOther)
    /\ SF_mcVars(LoopDone /\ UNCHANGED NodeOther)

MCSpec == MCInit /\ [][MCNext]_mcVars /\ MCFairness

\* Every loop of a storm ends, Reverted or not: also the one whose cancel function
\* was overwritten by a second Inject.
StormsEnd == <>[](\A i \in DOMAIN loops : InLoop(i, "returned"))
=============================================================================
