-------------------------- MODULE MCScenarioEngine --------------------------
(* ScenarioEngine with a bounded number of calls.                          *)
EXTENDS ScenarioEngine, TLC

CONSTANTS MaxMade,    \* faults created in a run
          MaxUndo     \* heals and removals in a run

VARIABLE undone

mcVars == <<vars, undone>>

MCInit == Init /\ undone = 0

MCNext ==
    \/ made < MaxMade /\ UNCHANGED undone /\ \E c \in Caller : Create(c)
    \/ undone < MaxUndo /\ undone' = undone + 1 /\ \E c \in Caller : Undo(c)
    \/ UNCHANGED undone /\ \E c \in Caller : Work(c)
    \/ UNCHANGED undone /\ \E t \in timers : Expire(t) \/ ExpireNodeFault(t)
    \/ UNCHANGED undone /\ \E r \in reverting : Reverted(r) \/ RevertFails(r)

MCSafety == MCInit /\ [][MCNext]_mcVars

Made == 0..(MaxMade - 1)

TimerSet == [node : Node, name : ProxyFault \cup NodeFault, id : Made, proc : BOOLEAN]
RevertSet == [node : Node, name : NodeFault, id : Made] \X (Caller \cup {"timer"})

MCFairness ==
    /\ \A t \in TimerSet : WF_mcVars(TimerFires(t) /\ UNCHANGED undone)
    /\ \A r \in RevertSet : WF_mcVars(RevertEnds(r) /\ UNCHANGED undone)

MCSpec == MCSafety /\ MCFairness

\* config.go on ForMs: a fault with a window is removed by the engine on its own.
\* From the moment the call begins, its fault is eventually gone for good from
\* every node it reached: even if the call fails half-way, is healed, replaced or
\* raced by other calls and timers.
TimedFaultsEnd == \A i \in Made : Windowed(i) ~> []Gone(i)

=============================================================================
