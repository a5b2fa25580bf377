----------------------------- MODULE MCRaftSim ------------------------------
(* RaftSim on a small cluster.  Bounded: the terms, and the link changes.  *)
EXTENDS RaftSim

CONSTANTS
    n1, n2, n3,   \* the members
    MaxTerm,      \* no node starts an election beyond this term
    MaxChanges    \* link changes in a run

MCNode == {n1, n2, n3}
MCOrder == <<n1, n2, n3>>

VARIABLE changes

mcVars == <<simVars, changes>>

MCInit == SimInit /\ changes = 0

Bounded(n) == TimesOut(n) => term[n] < MaxTerm

Change ==
    \/ \E A, B \in SUBSET Node : A # {} /\ B # {} /\ A \cap B = {} /\ Partition(A, B)
    \/ \E n \in Node : Isolate(n)
    \/ \E f, t \in Node : f # t /\ BlockOneWay(f, t)
    \/ HealLinks

MCNext ==
    \/ BeginTick /\ UNCHANGED changes
    \/ Deliver /\ UNCHANGED changes
    \/ Drop /\ UNCHANGED changes
    \/ turn > 0 /\ Bounded(Order[turn]) /\ TickInTurn /\ UNCHANGED changes
    \/ changes < MaxChanges /\ changes' = changes + 1 /\ Change

MCSpec == MCInit /\ [][MCNext]_mcVars
=============================================================================
