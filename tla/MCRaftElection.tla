--------------------------- MODULE MCRaftElection ---------------------------
(* RaftElection on small clusters.  Terms are bounded; nothing else is.    *)
EXTENDS RaftElection, TLC

CONSTANT MaxTerm    \* no node starts an election beyond this term

Bounded(n) == TimesOut(n) => term[n] < MaxTerm

MCNext ==
    \/ \E n \in Node : Bounded(n) /\ Tick(n)
    \/ \E m \in msgs : Step(m)

MCSpec == ElectionInit /\ [][MCNext]_vars

Symmetry == Permutations(Node)
=============================================================================
