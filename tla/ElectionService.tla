--------------------------- MODULE ElectionService --------------------------
(***************************************************************************)
(* What the election promises its users, without votes or messages: a      *)
(* register of election results, written at most once per term, and for    *)
(* each node a view <<term, leader>> of it that only moves forward.        *)
(***************************************************************************)
EXTENDS Integers

CONSTANTS Node, None

VARIABLES
    elected,     \* the <<term, node>> results announced so far
    viewTerm,    \* the term each node is in
    viewLeader   \* the leader it knows for that term, or None

view == <<elected, viewTerm, viewLeader>>

Init ==
    /\ elected = {}
    /\ viewTerm = [n \in Node |-> 0]
    /\ viewLeader = [n \in Node |-> None]

See(n, t, l) ==
    /\ viewTerm' = [viewTerm EXCEPT ![n] = t]
    /\ viewLeader' = [viewLeader EXCEPT ![n] = l]

\* Forward: to a later term, or from not knowing this term's leader.
Forward(n, t) ==
    t > viewTerm[n] \/ (t = viewTerm[n] /\ viewLeader[n] = None)

\* n is elected in a term that has no leader yet, and is the first to know.
Elect(n, t) ==
    /\ Forward(n, t)
    /\ \A e \in elected : e[1] # t
    /\ elected' = elected \cup {<<t, n>>}
    /\ See(n, t, n)

\* n learns the result of term t.
Learn(n, t, l) ==
    /\ Forward(n, t)
    /\ <<t, l>> \in elected
    /\ See(n, t, l)
    /\ UNCHANGED elected

\* n enters a later term without knowing who leads it.
Advance(n, t) ==
    /\ t > viewTerm[n]
    /\ See(n, t, None)
    /\ UNCHANGED elected

\* The term moved to is whatever the step makes it, so it is read off the
\* next state rather than drawn from the infinite set of terms.
Next ==
    \E n \in Node :
        \/ Elect(n, viewTerm'[n])
        \/ Advance(n, viewTerm'[n])
        \/ \E l \in Node : Learn(n, viewTerm'[n], l)

Spec == Init /\ [][Next]_view
=============================================================================
