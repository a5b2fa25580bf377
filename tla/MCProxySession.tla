--------------------------- MODULE MCProxySession ---------------------------
(* ProxySession with a bounded number of control calls.                    *)
EXTENDS ProxySession, TLC

CONSTANT MaxCalls    \* control calls in a run

VARIABLE calls

mcVars == <<vars, calls>>

MCInit == Init /\ calls = 0

MCNext ==
    \/ \E o \in Operator : /\ calls < MaxCalls /\ calls' = calls + 1
                           /\ Control(o)
    \/ UNCHANGED calls /\ \E o \in Operator : severConns(o)
    \/ UNCHANGED calls /\ \E s \in Session : Accept(s) \/ Handler(s)
    \/ /\ UNCHANGED calls
       /\ \E s \in Session, d \in Side :
            \/ ReadChunk(s, d) \/ DropChunk(s, d) \/ SwallowChunk(s, d)
            \/ Leg(s, d) \/ PeerCloses(s, d)

MCSafety == MCInit /\ [][MCNext]_mcVars

MCSpec == MCSafety /\ Fairness

Symmetry == Permutations(Session) \cup Permutations(Operator)
=============================================================================
