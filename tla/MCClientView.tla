---------------------------- MODULE MCClientView ----------------------------
(* What clients see of a faulty cluster.  A behaviour is about one part:   *)
(* the bytes on the wire, stale reads, the consistency checker, or rows.   *)
EXTENDS MCConnFaults, StaleReads, ConsistencyChecker, DataFaults

CONSTANT Parts    \* the parts to explore

VARIABLE part

viewVars == <<mcVars, readVars, checkVars, dataVars, part>>

ViewInit ==
    /\ MCInit /\ ReadInit /\ CheckInit /\ DataInit
    /\ part \in Parts
    /\ part # "wire" => chain = CHOOSE c \in Chains : TRUE
    /\ part # "checker" => routed = [c \in Clients |-> CHOOSE r \in Replicas : TRUE]

ViewNext ==
    /\ UNCHANGED part
    /\ \/ part = "wire" /\ MCNext /\ UNCHANGED <<readVars, checkVars, dataVars>>
       \/ part = "stale" /\ ReadNext /\ UNCHANGED <<mcVars, checkVars, dataVars>>
       \/ part = "checker" /\ CheckNext /\ UNCHANGED <<mcVars, readVars, dataVars>>
       \/ part = "rows" /\ DataNext /\ UNCHANGED <<mcVars, readVars, checkVars>>

ViewSpec == ViewInit /\ [][ViewNext]_viewVars
=============================================================================
