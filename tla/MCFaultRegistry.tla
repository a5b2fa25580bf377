--------------------------- MODULE MCFaultRegistry --------------------------
(* FaultRegistry with a bounded number of mutations.                       *)
EXTENDS FaultRegistry

CONSTANT MaxGen    \* generations in a run

MCNext ==
    \/ gen < MaxGen /\ Mutate
    \/ \E f \in driving : TickerReturns(f)
    \/ \E c \in Conn : Pump(c)

MCSafety == RegistryInit /\ [][MCNext]_proxyVars

\* The time-varying instances a bounded run can make.
Instance == [name : Varying, id : 0..(MaxGen - 1)]

MCFairness == \A f \in Instance : WF_proxyVars(TickerReturns(f))

MCSpec == MCSafety /\ MCFairness

\* The ticking goroutine of a fault no longer registered ends, and does not
\* outlive its fault as a leak (registry.go's stopTickerLocked).
RetiredTickersEnd ==
    \A f \in Instance : (f \in driving /\ f \notin connFaults) ~> (f \notin driving)
=============================================================================
