----------------------------- MODULE MCSessions -----------------------------
(* A behaviour is one of the clients' sessions through the proxy, or one   *)
(* of the sessions that the workload faults have with the database.        *)
EXTENDS MCProxySession, MCWorkload

SessionsInit == MCInit /\ MCWorkInit

SessionsNext ==
    \/ cast = {} /\ MCNext /\ UNCHANGED mcWorkVars
    \/ cast # {} /\ MCWorkNext /\ UNCHANGED mcVars

\* Fairness of ProxySession, in the behaviours that are about it.
ProxyFairness ==
    /\ \A o \in Operator : WF_vars(cast = {} /\ severConns(o))
    /\ \A s \in Session : WF_vars(cast = {} /\ Handler(s))
    /\ \A s \in Session, d \in Side : WF_vars(cast = {} /\ Leg(s, d))

SessionsSpec ==
    /\ SessionsInit /\ [][SessionsNext]_<<mcVars, mcWorkVars>>
    /\ ProxyFairness /\ WorkFairness
=============================================================================
