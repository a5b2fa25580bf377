----------------------------- MODULE MCWorkload -----------------------------
(* WorkloadFaults with a few calls at a time.                              *)
EXTENDS WorkloadFaults, TLC

CONSTANT Casts    \* the sets of calls that run together

VARIABLE cast

mcWorkVars == <<workVars, cast>>

SevenInjects ==
    "p1" :> "pool_exhaustion" @@ "p2" :> "pool_exhaustion" @@ "d" :> "deadlock" @@
    "l" :> "lock_contention" @@ "m" :> "mid_tx_failover" @@
    "b1" :> "backup_window" @@ "b2" :> "backup_window"

MCWorkInit == WorkInit /\ cast \in Casts

MCWorkNext ==
    /\ UNCHANGED cast
    /\ \/ \E c \in cast : Step(c) \/ CtxDone(c) \/ PoolTimer(c)
       \/ \E t \in open : CtxRollback(t)
       \/ Release
       \/ cast = Backups /\ \E w \in Writes : ClientWrites(w)

\* Some goroutine that can go on does, timers fire and contexts end.  No step of a
\* call can be repeated, so each gets to the end of what it can do.
WorkFairness ==
    WF_mcWorkVars(UNCHANGED cast /\ \E c \in cast : Step(c) \/ PoolTimer(c) \/ CtxDone(c))
=============================================================================
