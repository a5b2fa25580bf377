--------------------------- MODULE WorkloadFaults ---------------------------
(***************************************************************************)
(* The faults of internal/faults/workload.go, which run transactions of    *)
(* their own against the database.  Several Injects run at once, each      *)
(* with a context that may end.  The pool-exhaustion calls are on one      *)
(* PoolExhaustionFault, the backup calls on one BackupWindowFault, and all *)
(* of them share one SQLDBSession.                                         *)
(*                                                                         *)
(* External, as the code uses them: the connection pool of database/sql    *)
(* (BeginTx blocks while the pool is full, and a transaction is rolled     *)
(* back when its context ends), and the row locks of the database (FOR     *)
(* UPDATE waits, a cycle is broken by failing a waiter, an error aborts).  *)
(***************************************************************************)
EXTENDS Naturals, FiniteSets

CONSTANTS
    Injects,          \* the calls of Inject
    FaultOf,          \* call -> the fault's name
    MaxOpen,          \* the pool's limit
    HoldConnections,  \* PoolExhaustionFault
    HoldTimed,        \* HoldFor > 0
    DBFails,          \* whether statements may fail for other reasons
    Writes            \* rows that clients write to the table under backup

VARIABLES
    at,        \* call -> its next step
    done,      \* calls whose context has ended
    open,      \* transactions that hold a connection
    lock,      \* row -> the transaction that has it locked
    broken,    \* transactions that a crash of the primary has ended on its side
    mu,        \* PoolExhaustionFault.mu
    txs,       \* PoolExhaustionFault.txs
    watching,  \* calls whose goroutine waits for HoldFor or their context
    side,      \* deadlock call -> how far its two goroutines are
    table,     \* the rows of the table under backup
    snapshot,  \* BackupWindowFault.snapshot
    \* History:
    acked,     \* writes the database has acknowledged
    window     \* backup call -> the writes made since its snapshot

poolVars == <<mu, txs, watching>>
dbVars == <<open, lock, broken>>
backupVars == <<table, snapshot, acked, window>>
workVars == <<at, done, dbVars, poolVars, side, backupVars>>

Row == {"A", "B"}
Nobody == <<>>
Free == "free"
IsFault(c, f) == FaultOf[c] = f
Backups == {c \in Injects : IsFault(c, "backup_window")}
Deadlocks == {c \in Injects : IsFault(c, "deadlock")}

FirstStep(f) ==
    CASE f = "pool_exhaustion" -> "Lock" [] f = "backup_window" -> "SnapshotTable"
      [] OTHER -> "Begin"

WorkInit ==
    /\ at = [c \in Injects |-> FirstStep(FaultOf[c])]
    /\ done = {}
    /\ open = {} /\ lock = [r \in Row |-> Nobody] /\ broken = {}
    /\ mu = Free /\ txs = {} /\ watching = {}
    /\ side = [c \in Deadlocks |-> [s \in {1, 2} |-> "first"]]
    /\ table = {} /\ snapshot = {}
    /\ acked = {} /\ window = [c \in Backups |-> {}]

\* The caller's context ends.
CtxDone(c) ==
    /\ c \notin done
    /\ done' = done \cup {c}
    /\ UNCHANGED <<at, dbVars, poolVars, side, backupVars>>

-----------------------------------------------------------------------------
(* The database session                                                    *)

Goto(c, step) == at' = [at EXCEPT ![c] = step]
Tx(c, i) == <<c, i>>

\* SQLDBSession.Begin
Begin(c, i) ==
    /\ c \notin done
    /\ Cardinality(open) < MaxOpen
    /\ open' = open \cup {Tx(c, i)}
    /\ UNCHANGED broken
BeginFails(c) == c \in done \/ DBFails \/ broken # {}

Unlocked(T) == [r \in Row |-> IF lock[r] \in T THEN Nobody ELSE lock[r]]

Rollback(T) == open' = open \ T /\ lock' = Unlocked(T) /\ UNCHANGED broken

\* The row that a transaction's statement locks or waits for.
Wants(t) ==
    LET c == t[1] IN
    CASE IsFault(c, "deadlock") /\ at[c] = "Locks" ->
           (CASE side[c][t[2]] = "first" -> {IF t[2] = 1 THEN "A" ELSE "B"}
              [] side[c][t[2]] = "second" -> {IF t[2] = 1 THEN "B" ELSE "A"}
              [] OTHER -> {})
      [] at[c] = "Exec" -> {"A"}
      [] OTHER -> {}

WaitsFor(t, u) == t # u /\ \E r \in Wants(t) : lock[r] = u

\* With two rows a cycle has two transactions.
Deadlocked(t) == \E u \in open : WaitsFor(t, u) /\ WaitsFor(u, t)

\* SELECT ... FOR UPDATE or UPDATE: it has the row, or it fails.
Exec(t) ==
    /\ t \in open \ broken /\ t[1] \notin done
    /\ \E r \in Wants(t) :
          /\ lock[r] \in {Nobody, t}
          /\ lock' = [lock EXCEPT ![r] = t]
    /\ UNCHANGED <<open, broken>>
ExecFails(t) == t[1] \in done \/ t \notin open \ broken \/ Deadlocked(t) \/ DBFails

\* database/sql ends a transaction whose context has ended.
CtxRollback(t) ==
    /\ t[1] \in done
    /\ Rollback({t})
    /\ UNCHANGED <<at, done, poolVars, side, backupVars>>

-----------------------------------------------------------------------------
(* PoolExhaustionFault                                                     *)

PoolLock(c) ==
    /\ at[c] = "Lock" /\ mu = Free
    /\ mu' = c
    /\ Goto(c, "PoolBegin")
    /\ UNCHANGED <<done, dbVars, txs, watching, side, backupVars>>

Held(c) == Cardinality({t \in txs : t[1] = c})

\* One turn of the loop, which goes on with mu held while Begin blocks; the result
\* of "SELECT 1" is ignored.
PoolBegin(c) ==
    /\ at[c] = "PoolBegin" /\ Held(c) < HoldConnections
    /\ Begin(c, Held(c))
    /\ txs' = txs \cup {Tx(c, Held(c))}
    /\ UNCHANGED <<at, done, lock, mu, watching, side, backupVars>>

\* Mutant: an error of Begin returns with mu locked.
PoolReturnLocked(c) ==
    /\ at[c] = "PoolBegin" /\ (Held(c) = HoldConnections \/ BeginFails(c))
    /\ watching' = IF HoldTimed THEN watching \cup {c} ELSE watching
    /\ mu' = IF Held(c) = HoldConnections THEN Free ELSE mu
    /\ Goto(c, "returned")
    /\ UNCHANGED <<done, dbVars, txs, side, backupVars>>

\* The loop is over, or Begin returned an error: start the goroutine, return.
PoolReturn(c) ==
    /\ at[c] = "PoolBegin" /\ (Held(c) = HoldConnections \/ BeginFails(c))
    /\ watching' = IF HoldTimed THEN watching \cup {c} ELSE watching
    /\ mu' = Free
    /\ Goto(c, "returned")
    /\ UNCHANGED <<done, dbVars, txs, side, backupVars>>

release ==
    /\ mu = Free
    /\ Rollback(txs)
    /\ txs' = {}

\* HoldFor is over, or the context: whatever txs holds by now is released.
PoolTimer(c) ==
    /\ c \in watching
    /\ release
    /\ watching' = watching \ {c}
    /\ UNCHANGED <<at, done, mu, side, backupVars>>

Release ==
    /\ txs # {}
    /\ release
    /\ UNCHANGED <<at, done, mu, watching, side, backupVars>>

-----------------------------------------------------------------------------
(* DeadlockFault, LockContentionFault, MidTxFailoverFault                  *)

BeginFirst(c) ==
    /\ at[c] = "Begin"
    /\ \/ /\ Begin(c, 1)
          /\ Goto(c, IF IsFault(c, "deadlock") THEN "BeginB" ELSE "Exec")
       \/ /\ BeginFails(c)
          /\ Goto(c, "returned")
          /\ UNCHANGED <<open, broken>>
    /\ UNCHANGED <<done, lock, poolVars, side, backupVars>>

\* Mutant: a failed Begin of txB leaves txA open.
BeginBLeaking(c) ==
    /\ at[c] = "BeginB"
    /\ \/ Begin(c, 2) /\ Goto(c, "Locks") /\ UNCHANGED lock
       \/ BeginFails(c) /\ Goto(c, "returned") /\ UNCHANGED dbVars
    /\ UNCHANGED <<done, poolVars, side, backupVars>>

BeginB(c) ==
    /\ at[c] = "BeginB"
    /\ \/ Begin(c, 2) /\ Goto(c, "Locks") /\ UNCHANGED lock
       \/ BeginFails(c) /\ Goto(c, "returned") /\ Rollback({Tx(c, 1)})
    /\ UNCHANGED <<done, poolVars, side, backupVars>>

\* The goroutine of txA (s = 1) or txB (s = 2): its row, then the other's.
SideExec(c, s) ==
    LET t == Tx(c, s) IN
    /\ IsFault(c, "deadlock") /\ at[c] = "Locks" /\ Wants(t) # {}
    /\ \/ /\ Exec(t)
          /\ side' = [side EXCEPT ![c][s] = IF @ = "first" THEN "second" ELSE "nil"]
       \/ /\ ExecFails(t)
          /\ lock' = Unlocked({t}) /\ UNCHANGED <<open, broken>>
          /\ side' = [side EXCEPT ![c][s] = "error"]
    /\ UNCHANGED <<at, done, poolVars, backupVars>>

\* Both results are in.
DeadlockReturn(c) ==
    /\ IsFault(c, "deadlock") /\ at[c] = "Locks"
    /\ \A s \in {1, 2} : side[c][s] \in {"nil", "error"}
    /\ Rollback({Tx(c, 1), Tx(c, 2)})
    /\ Goto(c, "returned")
    /\ UNCHANGED <<done, poolVars, side, backupVars>>

\* The lock of lock_contention, the write of mid_tx_failover.
ExecOne(c) ==
    LET t == Tx(c, 1) IN
    /\ at[c] = "Exec"
    /\ \/ Exec(t) /\ Goto(c, "Hold")
       \/ ExecFails(t) /\ Rollback({t}) /\ Goto(c, "returned")
    /\ UNCHANGED <<done, poolVars, side, backupVars>>

\* HoldFor is over, or the context.
HoldReturn(c) ==
    /\ at[c] = "Hold" /\ IsFault(c, "lock_contention")
    /\ Rollback({Tx(c, 1)})
    /\ Goto(c, "returned")
    /\ UNCHANGED <<done, poolVars, side, backupVars>>

\* The primary is killed, and its locks with it: the transaction is never ended
\* here.  If the crash failed it is rolled back.
Crash(c) ==
    /\ at[c] = "Hold" /\ IsFault(c, "mid_tx_failover")
    /\ \/ /\ broken' = open /\ lock' = [r \in Row |-> Nobody] /\ UNCHANGED open
          /\ Goto(c, "crashed")
       \/ Rollback({Tx(c, 1)}) /\ Goto(c, "returned")
    /\ UNCHANGED <<done, poolVars, side, backupVars>>

-----------------------------------------------------------------------------
(* BackupWindowFault                                                       *)

ClientWrites(w) ==
    /\ w \notin acked
    /\ table' = table \cup {w} /\ acked' = acked \cup {w}
    /\ window' = [c \in Backups |-> IF at[c] = "Window" THEN window[c] \cup {w} ELSE window[c]]
    /\ UNCHANGED <<at, done, dbVars, poolVars, side, snapshot>>

\* Mutant: the snapshot that is restored is the one of the first Inject.
SnapshotOnce(c) ==
    /\ at[c] = "SnapshotTable"
    /\ \/ /\ snapshot' = IF \E d \in Backups : at[d] # "SnapshotTable" THEN snapshot ELSE table
          /\ Goto(c, "Window")
       \/ BeginFails(c) /\ Goto(c, "returned") /\ UNCHANGED snapshot
    /\ UNCHANGED <<done, dbVars, poolVars, side, table, acked, window>>

SnapshotTable(c) ==
    /\ at[c] = "SnapshotTable"
    /\ \/ snapshot' = table /\ Goto(c, "Window")
       \/ BeginFails(c) /\ Goto(c, "returned") /\ UNCHANGED snapshot
    /\ UNCHANGED <<done, dbVars, poolVars, side, table, acked, window>>

\* OpenFor is over, or the context: the restore runs all the same, and may fail.
RestoreTable(c) ==
    /\ at[c] = "Window"
    /\ \/ table' = snapshot /\ Goto(c, "restored")
       \/ BeginFails(c) /\ UNCHANGED table /\ Goto(c, "returned")
    /\ UNCHANGED <<done, dbVars, poolVars, side, snapshot, acked, window>>

-----------------------------------------------------------------------------
Step(c) ==
    \/ PoolLock(c) \/ PoolBegin(c) \/ PoolReturn(c)
    \/ BeginFirst(c) \/ BeginB(c) \/ (\E s \in {1, 2} : SideExec(c, s)) \/ DeadlockReturn(c)
    \/ ExecOne(c) \/ HoldReturn(c) \/ Crash(c)
    \/ SnapshotTable(c) \/ RestoreTable(c)

WorkNext ==
    \/ \E c \in Injects : Step(c) \/ CtxDone(c) \/ PoolTimer(c)
    \/ \E t \in open : CtxRollback(t)
    \/ Release
    \/ \E w \in Writes : ClientWrites(w)

WorkSpec == WorkInit /\ [][WorkNext]_workVars

-----------------------------------------------------------------------------
(* Properties                                                              *)

Returned(c) == at[c] \in {"returned", "crashed", "restored"}

\* No interleaving of calls, timers and ends of contexts leaves a transaction, and
\* the connection under it, that nobody will end: its Inject is running, or the
\* pool fault holds it for release, or it is the one mid_tx_failover leaves to its
\* context on purpose.
TxAccounted ==
    \A t \in open : ~Returned(t[1]) \/ t \in txs \/ at[t[1]] = "crashed"

\* A restore loses only writes of its own backup window, even when windows overlap
\* and share the fault's one snapshot: an acknowledged write that is gone was made
\* between the snapshot and the restore of one call.
LostInWindow ==
    \A w \in acked \ table : \E c \in Backups : at[c] = "restored" /\ w \in window[c]

\* An Inject returns once contexts have ended, whoever holds the connections, the
\* row locks or the mutex it waits for: the two goroutines of a deadlock of which
\* one side has both rows, and the call that waits for mu with no regard for its
\* own context, included.
InjectsReturn == <>[](\A c \in done : Returned(c))
=============================================================================
