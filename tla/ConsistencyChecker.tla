------------------------- MODULE ConsistencyChecker -------------------------
(***************************************************************************)
(* InMemoryConsistencyChecker of internal/faults/consistency.go and the    *)
(* faults that provoke what it looks for: a writing client, clients that   *)
(* read at the replica they are routed to, and replicas that lag.          *)
(*                                                                         *)
(* One key, every write of a value of its own: a value is the number of    *)
(* the write, 0 the value before all of them.  The writes of one client    *)
(* are sequential, and so are the operations of each reader; a call takes  *)
(* its time.Now() before it has the checker's lock.  The database, the     *)
(* routing and the clients, which call RecordRead, are external.           *)
(***************************************************************************)
EXTENDS Naturals, Sequences, Functions

CONSTANTS
    Clients,
    Writer,     \* the client that writes
    Replicas,
    MaxWrites,  \* bounds on the writes,
    MaxTicks    \* and on the operations

ASSUME WriterAssumption == Writer \in Clients

VARIABLES
    committed,   \* the number of the last committed write
    applied,     \* replica -> the last write it has
    ticks,       \* the clock behind time.Now()
    routed,      \* client -> the replica it reads at
    doing,       \* client -> its operation
    writes,      \* the checker's writes[key]
    clientReads, \* client -> the checker's clientReads
    violations,  \* the checker's: <<type, client, number of the read>>
    switching,   \* MonotonicReadFault.Provoke waits for SwitchAfter
    \* History:
    missed,      \* client -> its reads that missed its own last write
    hidden       \* clients that have read a value no recorded write has

checkVars == <<committed, applied, ticks, routed, doing, writes, clientReads, violations,
               switching, missed, hidden>>

Idle == [op |-> "idle"]

CheckInit ==
    /\ committed = 0 /\ applied = [r \in Replicas |-> 0]
    /\ ticks = 0
    /\ routed \in [Clients -> Replicas]
    /\ doing = [c \in Clients |-> Idle]
    /\ writes = <<>> /\ clientReads = [c \in Clients |-> <<>>] /\ violations = {}
    /\ switching = {}
    /\ missed = [c \in Clients |-> {}] /\ hidden = {}

Replicate(r) ==
    /\ applied[r] < committed
    /\ applied' = [applied EXCEPT ![r] = @ + 1]
    /\ UNCHANGED <<committed, ticks, routed, doing, writes, clientReads, violations,
                   switching, missed, hidden>>

\* An operation stamps what it is about to record.
Stamped(c, op, v) ==
    /\ ticks < MaxTicks
    /\ ticks' = ticks + 1
    /\ doing' = [doing EXCEPT ![c] = [op |-> op, value |-> v, at |-> ticks]]

-----------------------------------------------------------------------------
(* ReadYourWritesFault, MonotonicReadFault                                 *)

\* Provoke's write, and the time.Now() of its RecordWrite.
ProvokeWrite(c) ==
    /\ c = Writer /\ doing[c] = Idle /\ committed < MaxWrites
    /\ committed' = committed + 1
    /\ Stamped(c, "write", committed + 1)
    /\ UNCHANGED <<applied, routed, writes, clientReads, violations, switching, missed,
                   hidden>>

\* RecordWrite, then the client is routed to the replica that lags.
RecordWrite(c, r) ==
    /\ doing[c].op = "write"
    /\ writes' = Append(writes, [value |-> doing[c].value, at |-> doing[c].at])
    /\ routed' = [routed EXCEPT ![c] = r]
    /\ doing' = [doing EXCEPT ![c] = Idle]
    /\ UNCHANGED <<committed, applied, ticks, clientReads, violations, switching, missed,
                   hidden>>

\* MonotonicReadFault.Provoke: the fresher replica now, the other after SwitchAfter
\* unless the context ends first.
ProvokeMonotonic(c, a, b) ==
    /\ switching = {}
    /\ routed' = [routed EXCEPT ![c] = a]
    /\ switching' = {<<c, b>>}
    /\ UNCHANGED <<committed, applied, ticks, doing, writes, clientReads, violations,
                   missed, hidden>>

Switch ==
    /\ \E w \in switching : routed' \in {routed, [routed EXCEPT ![w[1]] = w[2]]}
    /\ switching' = {}
    /\ UNCHANGED <<committed, applied, ticks, doing, writes, clientReads, violations,
                   missed, hidden>>

-----------------------------------------------------------------------------
(* The checker                                                             *)

ClientReads(c) ==
    /\ doing[c] = Idle
    /\ Stamped(c, "read", applied[routed[c]])
    /\ UNCHANGED <<committed, applied, routed, writes, clientReads, violations, switching,
                   missed, hidden>>

\* The write with the latest stamp not after the read, the first of equal ones.
lastWriteBefore(at) ==
    LET before == {i \in DOMAIN writes : writes[i].at <= at} IN
    {i \in before : \A j \in before :
        writes[j].at < writes[i].at \/ (writes[j].at = writes[i].at /\ i <= j)}

\* The first recorded write of v, 0 when it is not found.
writeIndexOf(v) ==
    LET I == {i \in DOMAIN writes : writes[i].value = v} IN
    IF I = {} THEN 0 ELSE CHOOSE i \in I : \A j \in I : i <= j

\* Mutant: a read is compared with the client's first one.
WentBackFromFirst(c, v) ==
    /\ clientReads[c] # <<>>
    /\ writeIndexOf(v) # 0 /\ writeIndexOf(v) < writeIndexOf(Head(clientReads[c]))

WentBack(c, v) ==
    LET seen == clientReads[c] IN
    /\ seen # <<>>
    /\ writeIndexOf(v) # 0 /\ writeIndexOf(v) < writeIndexOf(seen[Len(seen)])

RecordRead(c) ==
    LET v == doing[c].value
        n == Len(clientReads[c]) + 1
        own == {w.value : w \in Range(writes)} IN
    /\ doing[c].op = "read"
    /\ violations' = violations
          \cup {<<"read_your_writes", c, n>> : i \in {i \in lastWriteBefore(doing[c].at) :
                                                      writes[i].value # v}}
          \cup (IF WentBack(c, v) THEN {<<"monotonic_read", c, n>>} ELSE {})
    /\ clientReads' = [clientReads EXCEPT ![c] = Append(@, v)]
    /\ doing' = [doing EXCEPT ![c] = Idle]
    /\ missed' = IF \E w \in own : w > v THEN [missed EXCEPT ![c] = @ \cup {n}] ELSE missed
    /\ hidden' = IF v \in own THEN hidden ELSE hidden \cup {c}
    /\ UNCHANGED <<committed, applied, ticks, routed, writes, switching>>

CheckNext ==
    \/ Switch
    \/ \E r \in Replicas : Replicate(r) \/ (\E c \in Clients : RecordWrite(c, r))
    \/ \E c \in Clients : ProvokeWrite(c) \/ ClientReads(c) \/ RecordRead(c)
    \/ \E c \in Clients, a, b \in Replicas : ProvokeMonotonic(c, a, b)

CheckSpec == CheckInit /\ [][CheckNext]_checkVars

-----------------------------------------------------------------------------
(* Properties                                                              *)

Reported(type, c) == {n \in 1..Len(clientReads[c]) : <<type, c, n>> \in violations}

\* The checker's verdicts against what the guarantees say.  The client that writes is
\* reported for read-your-writes at just the reads that missed its last write; and a
\* client all of whose reads returned recorded writes is reported for monotonic-read
\* if and only if one of its reads is older than an earlier one, though only
\* neighbours are compared.
VerdictsExact ==
    /\ Reported("read_your_writes", Writer) = missed[Writer]
    /\ \A c \in Clients \ hidden :
          (Reported("monotonic_read", c) # {}) <=>
              \E i, j \in DOMAIN clientReads[c] : i < j /\ clientReads[c][j] < clientReads[c][i]
=============================================================================
