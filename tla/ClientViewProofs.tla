-------------------------- MODULE ClientViewProofs --------------------------
(***************************************************************************)
(* What clients see of a faulty cluster, for any clients, replicas,        *)
(* sessions, queries, rows, calls and pool size.  The consistency          *)
(* checker's verdicts are those of the guarantees it checks                *)
(* (VerdictsExact).  Replies are paired with their queries (ServedPaired). *)
(* An odd number of flipped bytes shows (CorruptionShows).  No             *)
(* interleaving of workload faults leaves a transaction that nobody will   *)
(* end (TxAccounted), and a restore loses only writes of its own backup    *)
(* window (LostInWindow).                                                  *)
(***************************************************************************)
EXTENDS ConsistencyChecker, StaleReads, DataFaults, WorkloadFaults, TLAPS

-----------------------------------------------------------------------------
(* The consistency checker                                                 *)

Entry == [value : Nat, at : Nat]
Operation == [op : {"read", "write"}, value : Nat, at : Nat]

CheckTypes ==
    /\ committed \in Nat /\ ticks \in Nat
    /\ applied \in [Replicas -> Nat] /\ \A r \in Replicas : applied[r] <= committed
    /\ routed \in [Clients -> Replicas] /\ switching \subseteq Clients \X Replicas
    /\ doing \in [Clients -> {Idle} \cup Operation]
    /\ writes \in Seq(Entry)
    /\ clientReads \in [Clients -> Seq(Nat)]
    /\ missed \in [Clients -> SUBSET Nat]

\* The recorded writes, numbered from 1 in the order of their stamps.  While the
\* writer has a write to record that is the latest, and while it reads there is
\* none: its read is stamped after all of them.
WriteLog ==
    /\ \A i \in 1..Len(writes) : writes[i].value = i /\ writes[i].at < ticks
    /\ \A i, j \in 1..Len(writes) : i < j => writes[i].at < writes[j].at
    /\ \A c \in Clients : doing[c].op = "write" => c = Writer
    /\ doing[Writer].op = "write" =>
          /\ doing[Writer].value = Len(writes) + 1 /\ committed = Len(writes) + 1
          /\ doing[Writer].at < ticks
    /\ doing[Writer].op # "write" => committed = Len(writes)
    /\ doing[Writer].op = "read" => doing[Writer].value <= Len(writes)
    /\ doing[Writer].op # "idle" =>
          \A i \in 1..Len(writes) : writes[i].at < doing[Writer].at

\* Reports are about recorded reads, and reads of recorded writes are of those.
ReportLog ==
    /\ \A c \in Clients, n \in Nat :
          <<"read_your_writes", c, n>> \in violations \/ <<"monotonic_read", c, n>> \in violations
             => n \in 1..Len(clientReads[c])
    /\ \A c \in Clients \ hidden : \A i \in 1..Len(clientReads[c]) :
          clientReads[c][i] \in 1..Len(writes)

CheckInv == CheckTypes /\ WriteLog /\ ReportLog

\* A write's value is found at its own number.
LEMMA IndexIsValue ==
    ASSUME CheckTypes, WriteLog, NEW v \in Nat
    PROVE  writeIndexOf(v) = IF v \in 1..Len(writes) THEN v ELSE 0
<1> DEFINE I == {i \in DOMAIN writes : writes[i].value = v}
<1>1. DOMAIN writes = 1..Len(writes) /\ Len(writes) \in Nat
  BY DEF CheckTypes
<1>2. I = {i \in 1..Len(writes) : i = v}
  BY <1>1, Zenon DEF WriteLog
<1>3. writeIndexOf(v) = IF I = {} THEN 0 ELSE CHOOSE i \in I : \A j \in I : i <= j
  BY Zenon DEF writeIndexOf
<1> HIDE DEF I
<1>4. CASE v \in 1..Len(writes)
  <2>1. I = {v}
    BY <1>2, <1>4, Zenon
  <2>2. v \in I /\ \A j \in I : v <= j
    BY <1>1, <1>4, <2>1
  <2>3. (CHOOSE i \in I : \A j \in I : i <= j) \in I
    BY <2>2, Zenon
  <2> QED
    BY <1>3, <1>4, <2>1, <2>3
<1>5. CASE v \notin 1..Len(writes)
  BY <1>2, <1>3, <1>5, Zenon
<1> QED
  BY <1>4, <1>5, Zenon

\* The values of the recorded writes are their numbers.
LEMMA OwnValues ==
    ASSUME CheckTypes, WriteLog
    PROVE  {w.value : w \in Range(writes)} = 1..Len(writes)
<1>1. DOMAIN writes = 1..Len(writes)
  BY DEF CheckTypes
<1> QED
  BY <1>1 DEF WriteLog, Range

\* The writer's reads are judged by its last write.
LEMMA LastWrite ==
    ASSUME CheckTypes, WriteLog, doing[Writer].op = "read"
    PROVE  lastWriteBefore(doing[Writer].at) = IF Len(writes) = 0 THEN {} ELSE {Len(writes)}
<1> DEFINE moment == doing[Writer].at
           before == {i \in DOMAIN writes : writes[i].at <= moment}
           k == Len(writes)
<1>1. /\ DOMAIN writes = 1..k /\ k \in Nat /\ \A i \in 1..k : writes[i].at \in Nat
      /\ moment \in Nat
  <2>1. doing[Writer] \in Operation
    BY WriterAssumption DEF CheckTypes, Idle
  <2>2. writes \in Seq(Entry)
    BY Zenon DEF CheckTypes
  <2>3. DOMAIN writes = 1..k /\ k \in Nat
    BY <2>2
  <2>4. \A i \in 1..k : writes[i] \in Entry
    BY <2>2, <2>3
  <2> QED
    BY <2>1, <2>3, <2>4, Zenon DEF Operation, Entry
<1>2. before = 1..k
  BY <1>1 DEF WriteLog
<1>3. lastWriteBefore(moment) = {i \in before : \A j \in before :
          writes[j].at < writes[i].at \/ (writes[j].at = writes[i].at /\ i <= j)}
  BY Zenon DEF lastWriteBefore
<1> HIDE DEF before, moment
<1>4. ASSUME NEW i \in lastWriteBefore(moment) PROVE i = k
  <2>1. i \in 1..k /\ k \in 1..k
    BY <1>1, <1>2, <1>3
  <2>2. writes[k].at < writes[i].at \/ (writes[k].at = writes[i].at /\ i <= k)
    BY <1>2, <1>3, <2>1, Zenon
  <2>3. i < k => writes[i].at < writes[k].at
    BY <2>1, Zenon DEF WriteLog
  <2>4. writes[i].at \in Nat /\ writes[k].at \in Nat /\ i \in 1..k /\ k \in Nat
    BY <1>1, <2>1, Zenon
  <2> HIDE DEF k
  <2> QED
    BY <2>2, <2>3, <2>4
<1>5. ASSUME k # 0 PROVE k \in lastWriteBefore(moment)
  <2>1. k \in 1..k
    BY <1>1, <1>5
  <2>2. ASSUME NEW j \in 1..k
        PROVE  writes[j].at < writes[k].at \/ (writes[j].at = writes[k].at /\ k <= j)
    <3>1. CASE j = k
      BY <1>1, <3>1
    <3>2. CASE j < k
      BY <2>1, <3>2, Zenon DEF WriteLog
    <3>3. j = k \/ j < k
      <4>1. k \in Nat /\ j \in 1..k
        BY <1>1, Zenon
      <4> HIDE DEF k
      <4> QED
        BY <4>1
    <3> QED
      BY <3>1, <3>2, <3>3, Zenon
  <2> QED
    BY <1>2, <1>3, <2>1, <2>2, Zenon
<1>6. k = 0 => lastWriteBefore(moment) = {}
  BY <1>2, <1>3
<1> QED
  BY <1>4, <1>5, <1>6, Zenon DEF moment

\* What RecordRead(c) does to the reports, with the read's value v and number n.
ReadRecorded(c, v, n) ==
    /\ clientReads' = [clientReads EXCEPT ![c] = Append(@, v)]
    /\ \A d \in Clients, m \in Nat : <<"monotonic_read", d, m>> \in violations' <=>
          \/ <<"monotonic_read", d, m>> \in violations
          \/ d = c /\ m = n /\ WentBack(c, v)
    /\ \A d \in Clients, m \in Nat : <<"read_your_writes", d, m>> \in violations' =>
          \/ <<"read_your_writes", d, m>> \in violations
          \/ d = c /\ m = n
    /\ \A m \in Nat : <<"read_your_writes", Writer, m>> \in violations' <=>
          \/ <<"read_your_writes", Writer, m>> \in violations
          \/ c = Writer /\ m = n /\ v < Len(writes)
    /\ missed'[Writer] =
          IF c = Writer /\ v < Len(writes) THEN missed[Writer] \cup {n} ELSE missed[Writer]
    /\ hidden' = IF v \in 1..Len(writes) THEN hidden ELSE hidden \cup {c}
    /\ UNCHANGED writes

LEMMA ReadRecords ==
    ASSUME CheckTypes, WriteLog, NEW c \in Clients, RecordRead(c)
    PROVE  /\ doing[c].value \in Nat
           /\ ReadRecorded(c, doing[c].value, Len(clientReads[c]) + 1)
<1> DEFINE v == doing[c].value
           n == Len(clientReads[c]) + 1
           k == Len(writes)
           stale == {i \in lastWriteBefore(doing[c].at) : writes[i].value # v}
<1>1. doing[c].op = "read" /\ v \in Nat /\ k \in Nat
  <2>1. doing[c].op = "read"
    BY Zenon DEF RecordRead
  <2>2. doing[c] \in Operation
    BY <2>1 DEF CheckTypes, Idle
  <2> QED
    BY <2>1, <2>2 DEF Operation, CheckTypes
<1>2. /\ violations' = violations
            \cup {<<"read_your_writes", c, n>> : i \in stale}
            \cup (IF WentBack(c, v) THEN {<<"monotonic_read", c, n>>} ELSE {})
      /\ clientReads' = [clientReads EXCEPT ![c] = Append(@, v)]
      /\ missed' = IF \E w \in 1..k : w > v THEN [missed EXCEPT ![c] = @ \cup {n}] ELSE missed
      /\ hidden' = IF v \in 1..k THEN hidden ELSE hidden \cup {c}
      /\ UNCHANGED writes
  BY OwnValues, Zenon DEF RecordRead
<1>3. c = Writer => (stale # {} <=> v < k)
  <2> SUFFICES ASSUME c = Writer PROVE stale # {} <=> v < k
    BY Zenon
  <2>1. stale = {i \in IF k = 0 THEN {} ELSE {k} : writes[i].value # v}
    BY <1>1, LastWrite, Zenon
  <2>2. k # 0 => writes[k].value = k
    BY <1>1 DEF WriteLog
  <2>3. v <= k
    BY <1>1, Zenon DEF WriteLog
  <2> HIDE DEF stale, v, k
  <2> QED
    BY <1>1, <2>1, <2>2, <2>3
<1>4. (\E w \in 1..k : w > v) <=> v < k
  BY <1>1
<1>5. missed \in [Clients -> SUBSET Nat] /\ Writer \in Clients
  BY WriterAssumption, Zenon DEF CheckTypes
<1> HIDE DEF stale, n, v, k
<1>6. missed'[Writer] = IF c = Writer /\ v < k THEN missed[Writer] \cup {n} ELSE missed[Writer]
  BY <1>2, <1>4, <1>5, Zenon
<1>7. \A d \in Clients, m \in Nat : <<"monotonic_read", d, m>> \in violations' <=>
          \/ <<"monotonic_read", d, m>> \in violations
          \/ d = c /\ m = n /\ WentBack(c, v)
  BY <1>2, Zenon
<1>8. \A d \in Clients, m \in Nat : <<"read_your_writes", d, m>> \in violations' <=>
          \/ <<"read_your_writes", d, m>> \in violations
          \/ d = c /\ m = n /\ stale # {}
  BY <1>2, Zenon
<1>9. \A m \in Nat : <<"read_your_writes", Writer, m>> \in violations' <=>
          \/ <<"read_your_writes", Writer, m>> \in violations
          \/ c = Writer /\ m = n /\ v < k
  BY <1>3, <1>5, <1>8, Zenon
<1>10. ReadRecorded(c, v, n)
  BY <1>2, <1>6, <1>7, <1>8, <1>9, Zenon DEF ReadRecorded, k
<1> QED
  BY <1>1, <1>10, Zenon DEF v, n

-----------------------------------------------------------------------------

\* An operation that begins now.
LEMMA StampTyped ==
    ASSUME CheckTypes, NEW c \in Clients, NEW op \in {"read", "write"}, NEW v \in Nat,
           Stamped(c, op, v)
    PROVE  /\ doing' \in [Clients -> {Idle} \cup Operation] /\ ticks' \in Nat
           /\ ticks' = ticks + 1 /\ ticks \in Nat
           /\ doing'[c] = [op |-> op, value |-> v, at |-> ticks]
           /\ \A d \in Clients \ {c} : doing'[d] = doing[d]
<1>1. ticks \in Nat /\ [op |-> op, value |-> v, at |-> ticks] \in Operation
  BY Zenon DEF CheckTypes, Operation
<1> QED
  BY <1>1 DEF CheckTypes, Stamped

\* The types of the checker's state are preserved.
LEMMA CheckTypesInd == CheckTypes /\ WriteLog /\ [CheckNext]_checkVars => CheckTypes'
<1> SUFFICES ASSUME CheckTypes, WriteLog, [CheckNext]_checkVars PROVE CheckTypes'
  BY Zenon
<1>1. CASE Switch
  <2>1. routed' \in [Clients -> Replicas]
    <3>1. PICK w \in switching : routed' \in {routed, [routed EXCEPT ![w[1]] = w[2]]}
      BY <1>1, Zenon DEF Switch
    <3>2. w[1] \in Clients /\ w[2] \in Replicas /\ routed \in [Clients -> Replicas]
      BY Zenon DEF CheckTypes
    <3> QED
      BY <3>1, <3>2, Zenon
  <2> QED
    BY <1>1, <2>1, Zenon DEF Switch, CheckTypes
<1>2. ASSUME NEW r \in Replicas, Replicate(r) PROVE CheckTypes'
  BY <1>2 DEF Replicate, CheckTypes
<1>3. ASSUME NEW c \in Clients, NEW r \in Replicas, RecordWrite(c, r) PROVE CheckTypes'
  <2>1. doing[c] \in Operation
    BY <1>3 DEF RecordWrite, CheckTypes, Idle
  <2>2. [value |-> doing[c].value, at |-> doing[c].at] \in Entry
    BY <2>1, Zenon DEF Operation, Entry
  <2> DEFINE e == [value |-> doing[c].value, at |-> doing[c].at]
  <2>3. writes' = Append(writes, e)
    BY <1>3, Zenon DEF RecordWrite
  <2> HIDE DEF e
  <2>4. writes' \in Seq(Entry)
    BY <2>2, <2>3 DEF CheckTypes, e
  <2>5. /\ routed' \in [Clients -> Replicas] /\ doing' \in [Clients -> {Idle} \cup Operation]
        /\ UNCHANGED <<committed, applied, ticks, clientReads, switching, missed>>
    BY <1>3, Zenon DEF RecordWrite, CheckTypes
  <2> QED
    BY <2>4, <2>5, Zenon DEF CheckTypes
<1>4. ASSUME NEW c \in Clients, ProvokeWrite(c) PROVE CheckTypes'
  <2>1. /\ Stamped(c, "write", committed + 1) /\ committed' = committed + 1
        /\ committed + 1 \in Nat
        /\ UNCHANGED <<applied, routed, writes, clientReads, switching, missed>>
    BY <1>4 DEF ProvokeWrite, CheckTypes
  <2>2. doing' \in [Clients -> {Idle} \cup Operation] /\ ticks' \in Nat
    BY <2>1, StampTyped, Zenon
  <2> QED
    BY <2>1, <2>2 DEF CheckTypes
<1>5. ASSUME NEW c \in Clients, ClientReads(c) PROVE CheckTypes'
  <2>1. /\ Stamped(c, "read", applied[routed[c]]) /\ applied[routed[c]] \in Nat
        /\ UNCHANGED <<committed, applied, routed, writes, clientReads, switching, missed>>
    BY <1>5, Zenon DEF ClientReads, CheckTypes
  <2>2. doing' \in [Clients -> {Idle} \cup Operation] /\ ticks' \in Nat
    BY <2>1, StampTyped, Zenon
  <2> QED
    BY <2>1, <2>2, Zenon DEF CheckTypes
<1>6. ASSUME NEW c \in Clients, RecordRead(c) PROVE CheckTypes'
  <2>1. /\ doing[c].value \in Nat
        /\ clientReads' = [clientReads EXCEPT ![c] = Append(@, doing[c].value)]
    BY <1>6, ReadRecords, Zenon DEF ReadRecorded
  <2>2. missed' \in [Clients -> SUBSET Nat]
    <3>1. missed \in [Clients -> SUBSET Nat] /\ Len(clientReads[c]) + 1 \in Nat
      BY DEF CheckTypes
    <3> QED
      BY <1>6, <3>1, Zenon DEF RecordRead
  <2>3. clientReads' \in [Clients -> Seq(Nat)]
    BY <2>1 DEF CheckTypes
  <2>4. /\ doing' \in [Clients -> {Idle} \cup Operation]
        /\ UNCHANGED <<committed, applied, ticks, routed, writes, switching>>
    BY <1>6, Zenon DEF RecordRead, CheckTypes
  <2> QED
    BY <2>2, <2>3, <2>4, Zenon DEF CheckTypes
<1>7. ASSUME NEW c \in Clients, NEW a \in Replicas, NEW b \in Replicas,
             ProvokeMonotonic(c, a, b)
      PROVE  CheckTypes'
  BY <1>7 DEF ProvokeMonotonic, CheckTypes
<1>8. CASE UNCHANGED checkVars
  BY <1>8, Zenon DEF checkVars, CheckTypes
<1> QED
  BY <1>1, <1>2, <1>3, <1>4, <1>5, <1>6, <1>7, <1>8, Zenon DEF CheckNext

\* The log of writes is preserved.
LEMMA WriteLogInd == CheckTypes /\ WriteLog /\ [CheckNext]_checkVars => WriteLog'
<1> SUFFICES ASSUME CheckTypes, WriteLog, [CheckNext]_checkVars PROVE WriteLog'
  BY Zenon
<1> DEFINE k == Len(writes)
<1>1. /\ Writer \in Clients /\ k \in Nat /\ ticks \in Nat /\ committed \in Nat
      /\ writes \in Seq(Entry) /\ doing \in [Clients -> {Idle} \cup Operation]
      /\ \A i \in 1..k : writes[i].at \in Nat
      /\ Idle.op = "idle"
  <2>1. writes \in Seq(Entry) /\ k \in Nat
    BY DEF CheckTypes
  <2>2. \A i \in 1..k : writes[i] \in Entry
    BY <2>1
  <2> QED
    BY <2>1, <2>2, WriterAssumption, Zenon DEF CheckTypes, Entry, Idle
<1>2. CASE UNCHANGED <<committed, ticks, doing, writes>>
  BY <1>2, Zenon DEF WriteLog
<1>3. ASSUME NEW c \in Clients, NEW r \in Replicas, RecordWrite(c, r) PROVE WriteLog'
  <2> DEFINE e == [value |-> doing[c].value, at |-> doing[c].at]
  <2>1. /\ writes' = Append(writes, e) /\ doing[c].op = "write"
        /\ doing' = [doing EXCEPT ![c] = Idle] /\ UNCHANGED <<committed, ticks>>
    BY <1>3, Zenon DEF RecordWrite
  <2>2. /\ c = Writer /\ e.value = k + 1 /\ committed = k + 1 /\ e.at < ticks
        /\ \A i \in 1..k : writes[i].at < e.at
    BY <2>1, Zenon DEF WriteLog
  <2>3. e.at \in Nat
    BY <1>1, <2>1, Zenon DEF Idle, Operation
  <2> HIDE DEF e
  <2>4. /\ Len(writes') = k + 1 /\ writes'[k + 1] = e
        /\ \A i \in 1..k : writes'[i] = writes[i]
    BY <1>1, <2>1
  <2>5. doing'[Writer] = Idle /\ \A d \in Clients : d # Writer => doing'[d] = doing[d]
    BY <1>1, <2>1, <2>2, Zenon
  <2> HIDE DEF k
  <2>6. \A i \in 1..(k + 1) : i \in 1..k \/ i = k + 1
    BY <1>1
  <2>7. \A i \in 1..(k + 1) : writes'[i].value = i /\ writes'[i].at < ticks
    BY <2>2, <2>4, <2>6, Zenon DEF WriteLog, k
  <2>8. \A i, j \in 1..(k + 1) : i < j => writes'[i].at < writes'[j].at
    <3> SUFFICES ASSUME NEW i \in 1..(k + 1), NEW j \in 1..(k + 1), i < j
                 PROVE  writes'[i].at < writes'[j].at
      BY Zenon
    <3>1. i \in 1..k
      BY <1>1
    <3>2. CASE j \in 1..k
      BY <2>4, <3>1, <3>2, Zenon DEF WriteLog, k
    <3>3. CASE j = k + 1
      BY <2>2, <2>4, <3>1, <3>3, Zenon
    <3> QED
      BY <2>6, <3>2, <3>3, Zenon
  <2>9. doing'[Writer].op = "idle"
    BY <1>1, <2>5, Zenon
  <2>10. \A d \in Clients : doing'[d].op = "write" => d = Writer
    BY <2>5, Zenon DEF WriteLog
  <2> QED
    BY <2>1, <2>2, <2>4, <2>7, <2>8, <2>9, <2>10, Zenon DEF WriteLog
<1>4. ASSUME NEW c \in Clients, NEW op \in {"read", "write"}, NEW v \in Nat,
             Stamped(c, op, v), UNCHANGED writes, doing[c] = Idle,
             op = "write" => c = Writer /\ v = committed + 1 /\ committed' = committed + 1,
             op = "read" => v <= committed /\ UNCHANGED committed
      PROVE  WriteLog'
  <2>1. /\ ticks' = ticks + 1
        /\ doing'[c] = [op |-> op, value |-> v, at |-> ticks]
        /\ \A d \in Clients \ {c} : doing'[d] = doing[d]
    BY <1>4, StampTyped, Zenon
  <2>2. \A i \in 1..k : writes[i].value = i /\ writes[i].at < ticks /\ writes[i].at < ticks'
    BY <1>1, <2>1 DEF WriteLog
  <2>3. \A d \in Clients : doing'[d].op = "write" => d = Writer
    BY <1>4, <2>1 DEF WriteLog
  <2>4. CASE c = Writer
    <3>1. committed = k
      BY <1>1, <1>4, <2>4, Zenon DEF WriteLog
    <3>2. CASE op = "write"
      BY <1>1, <1>4, <2>1, <2>2, <2>3, <2>4, <3>1, <3>2 DEF WriteLog
    <3>3. CASE op = "read"
      BY <1>1, <1>4, <2>1, <2>2, <2>3, <2>4, <3>1, <3>3 DEF WriteLog
    <3> QED
      BY <3>2, <3>3, Zenon
  <2>5. CASE c # Writer
    <3>1. doing'[Writer] = doing[Writer] /\ UNCHANGED committed
      BY <1>1, <1>4, <2>1, <2>5, Zenon
    <3>2. doing[Writer].op = "write" => doing[Writer].at < ticks'
      <4>1. doing[Writer].op = "write" => doing[Writer].at \in Nat /\ doing[Writer].at < ticks
        BY <1>1, Zenon DEF WriteLog, Operation, Idle
      <4> QED
        BY <1>1, <2>1, <4>1
    <3> QED
      BY <1>4, <2>2, <2>3, <3>1, <3>2, Zenon DEF WriteLog
  <2> QED
    BY <2>4, <2>5, Zenon
<1>5. ASSUME NEW c \in Clients, ProvokeWrite(c) PROVE WriteLog'
  <2>1. /\ Stamped(c, "write", committed + 1) /\ committed + 1 \in Nat /\ doing[c] = Idle
        /\ c = Writer /\ committed' = committed + 1 /\ UNCHANGED writes
    BY <1>1, <1>5 DEF ProvokeWrite
  <2> QED
    BY <1>4, <2>1, Zenon
<1>6. ASSUME NEW c \in Clients, ClientReads(c) PROVE WriteLog'
  <2>1. /\ Stamped(c, "read", applied[routed[c]]) /\ doing[c] = Idle
        /\ UNCHANGED <<committed, writes>>
    BY <1>6, Zenon DEF ClientReads
  <2>2. applied[routed[c]] \in Nat /\ applied[routed[c]] <= committed
    BY Zenon DEF CheckTypes
  <2> QED
    BY <1>4, <2>1, <2>2, Zenon
<1>7. ASSUME NEW c \in Clients, RecordRead(c) PROVE WriteLog'
  <2>1. /\ doing' = [doing EXCEPT ![c] = Idle] /\ UNCHANGED <<committed, ticks, writes>>
        /\ doing[c].op = "read"
    BY <1>7, Zenon DEF RecordRead
  <2>2. \A d \in Clients : doing'[d] = doing[d] \/ (doing'[d].op = "idle" /\ doing[d].op = "read")
    BY <1>1, <2>1, Zenon
  <2> QED
    BY <1>1, <2>1, <2>2, Zenon DEF WriteLog
<1> QED
  BY <1>2, <1>3, <1>5, <1>6, <1>7, Zenon
     DEF CheckNext, Switch, Replicate, ProvokeMonotonic, checkVars

\* What is reported is preserved, with the verdicts.
LEMMA ReportsInd ==
    CheckInv /\ VerdictsExact /\ [CheckNext]_checkVars => ReportLog' /\ VerdictsExact'
<1> SUFFICES ASSUME CheckInv, VerdictsExact, [CheckNext]_checkVars
             PROVE  ReportLog' /\ VerdictsExact'
  BY Zenon
<1> DEFINE k == Len(writes)
<1>1. /\ clientReads \in [Clients -> Seq(Nat)] /\ Writer \in Clients /\ k \in Nat
      /\ missed \in [Clients -> SUBSET Nat]
  BY WriterAssumption DEF CheckInv, CheckTypes
<1>2. CASE /\ UNCHANGED <<clientReads, violations, missed, hidden>>
           /\ Len(writes') >= k /\ Len(writes') \in Nat
  <2>1. 1..k \subseteq 1..Len(writes')
    BY <1>1, <1>2
  <2>2. ReportLog'
    BY <1>2, <2>1, Zenon DEF CheckInv, ReportLog
  <2>3. VerdictsExact'
    BY <1>2, Zenon DEF VerdictsExact, Reported
  <2> QED
    BY <2>2, <2>3, Zenon
<1>3. ASSUME NEW c \in Clients, NEW r \in Replicas, RecordWrite(c, r)
      PROVE  Len(writes') >= k /\ Len(writes') \in Nat
  <2> DEFINE e == [value |-> doing[c].value, at |-> doing[c].at]
  <2>1. writes' = Append(writes, e) /\ writes \in Seq(Entry)
    BY <1>3, Zenon DEF RecordWrite, CheckInv, CheckTypes
  <2> HIDE DEF e
  <2>2. Len(writes') = k + 1
    BY <2>1
  <2> QED
    BY <1>1, <2>2
<1>4. ASSUME NEW c \in Clients, RecordRead(c) PROVE ReportLog' /\ VerdictsExact'
  <2> DEFINE v == doing[c].value
             old == clientReads[c]
             n == Len(old) + 1
  <2>1. v \in Nat /\ ReadRecorded(c, v, n)
    BY <1>4, ReadRecords, Zenon DEF CheckInv
  <2>2. /\ old \in Seq(Nat) /\ Len(old) \in Nat /\ n \in Nat
        /\ clientReads'[c] = Append(old, v)
        /\ \A d \in Clients : d # c => clientReads'[d] = clientReads[d]
    BY <1>1, <2>1 DEF ReadRecorded
  <2> HIDE DEF v
  <2>3. /\ Len(clientReads'[c]) = n /\ clientReads'[c][n] = v
        /\ \A i \in 1..Len(old) : clientReads'[c][i] = old[i]
        /\ DOMAIN clientReads'[c] = 1..n /\ DOMAIN old = 1..Len(old)
    BY <2>1, <2>2
  <2> HIDE DEF old, n
  <2>4. n = Len(old) + 1 /\ old = clientReads[c]
    BY Zenon DEF old, n
  <2>5. \A i \in 1..n : i \in 1..Len(old) \/ i = n
    BY <2>2, <2>4
  <2>6. 1..Len(old) \subseteq 1..n /\ n \in 1..n /\ n \notin 1..Len(old)
    BY <2>2, <2>4
  <2>7. ReportLog'
    <3>1. \A d \in Clients, m \in Nat :
            <<"read_your_writes", d, m>> \in violations' \/ <<"monotonic_read", d, m>> \in violations'
               => m \in 1..Len(clientReads'[d])
      <4> SUFFICES ASSUME NEW d \in Clients, NEW m \in Nat,
                          \/ <<"read_your_writes", d, m>> \in violations'
                          \/ <<"monotonic_read", d, m>> \in violations'
                   PROVE  m \in 1..Len(clientReads'[d])
        BY Zenon
      <4>1. \/ <<"read_your_writes", d, m>> \in violations
            \/ <<"monotonic_read", d, m>> \in violations
            \/ d = c /\ m = n
        BY <2>1, Zenon DEF ReadRecorded
      <4>2. m \in 1..Len(clientReads[d]) \/ (d = c /\ m = n)
        BY <4>1, Zenon DEF CheckInv, ReportLog
      <4> QED
        BY <2>2, <2>3, <2>4, <2>6, <4>2, Zenon
    <3>2. \A d \in Clients \ hidden' : \A i \in 1..Len(clientReads'[d]) :
            clientReads'[d][i] \in 1..k
      <4> SUFFICES ASSUME NEW d \in Clients \ hidden', NEW i \in 1..Len(clientReads'[d])
                   PROVE  clientReads'[d][i] \in 1..k
        BY Zenon
      <4>1. d \notin hidden /\ (d = c => v \in 1..k)
        BY <2>1, Zenon DEF ReadRecorded
      <4>2. \A j \in 1..Len(clientReads[d]) : clientReads[d][j] \in 1..k
        BY <4>1, Zenon DEF CheckInv, ReportLog
      <4>3. CASE d # c
        BY <2>2, <4>2, <4>3, Zenon
      <4>4. CASE d = c
        BY <2>3, <2>4, <2>5, <4>1, <4>2, <4>4, Zenon
      <4> QED
        BY <4>3, <4>4, Zenon
    <3> QED
      BY <2>1, <3>1, <3>2, Zenon DEF ReportLog, ReadRecorded
  <2>8. Reported("read_your_writes", Writer)' = missed'[Writer]
    <3>1. Reported("read_your_writes", Writer) = missed[Writer]
      BY Zenon DEF VerdictsExact
    <3>2. CASE c # Writer
      BY <1>1, <2>1, <2>2, <3>1, <3>2 DEF ReadRecorded, Reported
    <3>3. CASE c = Writer
      <4>1. Reported("read_your_writes", Writer)' =
              {m \in 1..n : \/ <<"read_your_writes", Writer, m>> \in violations
                            \/ m = n /\ v < k}
        BY <2>1, <2>2, <2>3, <3>3 DEF ReadRecorded, Reported
      <4>2. <<"read_your_writes", Writer, n>> \notin violations
        BY <1>1, <2>2, <2>4, <2>6, <3>3, Zenon DEF CheckInv, ReportLog
      <4>3. Reported("read_your_writes", Writer) =
              {m \in 1..Len(old) : <<"read_your_writes", Writer, m>> \in violations}
        BY <2>4, <3>3, Zenon DEF Reported
      <4>4. Reported("read_your_writes", Writer)' =
              Reported("read_your_writes", Writer) \cup (IF v < k THEN {n} ELSE {})
        BY <2>5, <2>6, <4>1, <4>2, <4>3, Zenon
      <4>5. missed'[Writer] = missed[Writer] \cup (IF v < k THEN {n} ELSE {})
        BY <2>1, <3>3, Zenon DEF ReadRecorded
      <4> QED
        BY <3>1, <4>4, <4>5, Zenon
    <3> QED
      BY <3>2, <3>3, Zenon
  <2>9. ASSUME NEW d \in Clients \ hidden'
        PROVE  (Reported("monotonic_read", d)' # {}) <=>
                 \E i, j \in DOMAIN clientReads'[d] :
                    i < j /\ clientReads'[d][j] < clientReads'[d][i]
    <3>1. d \notin hidden /\ (d = c => v \in 1..k)
      BY <2>1, <2>9, Zenon DEF ReadRecorded
    <3>2. (Reported("monotonic_read", d) # {}) <=>
             \E i, j \in DOMAIN clientReads[d] : i < j /\ clientReads[d][j] < clientReads[d][i]
      BY <3>1, Zenon DEF VerdictsExact
    <3>3. CASE d # c
      <4>1. Reported("monotonic_read", d)' = Reported("monotonic_read", d)
        BY <2>1, <2>2, <3>3 DEF ReadRecorded, Reported
      <4> QED
        BY <2>2, <3>2, <3>3, <4>1, Zenon
    <3>4. CASE d = c
      <4>1. \A i \in 1..Len(old) : old[i] \in 1..k
        BY <2>4, <3>1, <3>4, Zenon DEF CheckInv, ReportLog
      <4>2. WentBack(c, v) <=> Len(old) # 0 /\ v < old[Len(old)]
        <5>1. old # << >> <=> Len(old) # 0
          BY <2>2
        <5>2. old # << >> => old[Len(old)] \in 1..k
          BY <2>2, <4>1, <5>1
        <5>3. writeIndexOf(v) = v /\ v # 0
          BY <1>1, <2>1, <3>1, <3>4, IndexIsValue DEF CheckInv
        <5>4. old # << >> => writeIndexOf(old[Len(old)]) = old[Len(old)]
          BY <1>1, <5>2, IndexIsValue DEF CheckInv
        <5> QED
          BY <2>4, <5>1, <5>3, <5>4, Zenon DEF WentBack
      <4>3. Reported("monotonic_read", c)' # {} <=>
              Reported("monotonic_read", c) # {} \/ WentBack(c, v)
        <5>1. Reported("monotonic_read", c)' =
                {m \in 1..n : \/ <<"monotonic_read", c, m>> \in violations
                              \/ m = n /\ WentBack(c, v)}
          BY <2>1, <2>2, <2>3 DEF ReadRecorded, Reported
        <5>2. Reported("monotonic_read", c) =
                {m \in 1..Len(old) : <<"monotonic_read", c, m>> \in violations}
          BY <2>4, Zenon DEF Reported
        <5>3. <<"monotonic_read", c, n>> \notin violations
          BY <2>2, <2>4, <2>6, Zenon DEF CheckInv, ReportLog
        <5> QED
          BY <2>5, <2>6, <5>1, <5>2, <5>3, Zenon
      <4>4. ASSUME NEW i \in 1..n, NEW j \in 1..n, i < j,
                   clientReads'[c][j] < clientReads'[c][i]
            PROVE  Reported("monotonic_read", c) # {} \/ WentBack(c, v)
        <5>1. i \in 1..Len(old) /\ clientReads'[c][i] = old[i]
          BY <2>2, <2>3, <2>4, <4>4
        <5>2. CASE j \in 1..Len(old)
          BY <2>3, <2>4, <3>2, <3>4, <4>4, <5>1, <5>2, Zenon
        <5>3. CASE j = n /\ Reported("monotonic_read", c) = {}
          <6>1. v < old[i]
            BY <2>3, <4>4, <5>1, <5>3, Zenon
          <6>2. Len(old) \in 1..Len(old)
            BY <2>2, <5>1
          <6>3. old[i] \in Nat /\ old[Len(old)] \in Nat
            BY <4>1, <5>1, <6>2
          <6>4. i < Len(old) => ~(old[Len(old)] < old[i])
            BY <2>3, <2>4, <3>2, <3>4, <5>1, <5>3, <6>2, Zenon
          <6>5. i = Len(old) \/ i < Len(old)
            BY <2>2, <5>1
          <6>6. v < old[Len(old)]
            BY <2>1, <6>1, <6>3, <6>4, <6>5
          <6> QED
            BY <2>2, <4>2, <5>1, <6>6
        <5> QED
          BY <2>5, <5>2, <5>3, Zenon
      <4>5. ASSUME Reported("monotonic_read", c) # {} \/ WentBack(c, v)
            PROVE  \E i, j \in 1..n : i < j /\ clientReads'[c][j] < clientReads'[c][i]
        <5>1. CASE Reported("monotonic_read", c) # {}
          BY <2>3, <2>4, <2>6, <3>2, <3>4, <5>1, Zenon
        <5>2. CASE WentBack(c, v)
          <6>1. Len(old) \in 1..Len(old) /\ v < old[Len(old)]
            BY <2>2, <4>2, <5>2
          <6>2. Len(old) \in 1..n /\ Len(old) < n
            BY <2>2, <2>4, <6>1
          <6>3. clientReads'[c][Len(old)] = old[Len(old)] /\ clientReads'[c][n] = v
            BY <2>3, <6>1, Zenon
          <6> QED
            BY <2>6, <6>1, <6>2, <6>3, Zenon
        <5> QED
          BY <4>5, <5>1, <5>2, Zenon
      <4> QED
        BY <2>3, <3>4, <4>3, <4>4, <4>5, Zenon
    <3> QED
      BY <3>3, <3>4, Zenon
  <2> QED
    BY <2>7, <2>8, <2>9, Zenon DEF VerdictsExact
<1>5. CASE \E c \in Clients, r \in Replicas : RecordWrite(c, r)
  BY <1>2, <1>3, <1>5, Zenon DEF RecordWrite
<1>6. CASE UNCHANGED <<clientReads, writes, violations, missed, hidden>>
  BY <1>1, <1>2, <1>6
<1> QED
  BY <1>4, <1>5, <1>6, Zenon
     DEF CheckNext, Switch, Replicate, ProvokeMonotonic, ProvokeWrite, ClientReads, checkVars

\* For any clients, replicas, routings and delays: the checker reports the writer's
\* reads that missed its last write and no others, and reports a client that read
\* only recorded writes for going back exactly if it ever did.
THEOREM VerdictsAreExact == CheckSpec => []VerdictsExact
<1>1. CheckInit => CheckInv /\ VerdictsExact
  <2> SUFFICES ASSUME CheckInit PROVE CheckInv /\ VerdictsExact
    BY Zenon
  <2>1. CheckTypes
    <3>1. /\ committed \in Nat /\ ticks \in Nat /\ switching \subseteq Clients \X Replicas
          /\ applied \in [Replicas -> Nat] /\ \A r \in Replicas : applied[r] <= committed
          /\ routed \in [Clients -> Replicas] /\ writes \in Seq(Entry)
      BY DEF CheckInit
    <3>2. doing \in [Clients -> {Idle} \cup Operation] /\ missed \in [Clients -> SUBSET Nat]
      BY Zenon DEF CheckInit
    <3>3. << >> \in Seq(Nat)
      OBVIOUS
    <3>4. clientReads \in [Clients -> Seq(Nat)]
      BY <3>3, Zenon DEF CheckInit
    <3> QED
      BY <3>1, <3>2, <3>4, Zenon DEF CheckTypes
  <2>2. Len(writes) = 0 /\ \A c \in Clients : Len(clientReads[c]) = 0 /\ DOMAIN clientReads[c] = {}
    <3>1. writes = << >> /\ \A c \in Clients : clientReads[c] = << >>
      BY Zenon DEF CheckInit
    <3> QED
      BY <3>1
  <2>3. \A c \in Clients : doing[c].op = "idle"
    BY Zenon DEF CheckInit, Idle
  <2>4. WriteLog
    <3>1. doing[Writer].op = "idle" /\ committed = 0
      BY <2>3, WriterAssumption, Zenon DEF CheckInit
    <3> QED
      BY <2>2, <2>3, <3>1 DEF WriteLog
  <2>5. ReportLog
    BY <2>2 DEF CheckInit, ReportLog
  <2>6. VerdictsExact
    BY <2>2, WriterAssumption, Zenon DEF CheckInit, VerdictsExact, Reported
  <2> QED
    BY <2>1, <2>4, <2>5, <2>6, Zenon DEF CheckInv
<1>2. CheckInv /\ VerdictsExact /\ [CheckNext]_checkVars => CheckInv' /\ VerdictsExact'
  BY CheckTypesInd, WriteLogInd, ReportsInd, Zenon DEF CheckInv
<1> QED
  BY <1>1, <1>2, PTL DEF CheckSpec

-----------------------------------------------------------------------------
(* Stale reads                                                             *)

Keys == Sent \cup {""}
Reply == [to : Keys, cachedAt : Nat]

ReadTypes ==
    /\ clock \in Nat
    /\ cache \in [Keys -> Reply]
    /\ awaiting \in [Sessions -> Seq(Queries)]
    /\ asked \in [Sessions -> Seq(Sent)]
    /\ lastQuery \in [Sessions -> Keys]

\* A reply is cached under the query it answers, or garbled.
CachePaired ==
    \A q \in Keys : cache[q] # Nothing => cache[q].to \in {q, Garbled}

\* The one query a session has under way is its lastQuery.
InStep ==
    \A s \in Sessions :
        /\ Len(awaiting[s]) <= 1 /\ Len(asked[s]) = Len(awaiting[s])
        /\ asked[s] # << >> =>
              Head(asked[s]) = lastQuery[s] /\ lastQuery[s] \in {Head(awaiting[s]), Garbled}

PairInv == ReadTypes /\ CachePaired /\ InStep

LEMMA NothingTyped == Nothing \in Reply
BY Zenon DEF Nothing, Reply, Keys

\* The reply that arrives, and the one the hook gives out, are for the session's
\* query or garbled; and the hook gives out no reply of MaxAge.
LEMMA ReplyPaired ==
    ASSUME PairInv, NEW s \in Sessions, PumpReply(s)
    PROVE  \E p \in Keys, r \in Reply :
              LET live == [to |-> p, cachedAt |-> clock]
                  q == lastQuery[s] IN
              /\ p \in {q, Garbled} /\ r.to \in {q, Garbled}
              /\ q \in {Head(awaiting[s]), Garbled}
              /\ clock - r.cachedAt = 0 \/ clock - r.cachedAt < MaxAge
              /\ cache' = IF hook THEN [cache EXCEPT ![q] = live] ELSE cache
              /\ got' = <<[for |-> Head(awaiting[s]), to |-> r.to,
                           age |-> clock - r.cachedAt]>>
<1> DEFINE q == lastQuery[s]
<1>1. /\ clock \in Nat /\ q \in Keys /\ cache \in [Keys -> Reply]
      /\ asked[s] # << >> /\ Head(asked[s]) = q /\ q \in {Head(awaiting[s]), Garbled}
  BY Zenon DEF PairInv, ReadTypes, InStep, PumpReply
<1> DEFINE live(p) == [to |-> p, cachedAt |-> clock]
<1>2. PICK p \in Garbles(q) :
            /\ cache' = IF hook THEN [cache EXCEPT ![q] = live(p)] ELSE cache
            /\ \E r \in IF hook THEN MaybeServeStale(q, live(p)) ELSE {live(p)} :
                  got' = <<[for |-> Head(awaiting[s]), to |-> r.to, age |-> clock - r.cachedAt]>>
  BY <1>1, Zenon DEF PumpReply
<1>3. p \in {q, Garbled} /\ p \in Keys
  BY <1>1, <1>2, Zenon DEF Garbles, Keys, Sent
<1>4. PICK r : /\ r \in IF hook THEN MaybeServeStale(q, live(p)) ELSE {live(p)}
               /\ got' = <<[for |-> Head(awaiting[s]), to |-> r.to, age |-> clock - r.cachedAt]>>
  BY <1>2, Zenon
<1>5. r = live(p) \/ (r = cache[q] /\ MayServe(r))
  BY <1>4, Zenon DEF MaybeServeStale
<1>6. /\ r \in Reply /\ r.to \in {q, Garbled}
      /\ clock - r.cachedAt = 0 \/ clock - r.cachedAt < MaxAge
  <2>1. CASE r = live(p)
    BY <1>1, <1>3, <2>1 DEF Reply
  <2>2. CASE r = cache[q] /\ MayServe(r)
    <3>1. r # Nothing /\ clock - r.cachedAt < MaxAge
      BY <2>2, Zenon DEF MayServe
    <3>2. r.to \in {q, Garbled}
      BY <1>1, <2>2, <3>1, Zenon DEF PairInv, CachePaired
    <3> QED
      BY <1>1, <2>2, <3>1, <3>2, Zenon
  <2> QED
    BY <1>5, <2>1, <2>2, Zenon
<1> QED
  BY <1>1, <1>2, <1>3, <1>4, <1>6, Zenon

LEMMA PairInvInd ==
    ASSUME Depth = 1
    PROVE  PairInv /\ [ReadNext]_readVars => PairInv'
<1> SUFFICES ASSUME PairInv, [ReadNext]_readVars PROVE PairInv'
  BY Zenon
<1>1. CASE Elapse \/ RemoveStaleRead \/ ToggleCorruption \/ UNCHANGED readVars
  <2>1. clock' \in {clock, clock + 1} /\ UNCHANGED <<cache, awaiting, asked, lastQuery>>
    BY <1>1, Zenon DEF Elapse, RemoveStaleRead, ToggleCorruption, readVars
  <2> QED
    BY <2>1 DEF PairInv, ReadTypes, CachePaired, InStep
<1>2. CASE ApplyStaleRead
  <2>1. cache' = [q \in Keys |-> Nothing] /\ hook' = TRUE
        /\ UNCHANGED <<clock, awaiting, asked, lastQuery>>
    BY <1>2, Zenon DEF ApplyStaleRead, PairInv, ReadTypes
  <2> QED
    BY <2>1, NothingTyped, Zenon DEF PairInv, ReadTypes, CachePaired, InStep
<1>3. ASSUME NEW s \in Sessions, NEW q \in Queries, PumpQuery(s, q) PROVE PairInv'
  <2>1. PICK p \in Garbles(q) :
              /\ awaiting' = [awaiting EXCEPT ![s] = Append(@, q)]
              /\ lastQuery' = [lastQuery EXCEPT ![s] = p]
              /\ asked' = [asked EXCEPT ![s] = Append(@, p)]
              /\ UNCHANGED <<clock, hook, cache>>
    BY <1>3, Zenon DEF PumpQuery
  <2>2. p \in {q, Garbled} /\ p \in Sent /\ p \in Keys
    BY <2>1, Zenon DEF Garbles, Sent, Keys
  <2>3. awaiting[s] = << >> /\ asked[s] = << >>
    BY <1>3 DEF PumpQuery, PairInv, ReadTypes, InStep
  <2>4. awaiting'[s] = <<q>> /\ asked'[s] = <<p>> /\ lastQuery'[s] = p
    BY <2>1, <2>3 DEF PairInv, ReadTypes
  <2>5. ReadTypes'
    BY <2>1, <2>2 DEF PairInv, ReadTypes
  <2>6. \A o \in Sessions \ {s} : UNCHANGED <<awaiting[o], asked[o], lastQuery[o]>>
    BY <2>1, Zenon DEF PairInv, ReadTypes
  <2>7. InStep'
    <3> SUFFICES ASSUME NEW o \in Sessions
                 PROVE  /\ Len(awaiting'[o]) <= 1 /\ Len(asked'[o]) = Len(awaiting'[o])
                        /\ asked'[o] # << >> =>
                              /\ Head(asked'[o]) = lastQuery'[o]
                              /\ lastQuery'[o] \in {Head(awaiting'[o]), Garbled}
      BY Zenon DEF InStep
    <3>1. CASE o = s
      <4>1. Len(<<q>>) = 1 /\ Len(<<p>>) = 1 /\ Head(<<q>>) = q /\ Head(<<p>>) = p
        OBVIOUS
      <4>2. /\ Len(awaiting'[o]) = 1 /\ Len(asked'[o]) = 1
            /\ Head(awaiting'[o]) = q /\ Head(asked'[o]) = p /\ lastQuery'[o] = p
        BY <2>4, <3>1, <4>1, Zenon
      <4>3. 1 <= 1
        OBVIOUS
      <4> QED
        BY <2>2, <4>2, <4>3, Zenon
    <3>2. CASE o # s
      BY <2>6, <3>2, Zenon DEF PairInv, InStep
    <3> QED
      BY <3>1, <3>2, Zenon
  <2> QED
    BY <2>1, <2>5, <2>7, Zenon DEF PairInv, CachePaired
<1>4. ASSUME NEW s \in Sessions, PumpReply(s) PROVE PairInv'
  <2> DEFINE q == lastQuery[s]
  <2>1. PICK p \in Keys :
              /\ p \in {q, Garbled}
              /\ cache' = IF hook THEN [cache EXCEPT ![q] = [to |-> p, cachedAt |-> clock]]
                          ELSE cache
    BY <1>4, ReplyPaired, Zenon
  <2>2. /\ awaiting' = [awaiting EXCEPT ![s] = Tail(@)]
        /\ asked' = [asked EXCEPT ![s] = Tail(@)]
        /\ UNCHANGED <<clock, hook, lastQuery>> /\ asked[s] # << >>
    BY <1>4, Zenon DEF PumpReply
  <2>3. [to |-> p, cachedAt |-> clock] \in Reply /\ q \in Keys
    BY Zenon DEF PairInv, ReadTypes, Reply
  <2>4. /\ awaiting[s] \in Seq(Queries) /\ asked[s] \in Seq(Sent)
        /\ Len(awaiting[s]) <= 1 /\ Len(asked[s]) = Len(awaiting[s])
    BY Zenon DEF PairInv, ReadTypes, InStep
  <2>5. awaiting'[s] = << >> /\ asked'[s] = << >>
    BY <2>2, <2>4 DEF PairInv, ReadTypes
  <2>6. ReadTypes'
    BY <2>1, <2>2, <2>3, <2>4 DEF PairInv, ReadTypes
  <2>7. CachePaired'
    BY <2>1, <2>3, Zenon DEF PairInv, ReadTypes, CachePaired
  <2>8. InStep'
    BY <2>2, <2>5 DEF PairInv, ReadTypes, InStep
  <2> QED
    BY <2>6, <2>7, <2>8, Zenon DEF PairInv
<1> QED
  BY <1>1, <1>2, <1>3, <1>4, Zenon DEF ReadNext

\* With one query of a session under way at a time, no client is served the reply to
\* another query, however many sessions share the cache and however faults come and
\* go, nor a reply that the proxy read MaxAge ago or earlier.
THEOREM RepliesPaired ==
    ASSUME Depth = 1
    PROVE  ReadSpec => []ServedPaired
<1>1. ReadInit => PairInv /\ ServedPaired
  <2> SUFFICES ASSUME ReadInit PROVE PairInv /\ ServedPaired
    BY Zenon
  <2>1. cache = [q \in Keys |-> Nothing]
    BY Zenon DEF ReadInit, Keys
  <2>2. ReadTypes
    <3>1. clock \in Nat /\ cache \in [Keys -> Reply]
      BY <2>1, NothingTyped, Zenon DEF ReadInit
    <3>2. << >> \in Seq(Queries) /\ << >> \in Seq(Sent) /\ "" \in Keys
      BY DEF Keys
    <3>3. /\ awaiting = [s \in Sessions |-> << >>] /\ asked = [s \in Sessions |-> << >>]
          /\ lastQuery = [s \in Sessions |-> ""]
      BY Zenon DEF ReadInit
    <3> QED
      BY <3>1, <3>2, <3>3, Zenon DEF ReadTypes
  <2>3. CachePaired
    BY <2>1, Zenon DEF CachePaired
  <2>4. InStep
    <3>1. \A s \in Sessions : awaiting[s] = << >> /\ asked[s] = << >>
      BY Zenon DEF ReadInit
    <3> QED
      BY <3>1 DEF InStep
  <2>5. Range(got) = {}
    <3>1. got = << >>
      BY Zenon DEF ReadInit
    <3> QED
      BY <3>1 DEF Range
  <2> QED
    BY <2>2, <2>3, <2>4, <2>5, Zenon DEF PairInv, ServedPaired
<1>2. PairInv /\ ServedPaired /\ [ReadNext]_readVars => ServedPaired'
  <2> SUFFICES ASSUME PairInv, ServedPaired, [ReadNext]_readVars PROVE ServedPaired'
    BY Zenon
  <2>1. CASE UNCHANGED got
    BY <2>1, Zenon DEF ServedPaired
  <2>2. ASSUME NEW s \in Sessions, PumpReply(s) PROVE ServedPaired'
    <3>1. PICK r \in Reply :
                /\ r.to \in {Head(awaiting[s]), Garbled}
                /\ clock - r.cachedAt = 0 \/ clock - r.cachedAt < MaxAge
                /\ got' = <<[for |-> Head(awaiting[s]), to |-> r.to,
                             age |-> clock - r.cachedAt]>>
      BY <2>2, ReplyPaired, Zenon
    <3>2. Range(got') = {[for |-> Head(awaiting[s]), to |-> r.to,
                          age |-> clock - r.cachedAt]}
      BY <3>1 DEF Range
    <3> QED
      BY <3>1, <3>2 DEF ServedPaired
  <2> QED
    BY <2>1, <2>2, Zenon DEF ReadNext, Elapse, ApplyStaleRead, RemoveStaleRead, ToggleCorruption,
                      PumpQuery, readVars
<1> QED
  BY <1>1, <1>2, PairInvInd, PTL DEF ReadSpec

-----------------------------------------------------------------------------
(* Rows                                                                    *)

DataRow == [value : Values, flipped : SUBSET Byte]

RowInv ==
    /\ rows \in [Holders -> DataRow \cup {NoRow}]
    /\ previousValue \in DataRow \cup {NoRow}

\* Flipping a byte is undone only by flipping it again.
LEMMA ToggleShows ==
    ASSUME NEW f, NEW d, d # {}
    PROVE  Toggle(f, d) # f
BY Zenon DEF Toggle

\* Of the empty set, from the recursion that defines the cardinality.
LEMMA EmptyCardinality == Cardinality({}) = 0
<1> DEFINE Count(f) == [T \in SUBSET {} |->
                           IF T = {} THEN 0 ELSE 1 + f[T \ {CHOOSE x : x \in T}]]
           CS == CHOOSE f : f = Count(f)
           none == [T \in SUBSET {} |-> 0]
<1>1. Cardinality({}) = CS[{}]
  BY Zenon DEF Cardinality
<1>2. none = Count(none)
  BY Zenon
<1> HIDE DEF none
<1>3. CS = Count(CS)
  <2> HIDE DEF Count
  <2> QED
    BY <1>2, Zenon
<1> HIDE DEF CS
<1> QED
  BY <1>1, <1>3, Zenon

\* With an odd number of draws some byte is drawn an odd number of times.
LEMMA OddDrawShows ==
    ASSUME NEW k \in Nat, k % 2 = 1, NEW d \in Drawn(k)
    PROVE  d # {}
<1> SUFFICES ASSUME d = {} PROVE FALSE
  BY Zenon
<1>1. Cardinality(d) = 0
  BY EmptyCardinality, Zenon
<1>2. (k - 0) % 2 = 0
  BY <1>1, Zenon DEF Drawn
<1> QED
  BY <1>2

LEMMA InjectFlips ==
    ASSUME RowInv, NEW n \in Holders, InjectCorruption(n)
    PROVE  \E d \in Drawn(BytesToFlip) :
              /\ rows[n] \in DataRow
              /\ rows' = [rows EXCEPT ![n] =
                            [value |-> rows[n].value, flipped |-> Toggle(rows[n].flipped, d)]]
<1>1. rows[n] \in DataRow
  BY Zenon DEF RowInv, InjectCorruption
<1>2. PICK d \in Drawn(BytesToFlip) :
             rows' = [rows EXCEPT ![n] = [rows[n] EXCEPT !.flipped = Toggle(rows[n].flipped, d)]]
  BY Zenon DEF InjectCorruption, flipBytes, WriteRow
<1>3. [rows[n] EXCEPT !.flipped = Toggle(rows[n].flipped, d)]
        = [value |-> rows[n].value, flipped |-> Toggle(rows[n].flipped, d)]
  BY <1>1 DEF DataRow
<1> QED
  BY <1>1, <1>2, <1>3, Zenon

LEMMA RowInvInd == RowInv /\ [DataNext]_dataVars => RowInv'
<1> SUFFICES ASSUME RowInv, [DataNext]_dataVars PROVE RowInv'
  BY Zenon
<1>1. ASSUME NEW n \in Holders, InjectCorruption(n) PROVE RowInv'
  <2>1. PICK d \in Drawn(BytesToFlip) :
              /\ rows[n] \in DataRow
              /\ rows' = [rows EXCEPT ![n] =
                            [value |-> rows[n].value, flipped |-> Toggle(rows[n].flipped, d)]]
    BY <1>1, InjectFlips, Zenon
  <2>2. [value |-> rows[n].value, flipped |-> Toggle(rows[n].flipped, d)] \in DataRow
    BY <2>1, Zenon DEF DataRow, Toggle, Drawn
  <2>3. previousValue' = rows[n]
    BY <1>1, Zenon DEF InjectCorruption
  <2> QED
    BY <2>1, <2>2, <2>3, Zenon DEF RowInv
<1>2. ASSUME NEW n \in Holders, RevertCorruption(n) PROVE RowInv'
  BY <1>2, Zenon DEF RowInv, RevertCorruption, WriteRow
<1>3. ASSUME NEW n \in Holders, NEW v \in Values, ClientWritesRow(n, v) PROVE RowInv'
  BY <1>3, Zenon DEF RowInv, ClientWritesRow, WriteRow, DataRow
<1>4. CASE UNCHANGED dataVars
  BY <1>4, Zenon DEF dataVars, RowInv
<1> QED
  BY <1>1, <1>2, <1>3, <1>4, Zenon DEF DataNext

\* An Inject of row_corruption that flips an odd number of bytes leaves another row
\* than it found, for any length of row and whatever indices are drawn.
THEOREM OddCorruptionShows ==
    ASSUME BytesToFlip \in Nat, BytesToFlip % 2 = 1
    PROVE  DataSpec => CorruptionShows
<1>1. DataInit => RowInv
  BY Zenon DEF DataInit, RowInv
<1>2. RowInv /\ [DataNext]_dataVars =>
        [\A n \in Holders : InjectCorruption(n) => rows'[n] # rows[n]]_dataVars
  <2> SUFFICES ASSUME RowInv, NEW n \in Holders, InjectCorruption(n)
               PROVE  rows'[n] # rows[n]
    BY Zenon
  <2>1. PICK d \in Drawn(BytesToFlip) :
              /\ rows[n] \in DataRow
              /\ rows' = [rows EXCEPT ![n] =
                            [value |-> rows[n].value, flipped |-> Toggle(rows[n].flipped, d)]]
    BY InjectFlips, Zenon
  <2>2. rows'[n].flipped = Toggle(rows[n].flipped, d)
    BY <2>1, Zenon DEF RowInv
  <2>3. d # {}
    BY OddDrawShows, Zenon
  <2>4. Toggle(rows[n].flipped, d) # rows[n].flipped
    BY <2>3, ToggleShows, Zenon
  <2> QED
    BY <2>2, <2>4, Zenon
<1> QED
  BY <1>1, <1>2, RowInvInd, PTL DEF DataSpec, CorruptionShows

-----------------------------------------------------------------------------
(* Workload faults                                                         *)

Steps == {"Lock", "PoolBegin", "Begin", "BeginB", "Locks", "Exec", "Hold", "crashed",
          "SnapshotTable", "Window", "restored", "returned"}

\* The transactions a call may have open, other than those in txs, by its next step.
MayHold(c) ==
    CASE at[c] \in {"BeginB", "Exec", "Hold", "crashed"} -> {Tx(c, 1)}
      [] at[c] = "Locks" -> {Tx(c, 1), Tx(c, 2)}
      [] OTHER -> {}

\* TxAccounted is not inductive: a call that fails forgets the transactions it
\* names, and they are all it has only if it had no others before.
TxInv ==
    /\ at \in [Injects -> Steps]
    /\ \A t \in open : t[1] \in Injects /\ (t \in txs \/ t \in MayHold(t[1]))

\* A write missing from the shared snapshot is lost already, or belongs to every
\* window that may still restore that snapshot.
SnapshotCovers ==
    \A w \in acked \ snapshot :
       \/ \E c \in Backups : at[c] = "restored" /\ w \in window[c]
       \/ \A c \in Backups : at[c] = "Window" => w \in window[c]

BackupInv ==
    /\ at \in [Injects -> Steps] /\ DOMAIN window = Backups
    /\ \A c \in Backups : at[c] \in {"SnapshotTable", "Window", "restored", "returned"}
    /\ \A c \in Injects : at[c] \in {"SnapshotTable", "Window"} => c \in Backups
    /\ LostInWindow /\ SnapshotCovers

-----------------------------------------------------------------------------
LEMMA StepType ==
    ASSUME at \in [Injects -> Steps], [WorkNext]_workVars
    PROVE  at' \in [Injects -> Steps]
<1>1. CASE UNCHANGED at
  BY <1>1, Zenon
<1>2. ASSUME NEW c \in Injects, Step(c) PROVE at' \in [Injects -> Steps]
  <2>1. UNCHANGED at \/ \E s \in Steps : at' = [at EXCEPT ![c] = s]
    BY <1>2, Zenon DEF Step, PoolLock, PoolBegin, PoolReturn, BeginFirst, BeginB, SideExec,
               DeadlockReturn, ExecOne, HoldReturn, Crash, SnapshotTable, RestoreTable, Goto, Steps
  <2> QED BY <2>1, Zenon
<1>3. CASE WorkNext
  BY <1>1, <1>2, <1>3, Zenon DEF WorkNext, CtxDone, PoolTimer, CtxRollback, Release, ClientWrites
<1> QED BY <1>1, <1>3, Zenon DEF workVars

\* A step that opens nothing, forgets no transaction that txs keeps, and leaves
\* every call its transactions keeps TxInv.
LEMMA NothingOpened ==
    ASSUME TxInv, at' \in [Injects -> Steps], open' \subseteq open,
           \A t \in open' : t \in txs => t \in txs',
           \A t \in open' : t \in MayHold(t[1]) => t \in MayHold(t[1])'
    PROVE  TxInv'
BY Zenon DEF TxInv

LEMMA MayHoldOther ==
    ASSUME TxInv, NEW c \in Injects, NEW d \in Injects, d # c, NEW s, at' = [at EXCEPT ![c] = s]
    PROVE  MayHold(d)' = MayHold(d)
BY Zenon DEF MayHold, TxInv

LEMMA TxStep ==
    ASSUME TxInv, [WorkNext]_workVars
    PROVE  TxInv'
<1>0. at' \in [Injects -> Steps]
  BY StepType, Zenon DEF TxInv
<1>1. ASSUME UNCHANGED at, open' \subseteq open,
             \A t \in open' : t \in txs => t \in txs'
      PROVE  TxInv'
  BY <1>0, <1>1, NothingOpened, Zenon DEF MayHold
<1>2. ASSUME NEW c \in Injects, Step(c) PROVE TxInv'
  <2>1. ASSUME NEW T, open' = open \ T, NEW s \in Steps, at' = [at EXCEPT ![c] = s], UNCHANGED txs,
               MayHold(c) \subseteq T
        PROVE  TxInv'
    <3>1. ASSUME NEW t \in open', t \in MayHold(t[1]) PROVE t \in MayHold(t[1])'
      <4>1. t \in open /\ t[1] \in Injects /\ t \notin T
        BY <2>1, <3>1, Zenon DEF TxInv
      <4>2. t[1] # c
        BY <4>1, <3>1, <2>1, Zenon
      <4> QED BY <4>1, <4>2, <3>1, <2>1, MayHoldOther, Zenon
    <3> QED BY <1>0, <2>1, <3>1, NothingOpened, Zenon
  <2>2. ASSUME NEW s \in Steps, at' = [at EXCEPT ![c] = s], UNCHANGED <<open, txs>>,
               MayHold(c) \subseteq MayHold(c)'
        PROVE  TxInv'
    <3>1. ASSUME NEW t \in open', t \in MayHold(t[1]) PROVE t \in MayHold(t[1])'
      <4>1. t[1] \in Injects
        BY <2>2, <3>1, Zenon DEF TxInv
      <4> QED BY <4>1, <3>1, <2>2, MayHoldOther, Zenon
    <3> QED BY <1>0, <2>2, <3>1, NothingOpened, Zenon
  <2>3. ASSUME NEW i, Begin(c, i), NEW s \in Steps, at' = [at EXCEPT ![c] = s], UNCHANGED txs,
               MayHold(c) \cup {Tx(c, i)} \subseteq MayHold(c)'
        PROVE  TxInv'
    <3>1. ASSUME NEW t \in open' PROVE t[1] \in Injects /\ (t \in txs' \/ t \in MayHold(t[1])')
      <4>1. CASE t = Tx(c, i)
        BY <4>1, <2>3, Zenon DEF Tx
      <4>2. CASE t \in open
        <5>1. t[1] \in Injects /\ (t \in txs \/ t \in MayHold(t[1]))
          BY <4>2, Zenon DEF TxInv
        <5> QED BY <5>1, <2>3, MayHoldOther, Zenon
      <4> QED BY <4>1, <4>2, <3>1, <2>3, Zenon DEF Begin
    <3> QED BY <1>0, <3>1, Zenon DEF TxInv
  <2>at. c \in DOMAIN at /\ \A s : at' = [at EXCEPT ![c] = s] => at'[c] = s
    BY Zenon DEF TxInv
  <2>4. CASE PoolLock(c)
    BY <2>4, <2>2, <2>at, Zenon DEF PoolLock, Goto, Steps, dbVars, MayHold
  <2>5. CASE PoolBegin(c)
    <3>1. open' = open \cup {Tx(c, Held(c))} /\ txs' = txs \cup {Tx(c, Held(c))} /\ UNCHANGED at
      BY <2>5, Zenon DEF PoolBegin, Begin
    <3>2. ASSUME NEW t \in open' PROVE t[1] \in Injects /\ (t \in txs' \/ t \in MayHold(t[1])')
      <4>1. CASE t = Tx(c, Held(c))
        BY <4>1, <3>1, Zenon DEF Tx
      <4>2. CASE t \in open
        BY <4>2, <3>1, Zenon DEF TxInv, MayHold
      <4> QED BY <4>1, <4>2, <3>1, <3>2, Zenon
    <3> QED BY <1>0, <3>2, Zenon DEF TxInv
  <2>6. CASE PoolReturn(c)
    BY <2>6, <2>2, <2>at, Zenon DEF PoolReturn, Goto, Steps, dbVars, MayHold
  <2>7. CASE BeginFirst(c)
    <3>1. MayHold(c) = {}
      BY <2>7, Zenon DEF BeginFirst, MayHold
    <3>2. ASSUME Begin(c, 1), NEW s \in {"BeginB", "Exec"}, at' = [at EXCEPT ![c] = s] PROVE TxInv'
      <4>1. MayHold(c)' = {Tx(c, 1)}
        BY <3>2, <2>at, Zenon DEF MayHold
      <4> QED BY <4>1, <3>1, <3>2, <2>3, <2>7, Zenon DEF BeginFirst, Goto, Steps, poolVars
    <3>3. ASSUME at' = [at EXCEPT ![c] = "returned"], UNCHANGED open PROVE TxInv'
      BY <3>1, <3>3, <2>2, <2>7, Zenon DEF BeginFirst, Goto, Steps, poolVars
    <3> QED BY <3>2, <3>3, <2>7, Zenon DEF BeginFirst, Goto, Steps
  <2>8. CASE BeginB(c)
    <3>1. MayHold(c) = {Tx(c, 1)}
      BY <2>8, Zenon DEF BeginB, MayHold
    <3>2. ASSUME Begin(c, 2), at' = [at EXCEPT ![c] = "Locks"] PROVE TxInv'
      <4>1. MayHold(c)' = {Tx(c, 1), Tx(c, 2)}
        BY <3>2, <2>at, Zenon DEF MayHold
      <4> QED BY <4>1, <3>1, <3>2, <2>3, <2>8, Zenon DEF BeginB, Goto, Steps, poolVars
    <3>3. ASSUME at' = [at EXCEPT ![c] = "returned"], Rollback({Tx(c, 1)}) PROVE TxInv'
      BY <3>1, <3>3, <2>1, <2>8, Zenon DEF BeginB, Goto, Steps, poolVars, Rollback
    <3> QED BY <3>2, <3>3, <2>8, Zenon DEF BeginB, Goto, Steps
  <2>9. CASE \E s \in {1, 2} : SideExec(c, s)
    BY <2>9, <1>1, Zenon DEF SideExec, Exec, poolVars
  <2>10. CASE DeadlockReturn(c)
    <3>1. MayHold(c) = {Tx(c, 1), Tx(c, 2)}
      BY <2>10, Zenon DEF DeadlockReturn, MayHold
    <3> QED BY <3>1, <2>1, <2>10, Zenon DEF DeadlockReturn, Goto, Steps, Rollback, poolVars
  <2>11. CASE ExecOne(c)
    <3>1. MayHold(c) = {Tx(c, 1)}
      BY <2>11, Zenon DEF ExecOne, MayHold
    <3>2. ASSUME Exec(Tx(c, 1)), at' = [at EXCEPT ![c] = "Hold"] PROVE TxInv'
      <4>1. MayHold(c)' = {Tx(c, 1)}
        BY <3>2, <2>at, Zenon DEF MayHold
      <4> QED BY <4>1, <3>1, <3>2, <2>2, <2>11, Zenon DEF ExecOne, Goto, Steps, Exec, poolVars
    <3>3. ASSUME at' = [at EXCEPT ![c] = "returned"], Rollback({Tx(c, 1)}) PROVE TxInv'
      BY <3>1, <3>3, <2>1, <2>11, Zenon DEF ExecOne, Goto, Steps, poolVars, Rollback
    <3> QED BY <3>2, <3>3, <2>11, Zenon DEF ExecOne, Goto, Steps
  <2>12. CASE HoldReturn(c)
    <3>1. MayHold(c) = {Tx(c, 1)}
      BY <2>12, Zenon DEF HoldReturn, MayHold
    <3> QED BY <3>1, <2>1, <2>12, Zenon DEF HoldReturn, Goto, Steps, Rollback, poolVars
  <2>13. CASE Crash(c)
    <3>1. MayHold(c) = {Tx(c, 1)}
      BY <2>13, Zenon DEF Crash, MayHold
    <3>2. ASSUME UNCHANGED open, at' = [at EXCEPT ![c] = "crashed"] PROVE TxInv'
      <4>1. MayHold(c)' = {Tx(c, 1)}
        BY <3>2, <2>at, Zenon DEF MayHold
      <4> QED BY <4>1, <3>1, <3>2, <2>2, <2>13, Zenon DEF Crash, Goto, Steps, poolVars
    <3>3. ASSUME at' = [at EXCEPT ![c] = "returned"], Rollback({Tx(c, 1)}) PROVE TxInv'
      BY <3>1, <3>3, <2>1, <2>13, Zenon DEF Crash, Goto, Steps, poolVars, Rollback
    <3> QED BY <3>2, <3>3, <2>13, Zenon DEF Crash, Goto, Steps
  <2>14. CASE SnapshotTable(c) \/ RestoreTable(c)
    <3>1. MayHold(c) = {}
      BY <2>14, Zenon DEF SnapshotTable, RestoreTable, MayHold
    <3>2. UNCHANGED <<open, txs>> /\ \E s \in Steps : at' = [at EXCEPT ![c] = s]
      BY <2>14, Zenon DEF SnapshotTable, RestoreTable, Goto, Steps, dbVars, poolVars
    <3> QED BY <3>1, <3>2, <2>2, Zenon
  <2> QED BY <1>2, <2>4, <2>5, <2>6, <2>7, <2>8, <2>9, <2>10, <2>11, <2>12, <2>13, <2>14, Zenon
          DEF Step
<1>3. ASSUME NEW c \in Injects, CtxDone(c) PROVE TxInv'
  BY <1>1, <1>3, Zenon DEF CtxDone, dbVars, poolVars
<1>4. CASE release /\ UNCHANGED at
  <2>1. open' = open \ txs
    BY <1>4, Zenon DEF release, Rollback
  <2> QED BY <2>1, <1>1, <1>4, Zenon
<1>5. ASSUME NEW t, CtxRollback(t) PROVE TxInv'
  BY <1>1, <1>5, Zenon DEF CtxRollback, Rollback, poolVars
<1>6. ASSUME NEW w, ClientWrites(w) PROVE TxInv'
  BY <1>1, <1>6, Zenon DEF ClientWrites, dbVars, poolVars
<1>7. CASE WorkNext
  BY <1>2, <1>3, <1>4, <1>5, <1>6, <1>7, Zenon DEF WorkNext, PoolTimer, Release
<1>8. CASE UNCHANGED workVars
  BY <1>1, <1>8, Zenon DEF workVars, dbVars, poolVars
<1> QED BY <1>7, <1>8, Zenon

\* No Inject, timer or end of a context leaves a connection of the pool in a
\* transaction that nobody will end.
THEOREM TransactionsAccounted == WorkSpec => []TxAccounted
<1>1. WorkInit => TxInv
  BY Zenon DEF WorkInit, TxInv, FirstStep, Steps
<1>2. TxInv => TxAccounted
  BY Zenon DEF TxInv, TxAccounted, MayHold, Returned
<1> QED BY <1>1, <1>2, TxStep, PTL DEF WorkSpec

-----------------------------------------------------------------------------
\* A step of another fault than a backup, or of none, leaves the backups alone.
LEMMA BackupOther ==
    ASSUME BackupInv, at' \in [Injects -> Steps], UNCHANGED backupVars,
           \A c \in Backups : at'[c] = at[c] \/ (at'[c] = "returned" /\ at[c] # "restored"),
           \A c \in Injects \ Backups : at'[c] \notin {"SnapshotTable", "Window"}
    PROVE  BackupInv'
BY Zenon DEF BackupInv, backupVars, LostInWindow, SnapshotCovers, Backups

LEMMA BackupStep ==
    ASSUME BackupInv, [WorkNext]_workVars
    PROVE  BackupInv'
<1>0. at' \in [Injects -> Steps]
  BY StepType, Zenon DEF BackupInv
<1>1. ASSUME UNCHANGED <<at, backupVars>> PROVE BackupInv'
  BY <1>0, <1>1, BackupOther, Zenon DEF BackupInv
<1>2. ASSUME NEW c \in Injects, Step(c) PROVE BackupInv'
  <2>1. \A s : at' = [at EXCEPT ![c] = s] =>
              at'[c] = s /\ \A d \in Injects : d # c => at'[d] = at[d]
    BY Zenon DEF BackupInv
  <2>2. CASE SnapshotTable(c)
    <3>1. ASSUME UNCHANGED snapshot, Goto(c, "returned") PROVE BackupInv'
      BY <1>0, <2>1, <2>2, <3>1, BackupOther, Zenon
        DEF BackupInv, SnapshotTable, Goto, backupVars, Backups
    <3>2. ASSUME snapshot' = table, Goto(c, "Window") PROVE BackupInv'
      <4>1. LostInWindow'
        BY <2>1, <2>2, <3>2, Zenon DEF BackupInv, LostInWindow, SnapshotTable, Goto, Backups
      <4>2. SnapshotCovers'
        BY <4>1, <2>2, <3>2, Zenon DEF LostInWindow, SnapshotCovers, SnapshotTable, Backups
      <4> QED BY <1>0, <2>1, <2>2, <3>2, <4>1, <4>2, Zenon
                DEF BackupInv, SnapshotTable, Goto, Backups
    <3> QED BY <2>2, <3>1, <3>2, Zenon DEF SnapshotTable
  <2>3. CASE RestoreTable(c)
    <3>1. ASSUME UNCHANGED table, Goto(c, "returned") PROVE BackupInv'
      BY <1>0, <2>1, <2>3, <3>1, BackupOther, Zenon
        DEF BackupInv, RestoreTable, Goto, backupVars, Backups
    <3>2. ASSUME table' = snapshot, Goto(c, "restored") PROVE BackupInv'
      <4>1. SnapshotCovers'
        BY <2>1, <2>3, <3>2, Zenon DEF BackupInv, SnapshotCovers, RestoreTable, Goto, Backups
      <4>2. LostInWindow'
        BY <2>1, <2>3, <3>2, Zenon
          DEF BackupInv, SnapshotCovers, LostInWindow, RestoreTable, Goto, Backups
      <4> QED BY <1>0, <2>1, <2>3, <3>2, <4>1, <4>2, Zenon
                DEF BackupInv, RestoreTable, Goto, Backups
    <3> QED BY <2>3, <3>1, <3>2, Zenon DEF RestoreTable
  <2>4. CASE PoolLock(c) \/ PoolReturn(c) \/ BeginFirst(c) \/ BeginB(c) \/ DeadlockReturn(c)
             \/ ExecOne(c) \/ HoldReturn(c) \/ Crash(c)
    <3>1. UNCHANGED backupVars
          /\ (\E s \in Steps \ {"SnapshotTable", "Window"} : at' = [at EXCEPT ![c] = s])
          /\ at[c] \in {"Lock", "PoolBegin", "Begin", "BeginB", "Locks", "Exec", "Hold"}
      BY <2>4, Zenon
        DEF PoolLock, PoolReturn, BeginFirst, BeginB, DeadlockReturn, ExecOne, HoldReturn,
                  Crash, Goto, Steps
    <3>2. c \notin Backups
      BY <3>1, Zenon DEF BackupInv
    <3> QED BY <1>0, <2>1, <3>1, <3>2, BackupOther, Zenon DEF BackupInv, Backups
  <2>5. CASE PoolBegin(c) \/ \E s \in {1, 2} : SideExec(c, s)
    BY <2>5, <1>1, Zenon DEF PoolBegin, SideExec
  <2> QED BY <1>2, <2>2, <2>3, <2>4, <2>5, Zenon DEF Step
<1>3. ASSUME NEW w, ClientWrites(w) PROVE BackupInv'
  <2>1. \A c \in Backups : window'[c] = IF at[c] = "Window" THEN window[c] \cup {w} ELSE window[c]
    BY <1>3, Zenon DEF ClientWrites
  <2>2. DOMAIN window' = Backups
    BY <1>3, Zenon DEF ClientWrites
  <2>3. LostInWindow' /\ SnapshotCovers'
    BY <2>1, <1>3, Zenon DEF ClientWrites, BackupInv, LostInWindow, SnapshotCovers, Backups
  <2> QED BY <1>0, <1>3, <2>2, <2>3, Zenon DEF BackupInv, ClientWrites, Backups
<1>4. CASE WorkNext
  BY <1>1, <1>2, <1>3, <1>4, Zenon DEF WorkNext, CtxDone, PoolTimer, CtxRollback, Release
<1>5. CASE UNCHANGED workVars
  BY <1>1, <1>5, Zenon DEF workVars
<1> QED BY <1>4, <1>5, Zenon

\* However backup windows overlap on the fault's one snapshot, an acknowledged write
\* that is gone was made in the window of a call that restored.
THEOREM RestoresLoseOwnWindow == WorkSpec => []LostInWindow
<1>1. WorkInit => BackupInv
  BY Zenon DEF WorkInit, BackupInv, FirstStep, Steps, Backups, IsFault, LostInWindow, SnapshotCovers
<1>2. BackupInv => LostInWindow
  BY Zenon DEF BackupInv
<1> QED BY <1>1, <1>2, BackupStep, PTL DEF WorkSpec
=============================================================================
