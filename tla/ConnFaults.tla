----------------------------- MODULE ConnFaults -----------------------------
(***************************************************************************)
(* The write side of the connection faults of internal/faults/network.go,  *)
(* stacked the way Registry.wrap stacks them: the fault registered last is *)
(* the outermost wrapper and the first to see a chunk.                     *)
(*                                                                         *)
(* A Write in progress is a stack of items still to be written, each at    *)
(* the wrapper that sees it next; depth 0 is the socket.  A wrapper turns  *)
(* its item into none, one or several one level down.  Fault objects are   *)
(* shared by all connections of the proxy; the reorder buffer belongs to   *)
(* the wrapper, and a rebuilt chain starts with an empty one.              *)
(*                                                                         *)
(* Time is counted in the time Rate allows for one byte, so that the       *)
(* bucket gains one token per unit.                                        *)
(* A socket that fails ends the session, which ProxySession models; here   *)
(* it takes what it is given.                                              *)
(***************************************************************************)
EXTENDS Integers, Sequences

CONSTANTS
    Conn,            \* destinations of pumps
    Blackholed,      \* those in the BlockDirection of asymmetric_partition
    Size,            \* lengths of a chunk
    Chains,          \* the orders in which faults are registered at the start
    Burst,           \* BandwidthThrottleFault: bucket capacity
    BufferSize,      \* ReorderFault
    MaxExtraCopies,  \* DuplicationFault
    BurstEvery,      \* BurstyLossFault, with a baseline loss of zero
    BurstFor

ASSUME ParamAssumption ==
    /\ Size \subseteq Nat \ {0}
    /\ Burst \in Nat /\ BufferSize \in Nat
    /\ MaxExtraCopies \in Nat \ {0}
    /\ BurstEvery \in Nat /\ BurstFor \in Nat
    /\ Chains \subseteq Seq(STRING)

VARIABLES
    now,
    chain,        \* Registry.connFaults, in the order of registration
    stale,        \* conns whose wrapped chain is of an older generation
    wrapped,      \* conn -> the chain its writes go through
    work,         \* conn -> the items of the Write in progress, next one first
    buf,          \* conn -> reorderConn.buf
    tokens, lastRefill,              \* BandwidthThrottleFault
    until, debt,                     \* conn -> its throttle's Sleep, and bytes it is for
    inBurst, burstEnds, lastCheck,   \* BurstyLossFault
    read,         \* conn -> chunks its pump has read
    sent,         \* conn -> chunks that reached the socket
    \* History, read by the properties and by nothing in the code:
    copied, dropped, lost,   \* conn -> chunks duplicated, dropped, lost with a buffer
    spent,        \* bytes let through for tokens
    paid,         \* conn -> bytes let through after waiting for them
    bursts        \* when bursts began

bucket == <<tokens, lastRefill, spent>>
sleep == <<until, debt, paid>>
burst == <<inBurst, burstEnds, lastCheck, bursts>>
fates == <<copied, dropped, lost>>
vars == <<now, chain, stale, wrapped, work, buf, tokens, lastRefill, until, debt,
          inBurst, burstEnds, lastCheck, read, sent, copied, dropped, lost,
          spent, paid, bursts>>

Init ==
    /\ now = 0
    /\ chain \in Chains
    /\ stale = Conn
    /\ wrapped = [c \in Conn |-> <<>>]
    /\ work = [c \in Conn |-> <<>>]
    /\ buf = [c \in Conn |-> <<>>]
    /\ tokens = Burst /\ lastRefill = 0 /\ spent = 0
    /\ until = [c \in Conn |-> 0]
    /\ debt = [c \in Conn |-> 0]
    /\ paid = [c \in Conn |-> 0]
    /\ inBurst = FALSE /\ burstEnds = 0 /\ bursts = {}
    /\ lastCheck = -BurstEvery - 1      \* the zero time.Time: long ago
    /\ read = [c \in Conn |-> 0]
    /\ sent = [c \in Conn |-> <<>>]
    /\ copied = [c \in Conn |-> {}]
    /\ dropped = [c \in Conn |-> {}]
    /\ lost = [c \in Conn |-> {}]

Chunks(s) == {s[i].chunk : i \in DOMAIN s}

Passing(d) ==
    /\ now' = now + d
    /\ UNCHANGED <<chain, stale, wrapped, work, buf, bucket, sleep, burst, read,
                   sent, fates>>

-----------------------------------------------------------------------------
(* The registry and the pump                                               *)

Without(s, i) == SubSeq(s, 1, i - 1) \o SubSeq(s, i + 1, Len(s))

\* A fault is unregistered, or one outside this module registered or removed:
\* either bumps the generation.  (A fault registered again is a new object.)
ChangeRegistry ==
    /\ \/ UNCHANGED chain
       \/ \E i \in DOMAIN chain : chain' = Without(chain, i)
    /\ stale' = Conn
    /\ UNCHANGED <<now, wrapped, work, buf, bucket, sleep, burst, read, sent, fates>>

\* Mutant: the pump does not wait for its last Write to return.
WriteUnserialised(c, n) ==
    /\ read' = [read EXCEPT ![c] = @ + 1]
    /\ work' = [work EXCEPT ![c] =
                  <<[chunk |-> read[c] + 1, size |-> n, depth |-> Len(wrapped[c]),
                     held |-> FALSE]>> \o @]
    /\ UNCHANGED <<now, chain, stale, wrapped, buf, bucket, sleep, burst, sent, fates>>

\* liveConn.Write of the next chunk, through a chain rebuilt when it is stale.
Write(c, n) ==
    LET through == IF c \in stale THEN chain ELSE wrapped[c] IN
    /\ work[c] = <<>>
    /\ read' = [read EXCEPT ![c] = @ + 1]
    /\ stale' = stale \ {c}
    /\ wrapped' = [wrapped EXCEPT ![c] = through]
    /\ buf' = [buf EXCEPT ![c] = IF c \in stale THEN <<>> ELSE @]
    /\ lost' = [lost EXCEPT ![c] = IF c \in stale THEN @ \cup Chunks(buf[c]) ELSE @]
    /\ work' = [work EXCEPT ![c] =
                  <<[chunk |-> read[c] + 1, size |-> n, depth |-> Len(through),
                    held |-> FALSE]>>]
    /\ UNCHANGED <<now, chain, bucket, sleep, burst, sent, copied, dropped>>

\* The next item of c's Write has come to wrapper f, and c is not asleep in it.
At(c, f) ==
    /\ work[c] # <<>> /\ debt[c] = 0
    /\ Head(work[c]).depth > 0
    /\ wrapped[c][Head(work[c]).depth] = f

Lower(item) == [item EXCEPT !.depth = @ - 1]

\* The current item gives way to items, each one wrapper further down.
Forward(c, items) ==
    work' = [work EXCEPT ![c] = [i \in DOMAIN items |-> Lower(items[i])] \o Tail(@)]

Pass(c) == Forward(c, <<Head(work[c])>>)

\* The wrapper reports success and writes nothing now.
Swallow(c) == Forward(c, <<>>)

Drop(c) ==
    /\ Swallow(c)
    /\ dropped' = [dropped EXCEPT ![c] = @ \cup {Head(work[c]).chunk}]

Deliver(c) ==
    /\ work[c] # <<>> /\ Head(work[c]).depth = 0
    /\ sent' = [sent EXCEPT ![c] = Append(@, Head(work[c]))]
    /\ work' = [work EXCEPT ![c] = Tail(@)]
    /\ UNCHANGED <<now, chain, stale, wrapped, buf, bucket, sleep, burst, read, fates>>

-----------------------------------------------------------------------------
(* bandwidth_throttle                                                      *)

refill ==
    LET t == tokens + (now - lastRefill) IN IF t > Burst THEN Burst ELSE t

\* take finds enough tokens.
TakeTokens(c) ==
    LET n == Head(work[c]).size IN
    /\ At(c, "bandwidth_throttle")
    /\ refill >= n
    /\ tokens' = refill - n
    /\ lastRefill' = now
    /\ spent' = spent + n
    /\ Pass(c)
    /\ UNCHANGED <<now, chain, stale, wrapped, buf, sleep, burst, read, sent, fates>>

\* take empties the bucket and sleeps for the rest.  What accrues meanwhile
\* goes into the bucket all the same.
TakeDeficit(c) ==
    LET n == Head(work[c]).size IN
    /\ At(c, "bandwidth_throttle")
    /\ refill < n
    /\ tokens' = 0
    /\ lastRefill' = now
    /\ spent' = spent + refill
    /\ debt' = [debt EXCEPT ![c] = n - refill]
    /\ until' = [until EXCEPT ![c] = now + (n - refill)]
    /\ UNCHANGED <<now, chain, stale, wrapped, work, buf, paid, burst, read, sent,
                   fates>>

\* Mutant: the write does not wait for its Sleep.
WakeEarly(c) ==
    /\ debt[c] > 0
    /\ paid' = [paid EXCEPT ![c] = @ + debt[c]]
    /\ debt' = [debt EXCEPT ![c] = 0]
    /\ Pass(c)
    /\ UNCHANGED <<now, chain, stale, wrapped, buf, bucket, until, burst, read,
                   sent, fates>>

\* time.Sleep returns, at its time or later.
Wake(c) ==
    /\ debt[c] > 0 /\ now >= until[c]
    /\ paid' = [paid EXCEPT ![c] = @ + debt[c]]
    /\ debt' = [debt EXCEPT ![c] = 0]
    /\ Pass(c)
    /\ UNCHANGED <<now, chain, stale, wrapped, buf, bucket, until, burst, read,
                   sent, fates>>

-----------------------------------------------------------------------------
(* reorder                                                                 *)

Shuffles(s) ==
    {[i \in DOMAIN s |-> s[p[i]]] :
        p \in {q \in [DOMAIN s -> DOMAIN s] : \A i, j \in DOMAIN s : q[i] = q[j] => i = j}}

\* Mutant: a flushed buffer is not emptied.
HoldKeeping(c) ==
    LET held == Append(buf[c], [Head(work[c]) EXCEPT !.held = TRUE]) IN
    /\ At(c, "reorder")
    /\ Len(buf[c]) < BufferSize
    /\ buf' = [buf EXCEPT ![c] = held]
    /\ \/ Len(held) < BufferSize /\ Swallow(c)
       \/ Len(held) = BufferSize /\ \E s \in Shuffles(held) : Forward(c, s)
    /\ UNCHANGED <<now, chain, stale, wrapped, bucket, sleep, burst, read, sent, fates>>

\* The item is buffered; a buffer it fills is shuffled and flushed.
Hold(c) ==
    LET held == Append(buf[c], [Head(work[c]) EXCEPT !.held = TRUE]) IN
    /\ At(c, "reorder")
    /\ Len(buf[c]) < BufferSize
    /\ \/ /\ Len(held) < BufferSize
          /\ buf' = [buf EXCEPT ![c] = held]
          /\ Swallow(c)
       \/ /\ Len(held) = BufferSize
          /\ buf' = [buf EXCEPT ![c] = <<>>]
          /\ \E s \in Shuffles(held) : Forward(c, s)
    /\ UNCHANGED <<now, chain, stale, wrapped, bucket, sleep, burst, read, sent, fates>>

PassReorder(c) ==
    /\ At(c, "reorder")
    /\ Pass(c)
    /\ UNCHANGED <<now, chain, stale, wrapped, buf, bucket, sleep, burst, read, sent,
                   fates>>

-----------------------------------------------------------------------------
(* duplication, asymmetric_partition, bursty_loss                          *)

Duplicate(c) ==
    /\ At(c, "duplication")
    /\ \E k \in 0..MaxExtraCopies :
          /\ Forward(c, [i \in 1..(k + 1) |-> Head(work[c])])
          /\ copied' = [copied EXCEPT ![c] =
                          IF k = 0 THEN @ ELSE @ \cup {Head(work[c]).chunk}]
    /\ UNCHANGED <<now, chain, stale, wrapped, buf, bucket, sleep, burst, read, sent,
                   dropped, lost>>

\* Apply leaves the other direction unwrapped.
Blackhole(c) ==
    /\ At(c, "asymmetric_partition")
    /\ IF c \in Blackholed THEN Drop(c) ELSE Pass(c) /\ UNCHANGED dropped
    /\ UNCHANGED <<now, chain, stale, wrapped, buf, bucket, sleep, burst, read, sent,
                   copied, lost>>

BurstOver == inBurst /\ now > burstEnds

\* Mutant: the schedule is not consulted.
BurstDueAlways == ~inBurst \/ BurstOver

BurstDue == (~inBurst \/ BurstOver) /\ now - lastCheck > BurstEvery

\* currentLossRate moves the burst schedule on and says whether a burst is on.
currentLossRate(bursting) ==
    /\ inBurst' = (BurstDue \/ (inBurst /\ ~BurstOver))
    /\ burstEnds' = IF BurstDue THEN now + BurstFor ELSE burstEnds
    /\ lastCheck' = IF BurstDue THEN now ELSE lastCheck
    /\ bursts' = IF BurstDue THEN bursts \cup {now} ELSE bursts
    /\ bursting = inBurst'

BurstyLoss(c) ==
    /\ At(c, "bursty_loss")
    /\ \/ currentLossRate(TRUE) /\ Drop(c)
       \/ (\E b \in BOOLEAN : currentLossRate(b)) /\ Pass(c) /\ UNCHANGED dropped
    /\ UNCHANGED <<now, chain, stale, wrapped, buf, bucket, sleep, read, sent, copied,
                   lost>>

-----------------------------------------------------------------------------

Wrapper(c) ==
    \/ TakeTokens(c) \/ TakeDeficit(c) \/ Wake(c)
    \/ Hold(c) \/ PassReorder(c)
    \/ Duplicate(c) \/ Blackhole(c) \/ BurstyLoss(c)
    \/ Deliver(c)

Next ==
    \/ Passing(1)
    \/ ChangeRegistry
    \/ \E c \in Conn, n \in Size : Write(c, n)
    \/ \E c \in Conn : Wrapper(c)

Spec == Init /\ [][Next]_vars

-----------------------------------------------------------------------------
(* Properties                                                              *)

Item == [chunk : Nat, size : Size, depth : Nat, held : BOOLEAN]

\* Items are well formed, buffers within their size, and the bucket's content
\* between nothing and its capacity.
TypeOK ==
    /\ now \in Nat /\ lastRefill \in 0..now /\ tokens \in 0..Burst
    /\ stale \subseteq Conn
    /\ work \in [Conn -> Seq(Item)]
    /\ buf \in [Conn -> Seq(Item)] /\ \A c \in Conn : Len(buf[c]) <= BufferSize
    /\ until \in [Conn -> Nat] /\ debt \in [Conn -> Nat] /\ paid \in [Conn -> Nat]
    /\ spent \in Nat
    /\ inBurst \in BOOLEAN /\ burstEnds \in Nat /\ lastCheck \in Int

\* What the throttle lets through: for tokens, no more than the bucket's
\* capacity and Rate allow over the time; on top of that, each connection no
\* more than Rate allows over its own waiting (BandwidthThrottleFault.take).
ThrottleBound ==
    /\ spent <= Burst + now
    /\ \A c \in Conn : paid[c] <= now

Copies(s, k) == {i \in DOMAIN s : s[i].chunk = k}

\* Where a chunk can be: at the socket, in the Write in progress, or held back.
Present(c, k) ==
    Copies(sent[c], k) # {} \/ Copies(work[c], k) # {} \/ Copies(buf[c], k) # {}

Once(c, k) ==
    /\ \A s \in {sent[c], work[c], buf[c]} : \A i, j \in Copies(s, k) : i = j
    /\ Copies(sent[c], k) = {} \/ Copies(work[c], k) = {}
    /\ Copies(sent[c] \o work[c], k) = {} \/ Copies(buf[c], k) = {}

\* However wrappers are stacked and chains rebuilt, a chunk the pump wrote is
\* lost only if a fault dropped it or a held-back buffer was abandoned, and is
\* there twice only if duplication copied it.
ChunkFates ==
    \A c \in Conn : \A k \in 1..read[c] :
        /\ k \notin dropped[c] \cup lost[c] => Present(c, k)
        /\ k \notin copied[c] => Once(c, k)

\* Only reordering lets one chunk overtake another: dropped, copied, late or
\* faulted by chains changed under way, the rest arrives in the order read.
OrderKept ==
    \A c \in Conn : \A i, j \in DOMAIN sent[c] :
        i < j /\ sent[c][i].chunk > sent[c][j].chunk => sent[c][j].held

\* With no baseline loss, bursty_loss drops only within BurstFor of the start of
\* a burst, and bursts start more than BurstEvery apart, though the schedule is
\* looked at only when some connection writes.
LossInBursts ==
    [][/\ \A s, t \in bursts' : s < t => t - s > BurstEvery
       /\ \A c \in Conn : At(c, "bursty_loss") /\ dropped'[c] # dropped[c] =>
             \E b \in bursts' : now \in b..(b + BurstFor)]_vars
=============================================================================
