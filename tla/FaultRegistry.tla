---------------------------- MODULE FaultRegistry ---------------------------
(***************************************************************************)
(* The fault Registry of one proxy (internal/proxy/registry.go), the       *)
(* liveConn wrappers through which its pumps write, and the goroutines     *)
(* that tick time-varying faults.                                          *)
(*                                                                         *)
(* A step is one section under the registry's lock.  A list of faults is   *)
(* the set of its members: the order of wrappers is told apart by no       *)
(* property, and the one order the code insists on (RSTFault first, on the *)
(* raw connection) is what makes its effect in Rewrap unconditional.       *)
(***************************************************************************)
EXTENDS Integers, FiniteSets

CONSTANTS
    Conn,       \* destinations of pumps, each written by one pump
    Varying,    \* names of conn faults with a Tick (latency, bursty_loss)
    Steady,     \* names of the other conn faults
    Rst,        \* tcp_rst, the conn fault that acts on the socket itself
    Packet,     \* names of packet faults
    Dial,       \* names of dial faults
    Hook        \* names of read hooks

ConnName == Varying \cup Steady \cup {Rst}
Name == ConnName \cup Packet \cup Dial \cup Hook

\* A name belongs to one class of faults.
ASSUME NamesAssumption ==
    /\ ConnName \cap (Packet \cup Dial \cup Hook) = {}
    /\ Packet \cap (Dial \cup Hook) = {}
    /\ Dial \cap Hook = {}

VARIABLES
    connFaults, packetFaults, dialFaults, readHooks,   \* the four lists
    gen,        \* bumped on every mutation
    made,       \* faults created so far: gives every instance its identity
    tickers,    \* the faults with an entry in the tickers map
    stopped,    \* the faults whose stop channel is closed
    driving,    \* the faults whose ticking goroutine is alive
    step,       \* conn -> where its pump is with the current chunk
    snapshot,   \* conn -> the packet faults taken for the current chunk
    wrapped,    \* conn -> liveConn.wrapped: the conn faults in the chain
    wrapGen,    \* conn -> liveConn.gen, or -1 while wrapped is nil
    linger,     \* conns set to close with a reset
    \* History, read by the properties and by nothing in the code:
    began,      \* conn -> the generation when the current chunk was read
    past        \* generation -> the <<conn, packet>> faults it stands for

lists == <<connFaults, packetFaults, dialFaults, readHooks>>
pumpVars == <<step, snapshot, wrapped, wrapGen, linger, began>>
proxyVars == <<connFaults, packetFaults, dialFaults, readHooks, gen, made,
               tickers, stopped, driving, step, snapshot, wrapped, wrapGen,
               linger, began, past>>

Fault == [name : Name, id : Nat]

RegistryInit ==
    /\ connFaults = {} /\ packetFaults = {} /\ dialFaults = {} /\ readHooks = {}
    /\ gen = 0 /\ made = 0
    /\ tickers = {} /\ stopped = {} /\ driving = {}
    /\ step = [c \in Conn |-> "idle"]
    /\ snapshot = [c \in Conn |-> {}]
    /\ wrapped = [c \in Conn |-> {}]
    /\ wrapGen = [c \in Conn |-> -1]
    /\ linger = {}
    /\ began = [c \in Conn |-> 0]
    /\ past = [g \in {0} |-> <<{}, {}>>]

-----------------------------------------------------------------------------
(* Mutations: the control API and the scenario engine                      *)

Named(list, n) == {f \in list : f.name = n}

\* Mutant: never replaces.
appendOnly(list, f) == list \cup {f}

\* One match is replaced; any further fault of the name would stay.
replaceOrAppend(list, f) ==
    IF Named(list, f.name) = {} THEN list \cup {f}
    ELSE (list \ {CHOOSE g \in Named(list, f.name) : TRUE}) \cup {f}

filter(list, n) == list \ Named(list, n)

bumpGen ==
    /\ gen' = gen + 1
    /\ past' = [g \in DOMAIN past \cup {gen + 1} |->
                  IF g = gen + 1 THEN <<connFaults', packetFaults'>> ELSE past[g]]

\* Mutant: forgets the tickers without closing their channels.
forgetTickers(gone) == tickers' = tickers \ gone /\ UNCHANGED stopped

stopTickers(gone) ==
    /\ stopped' = stopped \cup gone
    /\ tickers' = tickers \ gone

\* Mutant: the old ticker's channel is overwritten, not closed.
startTickerOver(f, old) ==
    /\ tickers' = (tickers \ old) \cup {f}
    /\ driving' = driving \cup {f}
    /\ UNCHANGED stopped

\* The ticker of the fault being replaced is stopped first.
startTicker(f, old) ==
    /\ stopped' = stopped \cup old
    /\ tickers' = (tickers \ old) \cup {f}
    /\ driving' = driving \cup {f}

RegisterConnFault(n) ==
    LET f == [name |-> n, id |-> made] IN
    /\ made' = made + 1
    /\ connFaults' = replaceOrAppend(connFaults, f)
    /\ IF n \in Varying
       THEN startTicker(f, Named(tickers, n))
       ELSE stopTickers(Named(tickers, n)) /\ UNCHANGED driving
    /\ UNCHANGED <<packetFaults, dialFaults, readHooks>>
    /\ bumpGen
    /\ UNCHANGED pumpVars

RegisterPacketFault(n) ==
    /\ made' = made + 1
    /\ packetFaults' = replaceOrAppend(packetFaults, [name |-> n, id |-> made])
    /\ UNCHANGED <<connFaults, dialFaults, readHooks, tickers, stopped, driving>>
    /\ bumpGen
    /\ UNCHANGED pumpVars

RegisterDialFault(n) ==
    /\ made' = made + 1
    /\ dialFaults' = replaceOrAppend(dialFaults, [name |-> n, id |-> made])
    /\ UNCHANGED <<connFaults, packetFaults, readHooks, tickers, stopped, driving>>
    /\ bumpGen
    /\ UNCHANGED pumpVars

RegisterReadHook(n) ==
    /\ made' = made + 1
    /\ readHooks' = replaceOrAppend(readHooks, [name |-> n, id |-> made])
    /\ UNCHANGED <<connFaults, packetFaults, dialFaults, tickers, stopped, driving>>
    /\ bumpGen
    /\ UNCHANGED pumpVars

\* Some list has a fault of the name; otherwise the generation stays.
Found(n) ==
    Named(connFaults \cup packetFaults \cup dialFaults \cup readHooks, n) # {}

Unregister(n) ==
    /\ connFaults' = filter(connFaults, n)
    /\ packetFaults' = filter(packetFaults, n)
    /\ dialFaults' = filter(dialFaults, n)
    /\ readHooks' = filter(readHooks, n)
    /\ stopTickers(Named(tickers, n))
    /\ IF Found(n) THEN bumpGen ELSE UNCHANGED <<gen, past>>
    /\ UNCHANGED <<made, driving, pumpVars>>

Clear ==
    /\ connFaults' = {} /\ packetFaults' = {} /\ dialFaults' = {} /\ readHooks' = {}
    /\ stopTickers(tickers)
    /\ bumpGen
    /\ UNCHANGED <<made, driving, pumpVars>>

\* The ticking goroutine of f sees its stop channel closed.  Until it does it
\* may tick f once more; nothing here depends on how far a fault has ramped.
TickerReturns(f) ==
    /\ f \in driving /\ f \in stopped
    /\ driving' = driving \ {f}
    /\ UNCHANGED <<lists, gen, made, tickers, stopped, pumpVars, past>>

-----------------------------------------------------------------------------
(* A pump's chunk: packet faults of a snapshot, then the wrapped write     *)

registryVars == <<lists, gen, made, tickers, stopped, driving, past>>

StepTo(c, from, to) == step[c] = from /\ step' = [step EXCEPT ![c] = to]

\* pump has read a chunk.
PumpReads(c) ==
    /\ StepTo(c, "idle", "read")
    /\ began' = [began EXCEPT ![c] = gen]
    /\ UNCHANGED <<registryVars, snapshot, wrapped, wrapGen, linger>>

\* PacketFaults copies the list; the faults are applied from the copy, unlocked.
TakeSnapshot(c) ==
    /\ StepTo(c, "read", "faulting")
    /\ snapshot' = [snapshot EXCEPT ![c] = packetFaults]
    /\ UNCHANGED <<registryVars, wrapped, wrapGen, linger, began>>

\* A packet fault dropped the chunk.
PumpDrops(c) ==
    /\ snapshot[c] # {}
    /\ StepTo(c, "faulting", "idle")
    /\ UNCHANGED <<registryVars, snapshot, wrapped, wrapGen, linger, began>>

\* Mutant: the chain is built on the first write only.
CompareGenOnce(c) ==
    /\ StepTo(c, "faulting", IF wrapGen[c] # -1 THEN "write" ELSE "stale")
    /\ UNCHANGED <<registryVars, snapshot, wrapped, wrapGen, linger, began>>

\* liveConn.Write compares generations under the lock ...
CompareGen(c) ==
    /\ StepTo(c, "faulting", IF wrapGen[c] = gen THEN "write" ELSE "stale")
    /\ UNCHANGED <<registryVars, snapshot, wrapped, wrapGen, linger, began>>

\* ... and rebuilds the chain, in a second locked section, when they differ.
Rewrap(c) ==
    /\ StepTo(c, "stale", "write")
    /\ wrapped' = [wrapped EXCEPT ![c] = connFaults]
    /\ wrapGen' = [wrapGen EXCEPT ![c] = gen]
    /\ linger' = IF Named(connFaults, Rst) # {} THEN linger \cup {c} ELSE linger
    /\ UNCHANGED <<registryVars, snapshot, began>>

\* The write goes through the chain it picked up, with no lock held.
WriteDone(c) ==
    /\ StepTo(c, "write", "idle")
    /\ UNCHANGED <<registryVars, snapshot, wrapped, wrapGen, linger, began>>

Pump(c) == PumpReads(c) \/ TakeSnapshot(c) \/ PumpDrops(c) \/ CompareGen(c)
           \/ Rewrap(c) \/ WriteDone(c)

Mutate ==
    \/ \E n \in ConnName : RegisterConnFault(n)
    \/ \E n \in Packet : RegisterPacketFault(n)
    \/ \E n \in Dial : RegisterDialFault(n)
    \/ \E n \in Hook : RegisterReadHook(n)
    \/ \E n \in Name : Unregister(n)
    \/ Clear

RegistryNext ==
    \/ Mutate
    \/ \E f \in driving : TickerReturns(f)
    \/ \E c \in Conn : Pump(c)

\* A goroutine whose stop channel is closed gets to see it.
TickerFairness == \A f \in Fault : WF_proxyVars(TickerReturns(f))

RegistrySpec == RegistryInit /\ [][RegistryNext]_proxyVars /\ TickerFairness

-----------------------------------------------------------------------------
(* Properties                                                              *)

\* Every list holds faults of its own class, and every counter is in range.
RegistryTypeOK ==
    /\ connFaults \subseteq {f \in Fault : f.name \in ConnName}
    /\ packetFaults \subseteq {f \in Fault : f.name \in Packet}
    /\ dialFaults \subseteq {f \in Fault : f.name \in Dial}
    /\ readHooks \subseteq {f \in Fault : f.name \in Hook}
    /\ gen \in Nat /\ made \in Nat
    /\ tickers \subseteq Fault /\ stopped \subseteq Fault /\ driving \subseteq Fault
    /\ step \in [Conn -> {"idle", "read", "faulting", "stale", "write"}]
    /\ snapshot \in [Conn -> SUBSET Fault]
    /\ wrapped \in [Conn -> SUBSET Fault]
    /\ wrapGen \in [Conn -> Nat \cup {-1}]
    /\ linger \subseteq Conn
    /\ began \in [Conn -> Nat]
    /\ DOMAIN past = 0..gen

\* Faults take effect live: a chunk is written through exactly the conn faults
\* of one moment since it was read, however the registry changed between the
\* two locked sections of liveConn.Write, and through its packet faults of one
\* such moment.
WriteIsCurrent ==
    \A c \in Conn :
        /\ step[c] = "write" => \E g \in began[c]..gen : wrapped[c] = past[g][1]
        /\ step[c] \in {"faulting", "stale", "write"} =>
              \E g \in began[c]..gen : snapshot[c] = past[g][2]

\* Each time-varying fault in the list has a goroutine ticking it that nobody
\* has stopped, and no other such goroutine exists: none leaks when a fault is
\* replaced, removed or cleared, and none is stopped in place of another.
TickersExact ==
    /\ tickers = {f \in connFaults : f.name \in Varying}
    /\ tickers = driving \ stopped

\* Re-injecting a fault retunes it: no two live faults share a name.
OnePerName ==
    \A f, g \in connFaults \cup packetFaults \cup dialFaults \cup readHooks :
        f.name = g.name => f = g
=============================================================================
