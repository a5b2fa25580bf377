---------------------------- MODULE ProxyProofs -----------------------------
(***************************************************************************)
(* The safety properties of a proxy: of FaultRegistry, for any number of   *)
(* connections, faults and mutations, and of ProxySession, for any number  *)
(* of sessions and of concurrent control calls.                            *)
(***************************************************************************)
EXTENDS FaultRegistry, ProxySession, FiniteSetTheorems, TLAPS

-----------------------------------------------------------------------------
(* The registry                                                            *)

\* A new instance differs from every fault seen so far.
IdsFresh ==
    \A f \in connFaults \cup packetFaults \cup dialFaults \cup readHooks
             \cup tickers \cup stopped \cup driving : f.id < made

\* One fault per name in one list.
Single(list) == \A f, g \in list : f.name = g.name => f = g
Singles == Single(connFaults) /\ Single(packetFaults) /\ Single(dialFaults) /\ Single(readHooks)

\* The history records what each generation stands for, and the generations a
\* connection refers to are past ones.
PastExact == past[gen] = <<connFaults, packetFaults>>

PumpsCurrent ==
    \A c \in Conn :
        /\ began[c] <= gen /\ wrapGen[c] <= gen
        /\ wrapGen[c] # -1 => wrapped[c] = past[wrapGen[c]][1]
        /\ step[c] = "write" => wrapGen[c] >= began[c]
        /\ step[c] \in {"faulting", "stale", "write"} =>
              \E g \in began[c]..gen : snapshot[c] = past[g][2]

RegistryInv == RegistryTypeOK /\ IdsFresh /\ Singles /\ TickersExact /\ PastExact /\ PumpsCurrent

-----------------------------------------------------------------------------
LEMMA ReplaceSingle ==
    ASSUME NEW list, NEW f, Single(list)
    PROVE  /\ Single(replaceOrAppend(list, f))
           /\ replaceOrAppend(list, f) = (list \ Named(list, f.name)) \cup {f}
<1>1. CASE Named(list, f.name) = {}
  BY <1>1, Zenon DEF Single, Named, replaceOrAppend
<1>2. CASE Named(list, f.name) # {}
  <2> DEFINE g == CHOOSE g \in Named(list, f.name) : TRUE
  <2>1. g \in Named(list, f.name)
    BY <1>2, Zenon
  <2>2. Named(list, f.name) = {g}
    BY <2>1, Zenon DEF Single, Named
  <2> HIDE DEF g
  <2>3. replaceOrAppend(list, f) = (list \ {g}) \cup {f}
    BY <1>2, Zenon DEF replaceOrAppend, g
  <2> QED
    BY <2>2, <2>3, Zenon DEF Single, Named
<1> QED
  BY <1>1, <1>2, Zenon

LEMMA FilterSingle ==
    ASSUME NEW list, NEW n, Single(list) PROVE Single(filter(list, n))
BY Zenon DEF Single, filter, Named

\* A mutation that bumps the generation leaves every pump as current as it was.
LEMMA BumpKeepsPumps ==
    ASSUME RegistryTypeOK, PastExact, PumpsCurrent, bumpGen, UNCHANGED pumpVars
    PROVE  /\ gen' \in Nat /\ DOMAIN past' = 0..gen'
           /\ PastExact' /\ PumpsCurrent'
<1>1. gen \in Nat /\ gen' = gen + 1 /\ DOMAIN past = 0..gen
  BY Zenon DEF RegistryTypeOK, bumpGen
<1>2. 0..gen \cup {gen + 1} = 0..(gen + 1)
  BY <1>1
<1>3. past' = [g \in 0..(gen + 1) |->
                 IF g = gen + 1 THEN <<connFaults', packetFaults'>> ELSE past[g]]
  BY <1>1, <1>2, Zenon DEF bumpGen
<1>4. gen' \in Nat /\ DOMAIN past' = 0..gen' /\ PastExact'
  BY <1>1, <1>3 DEF PastExact
<1>5. \A g \in 0..gen : past'[g] = past[g]
  BY <1>1, <1>3
<1>6. ASSUME NEW c \in Conn
      PROVE  /\ began'[c] <= gen' /\ wrapGen'[c] <= gen'
             /\ wrapGen'[c] # -1 => wrapped'[c] = past'[wrapGen'[c]][1]
             /\ step'[c] = "write" => wrapGen'[c] >= began'[c]
             /\ step'[c] \in {"faulting", "stale", "write"} =>
                   \E g \in began'[c]..gen' : snapshot'[c] = past'[g][2]
  <2>1. /\ began[c] \in Nat /\ wrapGen[c] \in Nat \cup {-1}
        /\ began'[c] = began[c] /\ wrapGen'[c] = wrapGen[c] /\ wrapped'[c] = wrapped[c]
        /\ step'[c] = step[c] /\ snapshot'[c] = snapshot[c]
    BY Zenon DEF RegistryTypeOK, pumpVars
  <2>2. began[c] <= gen /\ wrapGen[c] <= gen
    BY Zenon DEF PumpsCurrent
  <2>3. wrapGen[c] # -1 => wrapGen[c] \in 0..gen
    BY <1>1, <2>1, <2>2
  <2>4. wrapGen[c] # -1 => wrapped'[c] = past'[wrapGen'[c]][1]
    BY <1>5, <2>1, <2>3, Zenon DEF PumpsCurrent
  <2>5. ASSUME step[c] \in {"faulting", "stale", "write"}
        PROVE  \E g \in began'[c]..gen' : snapshot'[c] = past'[g][2]
    <3>1. PICK g \in began[c]..gen : snapshot[c] = past[g][2]
      BY <2>5, Zenon DEF PumpsCurrent
    <3>2. g \in 0..gen /\ g \in began[c]..gen'
      BY <1>1, <2>1, <3>1
    <3> QED
      BY <1>5, <2>1, <3>1, <3>2, Zenon
  <2> QED
    BY <1>1, <2>1, <2>2, <2>4, <2>5 DEF PumpsCurrent
<1> QED
  BY <1>4, <1>6, Zenon DEF PumpsCurrent

-----------------------------------------------------------------------------
(* The mutations                                                           *)

\* A registration brings one new instance, whose number is the next one.
LEMMA FreshKept ==
    ASSUME RegistryInv, NEW f, f.id = made, made' = made + 1,
           connFaults' \subseteq connFaults \cup {f}, packetFaults' \subseteq packetFaults \cup {f},
           dialFaults' \subseteq dialFaults \cup {f}, readHooks' \subseteq readHooks \cup {f},
           tickers' \subseteq tickers \cup {f}, driving' \subseteq driving \cup {f},
           stopped' \subseteq stopped \cup tickers
    PROVE  IdsFresh'
<1> DEFINE All == connFaults \cup packetFaults \cup dialFaults \cup readHooks \cup tickers
                  \cup stopped \cup driving
<1>1. All \subseteq Fault /\ made \in Nat
  BY Zenon DEF RegistryInv, RegistryTypeOK
<1>2. \A g \in All : g.id < made
  BY Zenon DEF RegistryInv, IdsFresh
<1>3. \A g \in All' : g = f \/ g \in All
  BY Zenon
<1> HIDE DEF All
<1>4. \A g \in All : g.id \in Nat
  BY <1>1, Zenon DEF Fault
<1>5. \A g \in All' : g.id < made'
  BY <1>1, <1>2, <1>3, <1>4
<1> QED
  BY <1>5, Zenon DEF All, IdsFresh

LEMMA RegisterConnInd ==
    ASSUME RegistryInv, NEW n \in ConnName, RegisterConnFault(n)
    PROVE  RegistryInv'
<1> DEFINE f == [name |-> n, id |-> made]
<1>1. f \in Fault /\ f.name = n /\ f.id = made
  BY Zenon DEF RegistryInv, RegistryTypeOK, Fault, Name
<1>2. connFaults' = (connFaults \ Named(connFaults, n)) \cup {f} /\ Single(connFaults)'
  BY <1>1, ReplaceSingle, Zenon DEF RegistryInv, Singles, RegisterConnFault
<1>3. \/ n \in Varying /\ startTicker(f, Named(tickers, n))
      \/ n \notin Varying /\ stopTickers(Named(tickers, n)) /\ driving' = driving
  BY Zenon DEF RegisterConnFault
<1> HIDE DEF f
<1>4. PastExact' /\ PumpsCurrent' /\ gen' \in Nat /\ DOMAIN past' = 0..gen'
  BY BumpKeepsPumps, Zenon DEF RegistryInv, RegisterConnFault
<1>5. /\ tickers' \subseteq tickers \cup {f} /\ driving' \subseteq driving \cup {f}
      /\ stopped' \subseteq stopped \cup tickers
  BY <1>3, Zenon DEF startTicker, stopTickers, Named
<1>6. RegistryTypeOK'
  BY <1>1, <1>2, <1>4, <1>5 DEF RegistryInv, RegistryTypeOK, RegisterConnFault, pumpVars
<1>7. IdsFresh'
  BY <1>1, <1>2, <1>5, FreshKept, Zenon DEF RegisterConnFault
<1>8. Singles'
  BY <1>2, Zenon DEF RegistryInv, Singles, Single, RegisterConnFault
<1>9. TickersExact'
  <2>1. f \notin stopped /\ f \notin tickers
    BY <1>1 DEF RegistryInv, IdsFresh, RegistryTypeOK
  <2>2. CASE n \in Varying /\ startTicker(f, Named(tickers, n))
    BY <1>1, <1>2, <2>1, <2>2, Zenon DEF RegistryInv, TickersExact, startTicker, Named
  <2>3. CASE n \notin Varying /\ stopTickers(Named(tickers, n)) /\ driving' = driving
    BY <1>1, <1>2, <2>3, Zenon DEF RegistryInv, TickersExact, stopTickers, Named
  <2> QED
    BY <1>3, <2>2, <2>3, Zenon
<1> QED
  BY <1>4, <1>6, <1>7, <1>8, <1>9, Zenon DEF RegistryInv

LEMMA RegisterPacketInd ==
    ASSUME RegistryInv, NEW n \in Packet, RegisterPacketFault(n)
    PROVE  RegistryInv'
<1> DEFINE f == [name |-> n, id |-> made]
<1>1. f \in Fault /\ f.name = n /\ f.id = made
  BY Zenon DEF RegistryInv, RegistryTypeOK, Fault, Name
<1>2. packetFaults' = (packetFaults \ Named(packetFaults, n)) \cup {f} /\ Single(packetFaults)'
  BY <1>1, ReplaceSingle, Zenon DEF RegistryInv, Singles, RegisterPacketFault
<1> HIDE DEF f
<1>3. PastExact' /\ PumpsCurrent' /\ gen' \in Nat /\ DOMAIN past' = 0..gen'
  BY BumpKeepsPumps, Zenon DEF RegistryInv, RegisterPacketFault
<1>4. RegistryTypeOK'
  BY <1>1, <1>2, <1>3 DEF RegistryInv, RegistryTypeOK, RegisterPacketFault, pumpVars
<1>5. IdsFresh'
  BY <1>1, <1>2, FreshKept, Zenon DEF RegisterPacketFault
<1>6. Singles' /\ TickersExact'
  BY <1>2, Zenon DEF RegistryInv, Singles, Single, TickersExact, RegisterPacketFault
<1> QED
  BY <1>3, <1>4, <1>5, <1>6, Zenon DEF RegistryInv

LEMMA RegisterDialInd ==
    ASSUME RegistryInv, NEW n \in Dial, RegisterDialFault(n)
    PROVE  RegistryInv'
<1> DEFINE f == [name |-> n, id |-> made]
<1>1. f \in Fault /\ f.name = n /\ f.id = made
  BY Zenon DEF RegistryInv, RegistryTypeOK, Fault, Name
<1>2. dialFaults' = (dialFaults \ Named(dialFaults, n)) \cup {f} /\ Single(dialFaults)'
  BY <1>1, ReplaceSingle, Zenon DEF RegistryInv, Singles, RegisterDialFault
<1> HIDE DEF f
<1>3. PastExact' /\ PumpsCurrent' /\ gen' \in Nat /\ DOMAIN past' = 0..gen'
  BY BumpKeepsPumps, Zenon DEF RegistryInv, RegisterDialFault
<1>4. RegistryTypeOK'
  BY <1>1, <1>2, <1>3 DEF RegistryInv, RegistryTypeOK, RegisterDialFault, pumpVars
<1>5. IdsFresh'
  BY <1>1, <1>2, FreshKept, Zenon DEF RegisterDialFault
<1>6. Singles' /\ TickersExact'
  BY <1>2, Zenon DEF RegistryInv, Singles, Single, TickersExact, RegisterDialFault
<1> QED
  BY <1>3, <1>4, <1>5, <1>6, Zenon DEF RegistryInv

LEMMA RegisterHookInd ==
    ASSUME RegistryInv, NEW n \in Hook, RegisterReadHook(n)
    PROVE  RegistryInv'
<1> DEFINE f == [name |-> n, id |-> made]
<1>1. f \in Fault /\ f.name = n /\ f.id = made
  BY Zenon DEF RegistryInv, RegistryTypeOK, Fault, Name
<1>2. readHooks' = (readHooks \ Named(readHooks, n)) \cup {f} /\ Single(readHooks)'
  BY <1>1, ReplaceSingle, Zenon DEF RegistryInv, Singles, RegisterReadHook
<1> HIDE DEF f
<1>3. PastExact' /\ PumpsCurrent' /\ gen' \in Nat /\ DOMAIN past' = 0..gen'
  BY BumpKeepsPumps, Zenon DEF RegistryInv, RegisterReadHook
<1>4. RegistryTypeOK'
  BY <1>1, <1>2, <1>3 DEF RegistryInv, RegistryTypeOK, RegisterReadHook, pumpVars
<1>5. IdsFresh'
  BY <1>1, <1>2, FreshKept, Zenon DEF RegisterReadHook
<1>6. Singles' /\ TickersExact'
  BY <1>2, Zenon DEF RegistryInv, Singles, Single, TickersExact, RegisterReadHook
<1> QED
  BY <1>3, <1>4, <1>5, <1>6, Zenon DEF RegistryInv

LEMMA UnregisterInd ==
    ASSUME RegistryInv, NEW n \in Name, Unregister(n)
    PROVE  RegistryInv'
<1>1. PastExact' /\ PumpsCurrent' /\ gen' \in Nat /\ DOMAIN past' = 0..gen'
  <2>1. CASE Found(n)
    BY <2>1, BumpKeepsPumps, Zenon DEF RegistryInv, Unregister
  <2>2. CASE ~Found(n)
    <3>1. connFaults' = connFaults /\ packetFaults' = packetFaults
      BY <2>2, Zenon DEF Found, Unregister, filter, Named
    <3> QED
      BY <2>2, <3>1 DEF RegistryInv, RegistryTypeOK, PastExact, PumpsCurrent, Unregister, pumpVars
  <2> QED
    BY <2>1, <2>2, Zenon
<1>2. RegistryTypeOK'
  BY <1>1, Zenon DEF RegistryInv, RegistryTypeOK, Unregister, stopTickers, filter, Named, pumpVars
<1>3. IdsFresh'
  BY Zenon DEF RegistryInv, IdsFresh, Unregister, stopTickers, filter, Named
<1>4. Singles'
  BY FilterSingle, Zenon DEF RegistryInv, Singles, Single, Unregister, filter
<1>5. TickersExact'
  BY Zenon DEF RegistryInv, TickersExact, Unregister, stopTickers, filter, Named
<1> QED
  BY <1>1, <1>2, <1>3, <1>4, <1>5, Zenon DEF RegistryInv

LEMMA ClearInd ==
    ASSUME RegistryInv, Clear PROVE RegistryInv'
<1>1. PastExact' /\ PumpsCurrent' /\ gen' \in Nat /\ DOMAIN past' = 0..gen'
  BY BumpKeepsPumps, Zenon DEF RegistryInv, Clear
<1>2. RegistryTypeOK'
  BY <1>1, Zenon DEF RegistryInv, RegistryTypeOK, Clear, stopTickers, pumpVars
<1>3. IdsFresh' /\ Singles' /\ TickersExact'
  BY Zenon DEF RegistryInv, IdsFresh, Singles, Single, TickersExact, Clear, stopTickers
<1> QED
  BY <1>1, <1>2, <1>3, Zenon DEF RegistryInv

LEMMA TickerInd ==
    ASSUME RegistryInv, NEW f \in driving, TickerReturns(f) PROVE RegistryInv'
<1>1. RegistryTypeOK'
  BY Zenon DEF RegistryInv, RegistryTypeOK, TickerReturns, lists, pumpVars
<1>2. IdsFresh' /\ Singles' /\ TickersExact'
  BY DEF RegistryInv, IdsFresh, Singles, Single, TickersExact, TickerReturns, lists
<1>3. PastExact' /\ PumpsCurrent'
  BY Zenon DEF RegistryInv, PastExact, PumpsCurrent, TickerReturns, lists, pumpVars
<1> QED
  BY <1>1, <1>2, <1>3, Zenon DEF RegistryInv

-----------------------------------------------------------------------------
(* The pumps                                                               *)

LEMMA PumpInd ==
    ASSUME RegistryInv, NEW c \in Conn, Pump(c) PROVE RegistryInv'
<1>1. UNCHANGED registryVars
  BY Zenon DEF Pump, PumpReads, TakeSnapshot, PumpDrops, CompareGen, Rewrap, WriteDone
<1>2. IdsFresh' /\ Singles' /\ TickersExact' /\ PastExact'
  BY <1>1, Zenon
    DEF RegistryInv, IdsFresh, Singles, Single, TickersExact, PastExact, registryVars, lists
<1>3. gen \in Nat /\ gen' = gen /\ past' = past /\ packetFaults = past[gen][2]
      /\ connFaults = past[gen][1]
  BY <1>1 DEF RegistryInv, RegistryTypeOK, PastExact, registryVars
<1>4. RegistryTypeOK'
  <2>1. /\ step' \in [Conn -> {"idle", "read", "faulting", "stale", "write"}]
        /\ linger' \subseteq Conn
    BY Zenon
      DEF RegistryInv, RegistryTypeOK, Pump, PumpReads, TakeSnapshot, PumpDrops, CompareGen, Rewrap,
           WriteDone, StepTo
  <2>2. packetFaults \in SUBSET Fault /\ connFaults \in SUBSET Fault
    BY Zenon DEF RegistryInv, RegistryTypeOK
  <2>3. /\ snapshot' = snapshot \/ snapshot' = [snapshot EXCEPT ![c] = packetFaults]
        /\ wrapped' = wrapped \/ wrapped' = [wrapped EXCEPT ![c] = connFaults]
        /\ wrapGen' = wrapGen \/ wrapGen' = [wrapGen EXCEPT ![c] = gen]
        /\ began' = began \/ began' = [began EXCEPT ![c] = gen]
    BY Zenon DEF Pump, PumpReads, TakeSnapshot, PumpDrops, CompareGen, Rewrap, WriteDone
  <2>4. snapshot' \in [Conn -> SUBSET Fault] /\ wrapped' \in [Conn -> SUBSET Fault]
    <3> DEFINE S == SUBSET Fault
    <3>1. /\ snapshot \in [Conn -> S] /\ wrapped \in [Conn -> S]
          /\ packetFaults \in S /\ connFaults \in S
      BY <2>2, Zenon DEF RegistryInv, RegistryTypeOK
    <3> HIDE DEF S
    <3>2. snapshot' \in [Conn -> S] /\ wrapped' \in [Conn -> S]
      BY <2>3, <3>1, Zenon
    <3> QED
      BY <3>2, Zenon DEF S
  <2>5. wrapGen' \in [Conn -> Nat \cup {-1}]
    BY <2>3, gen \in Nat \cup {-1}, Zenon DEF RegistryInv, RegistryTypeOK
  <2>6. began' \in [Conn -> Nat]
    BY <2>3, gen \in Nat, Zenon DEF RegistryInv, RegistryTypeOK
  <2> QED
    BY <1>1, <2>1, <2>4, <2>5, <2>6, Zenon DEF RegistryInv, RegistryTypeOK, registryVars, lists
<1>5. PumpsCurrent'
  <2> USE DEF RegistryInv, RegistryTypeOK, StepTo
  <2>1. CASE PumpReads(c)
    BY <1>3, <2>1 DEF PumpReads, PumpsCurrent
  <2>2. CASE TakeSnapshot(c)
    <3>1. gen \in began[c]..gen /\ snapshot'[c] = past[gen][2]
      BY <1>3, <2>2 DEF TakeSnapshot, PumpsCurrent
    <3>2. UNCHANGED <<wrapped, wrapGen, began>> /\ step'[c] = "faulting"
      BY <2>2, Zenon DEF TakeSnapshot
    <3>3. \A d \in Conn \ {c} : step'[d] = step[d] /\ snapshot'[d] = snapshot[d]
      BY <2>2, Zenon DEF TakeSnapshot
    <3> QED
      BY <1>3, <3>1, <3>2, <3>3, SMTT(30) DEF PumpsCurrent
  <2>3. CASE PumpDrops(c) \/ WriteDone(c)
    <3>1. UNCHANGED <<snapshot, wrapped, wrapGen, began>> /\ step'[c] = "idle"
      BY <2>3, Zenon DEF PumpDrops, WriteDone
    <3>2. \A d \in Conn \ {c} : step'[d] = step[d]
      BY <2>3, Zenon DEF PumpDrops, WriteDone
    <3> QED
      BY <1>3, <3>1, <3>2, Zenon DEF PumpsCurrent
  <2>4. CASE CompareGen(c)
    BY <1>3, <2>4 DEF CompareGen, PumpsCurrent
  <2>5. CASE Rewrap(c)
    BY <1>3, <2>5 DEF Rewrap, PumpsCurrent
  <2> QED
    BY <2>1, <2>2, <2>3, <2>4, <2>5, Zenon DEF Pump
<1> QED
  BY <1>2, <1>4, <1>5, Zenon DEF RegistryInv

-----------------------------------------------------------------------------
(* The theorems                                                            *)

LEMMA RegistryInitInv == RegistryInit => RegistryInv
<1> SUFFICES ASSUME RegistryInit PROVE RegistryInv
  BY Zenon
<1>1. RegistryTypeOK
  <2>1. {0} = 0..0
    OBVIOUS
  <2> QED
    BY <2>1, Zenon DEF RegistryInit, RegistryTypeOK
<1>2. IdsFresh /\ Singles /\ TickersExact
  BY Zenon DEF RegistryInit, IdsFresh, Singles, Single, TickersExact
<1>3. PastExact /\ PumpsCurrent
  BY DEF RegistryInit, PastExact, PumpsCurrent
<1> QED
  BY <1>1, <1>2, <1>3, Zenon DEF RegistryInv

LEMMA RegistryInductive == RegistryInv /\ [RegistryNext]_proxyVars => RegistryInv'
<1> SUFFICES ASSUME RegistryInv, [RegistryNext]_proxyVars PROVE RegistryInv'
  BY Zenon
<1>1. CASE UNCHANGED proxyVars
  <2>1. RegistryTypeOK' /\ IdsFresh' /\ Singles'
    BY <1>1, Zenon DEF proxyVars, RegistryInv, RegistryTypeOK, IdsFresh, Singles, Single
  <2>2. TickersExact' /\ PastExact' /\ PumpsCurrent'
    BY <1>1, Zenon DEF proxyVars, RegistryInv, TickersExact, PastExact, PumpsCurrent
  <2> QED
    BY <2>1, <2>2, Zenon DEF RegistryInv
<1>2. CASE Mutate
  BY <1>2, RegisterConnInd, RegisterPacketInd, RegisterDialInd, RegisterHookInd,
     UnregisterInd, ClearInd, Zenon DEF Mutate
<1> QED
  BY <1>1, <1>2, TickerInd, PumpInd, Zenon DEF RegistryNext

LEMMA RegistryInvariance == RegistrySpec => []RegistryInv
BY RegistryInitInv, RegistryInductive, PTL DEF RegistrySpec

\* Every list, counter and wrapper of the registry stays in its range.
THEOREM RegistryTypeCorrect == RegistrySpec => []RegistryTypeOK
<1>1. RegistryInv => RegistryTypeOK
  BY Zenon DEF RegistryInv
<1> QED
  BY <1>1, RegistryInvariance, PTL

\* However the registry is changed while a pump works on a chunk, the chunk meets
\* the conn faults of one moment since it was read and the packet faults of one
\* such moment: the two locked sections of liveConn.Write are enough.
THEOREM FaultsApplyLive == RegistrySpec => []WriteIsCurrent
<1>1. RegistryInv => WriteIsCurrent
  <2> SUFFICES ASSUME RegistryInv, NEW c \in Conn, step[c] = "write"
               PROVE  \E g \in began[c]..gen : wrapped[c] = past[g][1]
    BY Zenon DEF RegistryInv, PumpsCurrent, WriteIsCurrent
  <2>1. wrapGen[c] \in began[c]..gen /\ wrapGen[c] # -1
    BY DEF RegistryInv, RegistryTypeOK, PumpsCurrent
  <2> QED
    BY <2>1, Zenon DEF RegistryInv, PumpsCurrent
<1> QED
  BY <1>1, RegistryInvariance, PTL

\* Replacing, removing and clearing faults neither leaks a ticking goroutine nor
\* stops the one of a fault that stays.
THEOREM TickersMatchFaults == RegistrySpec => []TickersExact
<1>1. RegistryInv => TickersExact
  BY Zenon DEF RegistryInv
<1> QED
  BY <1>1, RegistryInvariance, PTL

\* Registering a fault again retunes it and never stacks a second one.
THEOREM RegisterRetunes == RegistrySpec => []OnePerName
<1>1. RegistryInv => OnePerName
  <2> SUFFICES ASSUME RegistryInv,
                      NEW f \in connFaults \cup packetFaults \cup dialFaults \cup readHooks,
                      NEW g \in connFaults \cup packetFaults \cup dialFaults \cup readHooks,
                      f.name = g.name
               PROVE  f = g
    BY Zenon DEF OnePerName
  <2>1. \A l \in {connFaults, packetFaults, dialFaults, readHooks} :
           f \in l /\ g \in l => f = g
    BY DEF RegistryInv, Singles, Single
  <2>2. /\ f \in connFaults <=> f.name \in ConnName
        /\ f \in packetFaults <=> f.name \in Packet
        /\ f \in dialFaults <=> f.name \in Dial
        /\ f \in readHooks <=> f.name \in Hook
    BY NamesAssumption, Zenon DEF RegistryInv, RegistryTypeOK
  <2>3. /\ g \in connFaults <=> g.name \in ConnName
        /\ g \in packetFaults <=> g.name \in Packet
        /\ g \in dialFaults <=> g.name \in Dial
        /\ g \in readHooks <=> g.name \in Hook
    BY NamesAssumption, Zenon DEF RegistryInv, RegistryTypeOK
  <2> QED
    BY <2>1, <2>2, <2>3, Zenon
<1> QED
  BY <1>1, RegistryInvariance, PTL

-----------------------------------------------------------------------------
(* Sessions                                                                *)

Running == {"starting", "pumping"}

\* The tracked sockets are those of the handlers between their track and
\* untrack calls.
TrackedByStep ==
    \A s \in Session :
        /\ <<s, "client">> \in conns <=>
              pc[s] \in Running \cup {"tracking", "tracked", "unwind", "untracking"}
        /\ <<s, "upstream">> \in conns <=>
              pc[s] \in Running \cup {"tracked", "unwind"}

\* Until a set flag has been followed by its sever call, that call is still
\* outstanding.
SeverOutstanding ==
    \/ flags = {}
    \/ \E o \in Operator : call[o] = "sever"
    \/ \A s \in Session : pc[s] \in Running => \A d \in Side : conn[s][d] = "closed"

\* Which sockets exist at the two ends of a handler's life.
SocketsByStep ==
    \A s \in Session :
        /\ pc[s] = "new" => \A d \in Side : conn[s][d] = "none"
        /\ pc[s] = "handle" => conn[s]["upstream"] = "none"
        /\ pc[s] = "done" =>
              /\ \A d \in Side : conn[s][d] \in {"none", "closed"}
              /\ s \in cancelled \/ conn[s]["upstream"] = "none"

Pumping == {s \in Session : pc[s] = "pumping"}
ActiveExact == active = Cardinality(Pumping)

IInv == TypeOK /\ TrackedByStep /\ SeverOutstanding /\ SocketsByStep /\ ActiveExact

-----------------------------------------------------------------------------
\* The handler's step of session s from one place to another keeps the set of
\* pumping sessions unless it enters or leaves it.
LEMMA PumpingMoves ==
    ASSUME TypeOK, NEW s \in Session, NEW from \in HandlerStep, NEW to \in HandlerStep,
           At(s, from, to)
    PROVE  /\ from # "pumping" /\ to # "pumping" => Pumping' = Pumping
           /\ from = "pumping" /\ to # "pumping" => Pumping' = Pumping \ {s} /\ s \in Pumping
           /\ from # "pumping" /\ to = "pumping" => Pumping' = Pumping \cup {s} /\ s \notin Pumping
BY Zenon DEF TypeOK, At, Pumping

LEMMA PumpingFinite == IsFiniteSet(Pumping)
<1>1. Pumping \subseteq Session
  BY Zenon DEF Pumping
<1> QED
  BY <1>1, SessionAssumption, FS_Subset, Zenon

\* One handler step keeps the active count exact.
LEMMA ActiveStep ==
    ASSUME TypeOK, ActiveExact, NEW s \in Session,
           NEW from \in HandlerStep, NEW to \in HandlerStep, At(s, from, to),
           \/ from # "pumping" /\ to # "pumping" /\ active' = active
           \/ from = "pumping" /\ to # "pumping" /\ active' = active - 1
           \/ from # "pumping" /\ to = "pumping" /\ active' = active + 1
    PROVE  ActiveExact'
<1>1. IsFiniteSet(Pumping)
  BY PumpingFinite, Zenon
<1>2. CASE from # "pumping" /\ to # "pumping" /\ active' = active
  BY <1>2, PumpingMoves, Zenon DEF ActiveExact
<1>3. CASE from = "pumping" /\ to # "pumping" /\ active' = active - 1
  <2>1. Pumping' = Pumping \ {s} /\ s \in Pumping
    BY <1>3, PumpingMoves, Zenon
  <2>2. Cardinality(Pumping \ {s}) = Cardinality(Pumping) - 1
    BY <1>1, <2>1, FS_RemoveElement, Zenon
  <2> QED
    BY <1>3, <2>1, <2>2, Zenon DEF ActiveExact
<1>4. CASE from # "pumping" /\ to = "pumping" /\ active' = active + 1
  <2>1. Pumping' = Pumping \cup {s} /\ s \notin Pumping
    BY <1>4, PumpingMoves, Zenon
  <2>2. Cardinality(Pumping \cup {s}) = Cardinality(Pumping) + 1
    BY <1>1, <2>1, FS_AddElement, Zenon
  <2> QED
    BY <1>4, <2>1, <2>2, Zenon DEF ActiveExact
<1> QED
  BY <1>2, <1>3, <1>4, Zenon

LEMMA InitInv == Init => IInv
<1> SUFFICES ASSUME Init PROVE IInv
  BY Zenon
<1>1. TypeOK
  BY Zenon DEF Init, TypeOK, HandlerStep, PumpStep
<1>2. TrackedByStep /\ SeverOutstanding /\ SocketsByStep
  BY Zenon DEF Init, TrackedByStep, SeverOutstanding, SocketsByStep, Running, Side
<1>3. Pumping = {}
  BY Zenon DEF Init, Pumping
<1>4. ActiveExact
  BY <1>3, FS_EmptySet, Zenon DEF Init, ActiveExact
<1> QED
  BY <1>1, <1>2, <1>4, Zenon DEF IInv

-----------------------------------------------------------------------------
\* A step that leaves the handlers and the sockets' tracking where they are
\* keeps the counts.
LEMMA CountsKept ==
    ASSUME ActiveExact, UNCHANGED <<pc, active>> PROVE ActiveExact'
BY Zenon DEF ActiveExact, Pumping

\* The control calls.
LEMMA ControlInd ==
    ASSUME IInv, NEW o \in Operator, Control(o) \/ severConns(o)
    PROVE  IInv'
<1> USE DEF IInv
<1>1. ASSUME NEW f \in Flag, SetFlag(o, f) PROVE IInv'
  <2>1. TypeOK'
    BY <1>1, Zenon DEF TypeOK, SetFlag, handlerVars
  <2>2. SeverOutstanding'
    BY <1>1, Zenon DEF TypeOK, SetFlag, SeverOutstanding
  <2>3. TrackedByStep' /\ SocketsByStep'
    BY <1>1, Zenon DEF SetFlag, handlerVars, TrackedByStep, SocketsByStep
  <2> QED
    BY <1>1, <2>1, <2>2, <2>3, CountsKept, Zenon DEF SetFlag, handlerVars
<1>2. ASSUME NEW f \in Flag, ClearFlag(o, f) PROVE IInv'
  <2>1. TypeOK'
    BY <1>2, Zenon DEF TypeOK, ClearFlag, handlerVars
  <2>2. SeverOutstanding'
    BY <1>2, Zenon DEF TypeOK, ClearFlag, handlerVars, SeverOutstanding
  <2>3. TrackedByStep' /\ SocketsByStep'
    BY <1>2, Zenon DEF ClearFlag, handlerVars, TrackedByStep, SocketsByStep
  <2> QED
    BY <1>2, <2>1, <2>2, <2>3, CountsKept, Zenon DEF ClearFlag, handlerVars
<1>3. ASSUME Heal(o) PROVE IInv'
  <2>1. TypeOK'
    BY <1>3, Zenon DEF TypeOK, Heal
  <2>2. SeverOutstanding' /\ TrackedByStep' /\ SocketsByStep'
    BY <1>3, Zenon DEF Heal, SeverOutstanding, TrackedByStep, SocketsByStep
  <2> QED
    BY <1>3, <2>1, <2>2, CountsKept, Zenon DEF Heal
<1>4. ASSUME severConns(o) PROVE IInv'
  <2>1. TypeOK'
    BY <1>4, Zenon DEF TypeOK, severConns
  <2>2. \A s \in Session, d \in Side :
           conn'[s][d] = IF <<s, d>> \in conns THEN "closed" ELSE conn[s][d]
    BY <1>4, Zenon DEF severConns
  <2>3. SeverOutstanding'
    BY <1>4, <2>2, Zenon DEF severConns, SeverOutstanding, TrackedByStep, Running, Side
  <2>4. TrackedByStep'
    BY <1>4, Zenon DEF severConns, TrackedByStep
  <2>5. SocketsByStep'
    BY <1>4, <2>2 DEF severConns, SocketsByStep, TrackedByStep, Running, Side
  <2> QED
    BY <1>4, <2>1, <2>3, <2>4, <2>5, CountsKept, Zenon DEF severConns
<1> QED
  BY <1>1, <1>2, <1>3, <1>4, Zenon DEF Control

\* Closing one socket, or the peer's part in its state, never reopens it.
LEMMA LegInd ==
    ASSUME IInv, NEW s \in Session, NEW d \in Side,
           ReadChunk(s, d) \/ DropChunk(s, d) \/ SwallowChunk(s, d) \/ Leg(s, d)
              \/ PeerCloses(s, d)
    PROVE  IInv'
<1> USE DEF IInv
<1>1. ASSUME NEW from \in PumpStep, NEW to \in PumpStep, LegAt(s, d, from, to),
             cancelled' = cancelled \/ cancelled' = cancelled \cup {s}
      PROVE  IInv'
  <2>1. TypeOK'
    BY <1>1, Zenon DEF TypeOK, LegAt
  <2>2. SeverOutstanding' /\ TrackedByStep'
    BY <1>1, Zenon DEF LegAt, SeverOutstanding, TrackedByStep
  <2>3. SocketsByStep'
    BY <1>1, Zenon DEF LegAt, SocketsByStep
  <2> QED
    BY <1>1, <2>1, <2>2, <2>3, CountsKept, Zenon DEF LegAt
<1>2. ASSUME NEW e \in Side, NEW v \in {"eof", "reset"},
             conn[s][e] \in {"open", "eof"},
             conn' = [conn EXCEPT ![s][e] = v] \/ conn' = conn,
             pump' \in [Session -> [Side -> PumpStep]],
             UNCHANGED <<flags, call, pc, conns, cancelled, active, fresh>>
      PROVE  IInv'
  <2>0. conn' \in [Session -> [Side -> {"none", "open", "eof", "reset", "closed"}]]
    <3>1. CASE conn' = conn
      BY <3>1, Zenon DEF TypeOK
    <3>2. CASE conn' = [conn EXCEPT ![s][e] = v]
      <4>1. [conn[s] EXCEPT ![e] = v] \in [Side -> {"none", "open", "eof", "reset", "closed"}]
        BY Zenon DEF TypeOK
      <4> QED
        BY <3>2, <4>1, Zenon DEF TypeOK
    <3> QED
      BY <1>2, <3>1, <3>2, Zenon
  <2>1. TypeOK'
    BY <1>2, <2>0, Zenon DEF TypeOK
  <2>2. \A t \in Session, c \in Side :
           conn'[t][c] # conn[t][c] => t = s /\ c = e /\ conn'[t][c] = v
    BY <1>2 DEF TypeOK
  <2>3. SeverOutstanding'
    BY <1>2, <2>2 DEF SeverOutstanding
  <2>4. TrackedByStep'
    BY <1>2, Zenon DEF TrackedByStep
  <2>5. SocketsByStep'
    <3>1. \A t \in Session : pc[t] = "new" => \A c \in Side : conn'[t][c] = "none"
      BY <1>2, <2>2 DEF SocketsByStep
    <3>2. \A t \in Session : pc[t] = "handle" => conn'[t]["upstream"] = "none"
      BY <1>2, <2>2, Zenon DEF SocketsByStep, Side
    <3>3. \A t \in Session : pc[t] = "done" =>
             /\ \A c \in Side : conn'[t][c] \in {"none", "closed"}
             /\ t \in cancelled \/ conn'[t]["upstream"] = "none"
      BY <1>2, <2>2 DEF SocketsByStep, Side
    <3> QED
      BY <1>2, <3>1, <3>2, <3>3 DEF SocketsByStep
  <2> QED
    BY <1>2, <2>1, <2>3, <2>4, <2>5, CountsKept, Zenon
<1>3. CASE ReadChunk(s, d)
  BY <1>1, <1>3, Zenon DEF ReadChunk, PumpStep
<1>4. CASE DropChunk(s, d)
  BY <1>1, <1>4, Zenon DEF DropChunk, PumpStep
<1>5. CASE ReadEnds(s, d)
  BY <1>1, <1>5, Zenon DEF ReadEnds, LegEnds, PumpStep
<1>6. CASE Check(s, d)
  BY <1>1, <1>6, Zenon DEF Check, LegEnds, PumpStep
<1>7. CASE PassChunk(s, d)
  BY <1>1, <1>7, Zenon DEF PassChunk, PumpStep
<1>8. CASE AbortChunk(s, d)
  BY <1>1, <1>8, Zenon DEF AbortChunk, LegEnds, PumpStep
<1>9. CASE WriteFails(s, d)
  BY <1>1, <1>9, Zenon DEF WriteFails, LegEnds, PumpStep
<1>10. CASE WriteChunk(s, d)
  <2>1. Other(d) \in Side
    BY Zenon DEF Other, Side
  <2>2. pump' \in [Session -> [Side -> PumpStep]]
    BY <1>10, Zenon DEF WriteChunk, TypeOK, PumpStep
  <2>3. conn' = [conn EXCEPT ![s][Other(d)] = "reset"] \/ conn' = conn
    BY <1>10, <2>1, Zenon DEF WriteChunk, TypeOK
  <2> QED
    BY <1>2, <1>10, <2>1, <2>2, <2>3, Zenon DEF WriteChunk
<1>11. CASE PeerCloses(s, d)
  BY <1>2, <1>11, Zenon DEF PeerCloses, SetConn, TypeOK
<1>12. CASE SwallowChunk(s, d)
  BY <1>1, <1>12, Zenon DEF SwallowChunk, PumpStep
<1> QED
  BY <1>3, <1>4, <1>5, <1>6, <1>7, <1>8, <1>9, <1>10, <1>11, <1>12, Zenon DEF Leg

\* Accept and the handler goroutine.
LEMMA HandlerInd ==
    ASSUME IInv, NEW s \in Session, Accept(s) \/ Handler(s)
    PROVE  IInv'
<1> USE DEF IInv
<1>1. CASE Accept(s)
  <2>1. CASE allowed /\ At(s, "new", "handle") /\ SetConn(s, "client", "open")
             /\ fresh' = fresh \cup {s}
    <3>1. conn[s]["upstream"] = "none"
      BY <2>1, Zenon DEF At, SocketsByStep, Side
    <3>2. TypeOK'
      BY <1>1, <2>1, Zenon DEF Accept, At, SetConn, TypeOK, HandlerStep, Side
    <3>3. TrackedByStep' /\ SeverOutstanding'
      BY <1>1, <2>1, Zenon DEF Accept, At, TypeOK, TrackedByStep, SeverOutstanding, Running,
                        allowed, severed
    <3>4. SocketsByStep'
      BY <1>1, <2>1, <3>1 DEF Accept, At, SetConn, TypeOK, SocketsByStep, Side
    <3>5. ActiveExact'
      BY <1>1, <2>1, ActiveStep, Zenon DEF Accept, HandlerStep
    <3> QED
      BY <3>2, <3>3, <3>4, <3>5, Zenon
  <2>2. CASE ~allowed /\ At(s, "new", "done") /\ SetConn(s, "client", "closed")
             /\ UNCHANGED fresh
    <3>1. conn[s]["upstream"] = "none"
      BY <2>2, Zenon DEF At, SocketsByStep, Side
    <3>2. TypeOK'
      BY <1>1, <2>2, Zenon DEF Accept, At, SetConn, TypeOK, HandlerStep, Side
    <3>3. TrackedByStep'
      BY <1>1, <2>2, Zenon DEF Accept, At, TypeOK, TrackedByStep, Running
    <3>4. SeverOutstanding'
      BY <1>1, <2>2, Zenon DEF Accept, At, SetConn, TypeOK, SeverOutstanding, Running
    <3>5. SocketsByStep'
      BY <1>1, <2>2, <3>1 DEF Accept, At, SetConn, TypeOK, SocketsByStep, Side
    <3>6. ActiveExact'
      BY <1>1, <2>2, ActiveStep, Zenon DEF Accept, HandlerStep
    <3> QED
      BY <3>2, <3>3, <3>4, <3>5, <3>6, Zenon
  <2> QED
    BY <1>1, <2>1, <2>2, Zenon DEF Accept
<1>2. CASE DialFails(s)
  <2>1. TypeOK'
    BY <1>2, Zenon DEF DialFails, At, SetConn, TypeOK, HandlerStep, Side
  <2>2. TrackedByStep'
    BY <1>2, Zenon DEF DialFails, At, TypeOK, TrackedByStep, Running
  <2>3. SeverOutstanding'
    BY <1>2, Zenon DEF DialFails, At, SetConn, TypeOK, SeverOutstanding, Running
  <2>4. SocketsByStep'
    BY <1>2, Zenon DEF DialFails, At, SetConn, TypeOK, SocketsByStep, Side
  <2>5. ActiveExact'
    BY <1>2, ActiveStep, Zenon DEF DialFails, HandlerStep
  <2> QED
    BY <2>1, <2>2, <2>3, <2>4, <2>5, Zenon
<1>3. CASE DialSucceeds(s)
  <2>1. TypeOK'
    BY <1>3, Zenon DEF DialSucceeds, At, SetConn, TypeOK, HandlerStep, Side
  <2>2. TrackedByStep'
    BY <1>3, Zenon DEF DialSucceeds, At, TypeOK, TrackedByStep, Running
  <2>3. SeverOutstanding'
    BY <1>3, Zenon DEF DialSucceeds, At, SetConn, TypeOK, SeverOutstanding, Running
  <2>4. SocketsByStep'
    BY <1>3, Zenon DEF DialSucceeds, At, SetConn, TypeOK, SocketsByStep, Side
  <2>5. ActiveExact'
    BY <1>3, ActiveStep, Zenon DEF DialSucceeds, HandlerStep
  <2> QED
    BY <2>1, <2>2, <2>3, <2>4, <2>5, Zenon
<1>4. CASE TrackClient(s) \/ TrackUpstream(s)
  <2> USE DEF TrackClient, TrackUpstream, track, At
  <2>1. TypeOK'
    <3>1. pc' \in [Session -> HandlerStep]
      BY <1>4, Zenon DEF TypeOK, HandlerStep
    <3>2. conns' = conns \cup {<<s, "client">>} \/ conns' = conns \cup {<<s, "upstream">>}
      BY <1>4, Zenon
    <3>3. conns' \subseteq Session \X Side
      BY <3>2 DEF TypeOK, Side
    <3> QED
      BY <1>4, <3>1, <3>3, Zenon DEF TypeOK
  <2>2. TrackedByStep'
    <3>1. CASE TrackClient(s)
      BY <3>1, Zenon DEF TypeOK, TrackedByStep, Running
    <3>2. CASE TrackUpstream(s)
      BY <3>2, Zenon DEF TypeOK, TrackedByStep, Running
    <3> QED
      BY <1>4, <3>1, <3>2, Zenon
  <2>3. SeverOutstanding' /\ SocketsByStep'
    BY <1>4 DEF TypeOK, SeverOutstanding, SocketsByStep, Running
  <2>4. ActiveExact'
    <3>1. \/ At(s, "dialed", "tracking") /\ active' = active
          \/ At(s, "tracking", "tracked") /\ active' = active
      BY <1>4, Zenon
    <3> QED
      BY <3>1, ActiveStep, Zenon DEF HandlerStep
  <2> QED
    BY <2>1, <2>2, <2>3, <2>4, Zenon
<1>5. CASE Recheck(s)
  <2>1. TypeOK'
    BY <1>5, Zenon DEF Recheck, At, TypeOK, HandlerStep
  <2>2. TrackedByStep'
    BY <1>5, Zenon DEF Recheck, At, TypeOK, TrackedByStep, Running
  <2>3. SeverOutstanding'
    BY <1>5, Zenon DEF Recheck, At, TypeOK, SeverOutstanding, Running, allowed, severed
  <2>4. SocketsByStep'
    BY <1>5 DEF Recheck, At, TypeOK, SocketsByStep
  <2>5. ActiveExact'
    BY <1>5, ActiveStep, Zenon DEF Recheck, HandlerStep
  <2> QED
    BY <2>1, <2>2, <2>3, <2>4, <2>5, Zenon
<1>6. CASE StartPumps(s)
  <2>1. TypeOK'
    BY <1>6 DEF StartPumps, At, TypeOK, HandlerStep, PumpStep
  <2>2. TrackedByStep'
    BY <1>6, Zenon DEF StartPumps, At, TypeOK, TrackedByStep, Running
  <2>3. SeverOutstanding' /\ SocketsByStep'
    BY <1>6 DEF StartPumps, At, TypeOK, SeverOutstanding, SocketsByStep, Running
  <2>4. ActiveExact'
    BY <1>6, ActiveStep, Zenon DEF StartPumps, HandlerStep
  <2> QED
    BY <2>1, <2>2, <2>3, <2>4, Zenon
<1>7. CASE PumpsEnded(s)
  <2>1. TypeOK'
    <3>1. s \in Pumping
      BY <1>7, Zenon DEF PumpsEnded, At, Pumping
    <3>2. /\ IsFiniteSet(Pumping \ {s})
          /\ Cardinality(Pumping \ {s}) = Cardinality(Pumping) - 1
      BY <3>1, PumpingFinite, FS_RemoveElement, Zenon
    <3>3. active' \in Nat
      BY <1>7, <3>2, FS_CardinalityType, Zenon DEF PumpsEnded, ActiveExact
    <3> QED
      BY <1>7, <3>3, Zenon DEF PumpsEnded, At, TypeOK, HandlerStep
  <2>2. TrackedByStep'
    BY <1>7, Zenon DEF PumpsEnded, At, TypeOK, TrackedByStep, Running
  <2>3. SeverOutstanding' /\ SocketsByStep'
    BY <1>7 DEF PumpsEnded, At, TypeOK, SeverOutstanding, SocketsByStep, Running
  <2>4. ActiveExact'
    BY <1>7, ActiveStep, Zenon DEF PumpsEnded, HandlerStep
  <2> QED
    BY <2>1, <2>2, <2>3, <2>4, Zenon
<1>8. CASE UntrackUpstream(s) \/ UntrackClient(s)
  <2> USE DEF UntrackUpstream, UntrackClient, untrack, At
  <2>1. TypeOK'
    BY <1>8, Zenon DEF TypeOK, HandlerStep, Side
  <2>2. TrackedByStep'
    BY <1>8 DEF TypeOK, TrackedByStep, Running
  <2>3. SeverOutstanding' /\ SocketsByStep'
    BY <1>8 DEF TypeOK, SeverOutstanding, SocketsByStep, Running
  <2>4. ActiveExact'
    <3>1. \/ At(s, "unwind", "untracking") /\ active' = active
          \/ At(s, "untracking", "closing") /\ active' = active
      BY <1>8, Zenon
    <3> QED
      BY <3>1, ActiveStep, Zenon DEF HandlerStep
  <2> QED
    BY <2>1, <2>2, <2>3, <2>4, Zenon
<1>9. CASE CloseConns(s)
  <2>1. TypeOK'
    BY <1>9, Zenon DEF CloseConns, At, TypeOK, HandlerStep
  <2>2. TrackedByStep'
    BY <1>9, Zenon DEF CloseConns, At, TypeOK, TrackedByStep, Running
  <2>3. SeverOutstanding'
    BY <1>9, Zenon DEF CloseConns, At, TypeOK, SeverOutstanding, Running
  <2>4. SocketsByStep'
    BY <1>9, Zenon DEF CloseConns, At, TypeOK, SocketsByStep, Side
  <2>5. ActiveExact'
    BY <1>9, ActiveStep, Zenon DEF CloseConns, HandlerStep
  <2> QED
    BY <2>1, <2>2, <2>3, <2>4, <2>5, Zenon
<1> QED
  BY <1>1, <1>2, <1>3, <1>4, <1>5, <1>6, <1>7, <1>8, <1>9, Zenon DEF Handler

LEMMA Inductive == IInv /\ [Next]_vars => IInv'
<1> SUFFICES ASSUME IInv, [Next]_vars PROVE IInv'
  BY Zenon
<1>1. CASE UNCHANGED vars
  <2>1. TypeOK' /\ TrackedByStep' /\ SeverOutstanding' /\ SocketsByStep'
    BY <1>1, Zenon DEF vars, IInv, TypeOK, TrackedByStep, SeverOutstanding, SocketsByStep
  <2> QED
    BY <1>1, <2>1, CountsKept, Zenon DEF vars, IInv
<1> QED
  BY <1>1, ControlInd, HandlerInd, LegInd, Zenon DEF Next

LEMMA Invariance == Spec => []IInv
BY InitInv, Inductive, PTL DEF Spec

-----------------------------------------------------------------------------
(* The theorems                                                            *)

\* Every variable of the proxy stays in its range.
THEOREM TypeCorrect == Spec => []TypeOK
<1>1. IInv => TypeOK
  BY Zenon DEF IInv
<1> QED
  BY <1>1, Invariance, PTL

\* No interleaving of accepts, dials and control calls lets a session carry
\* traffic over open sockets once a partition or crash call has returned: the
\* re-check of handle after track covers every order.
THEOREM PartitionAirtight == Spec => []SeveredIsClosed
<1>1. IInv => SeveredIsClosed
  BY Zenon DEF IInv, SeverOutstanding, SeveredIsClosed, Running, severed
<1> QED
  BY <1>1, Invariance, PTL

\* The deferred calls of handle release everything on every path out of it, and
\* active counts exactly the sessions still pumping.
THEOREM HandlersCleanUp == Spec => []NothingLeftBehind
<1>1. IInv => NothingLeftBehind
  BY Zenon DEF IInv, TrackedByStep, SocketsByStep, ActiveExact, Pumping, NothingLeftBehind,
         Running, Side
<1> QED
  BY <1>1, Invariance, PTL
=============================================================================
