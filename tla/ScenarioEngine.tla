--------------------------- MODULE ScenarioEngine ---------------------------
(***************************************************************************)
(* The Engine of internal/scenario/scenario.go: every fault of a scenario  *)
(* step or an API request goes through Apply, leaves through RemoveFault,  *)
(* a heal, or the timer of its for_ms window.  Calls run concurrently (one *)
(* goroutine per HTTP request or scenario run), timers on their own.       *)
(*                                                                         *)
(* A proxy's flags and registry are the faults live on it, each with the   *)
(* number of the call that put it there.  Node faults act on the database  *)
(* process through a driver, which may fail.                               *)
(***************************************************************************)
EXTENDS Integers, FiniteSets

CONSTANTS
    Node,        \* the configured nodes, each with its proxy
    Target,      \* those with a target block, so with a driver
    ProxyFault,  \* names of flags and registry faults
    Loss,        \* the registry's name for the drop kind, "bursty_loss"
    NodeFault,   \* names of node faults (may share "crash" with the flags)
    Caller,      \* goroutines making engine calls
    DriverFails  \* whether driver commands may fail

ASSUME TargetAssumption == Target \subseteq Node
ASSUME NameAssumption == Loss \in ProxyFault /\ "" \notin ProxyFault \cup NodeFault
ASSUME CallerAssumption == "timer" \notin Caller
ASSUME FailAssumption == DriverFails \in BOOLEAN

VARIABLES
    live,        \* node -> its proxy's faults [name, id]
    injected,    \* Engine.injected: entries [node, name, id]
    effect,      \* node -> the node faults its process suffers from
    reverting,   \* entries taken by revertNodeFaults, with who reverts them
    timers,      \* pending AfterFuncs [node, name, id, proc]
    job,         \* caller -> the call it is in the middle of
    made,        \* faults created so far
    lost         \* history: <<node, name>> of failed driver commands

vars == <<live, injected, effect, reverting, timers, job, made, lost>>

Entry == [node : Node, name : NodeFault, id : Nat]
Timer == [node : Node, name : ProxyFault \cup NodeFault, id : Nat, proc : BOOLEAN]

\* op is the next step of the call, on the nodes all, those in todo still to be
\* done; at is the node whose driver was called last; request says the call
\* reverts under the context of an HTTP request, which ends with its client.
Ops == {"idle", "register", "inject", "append", "heal", "take", "revert", "healed",
        "remove", "unregister", "match"}
Idle == [op |-> "idle", all |-> {}, todo |-> {}, name |-> "", id |-> 0,
         timed |-> FALSE, at |-> {}, before |-> {}, request |-> FALSE]

\* The faults whose call had returned by now.
Settled == {i \in 0..(made - 1) :
              \A c \in Caller : job[c].op \in {"register", "inject", "append"} => job[c].id # i}

Init ==
    /\ live = [n \in Node |-> {}]
    /\ injected = {}
    /\ effect = [n \in Node |-> {}]
    /\ reverting = {}
    /\ timers = {}
    /\ job = [c \in Caller |-> Idle]
    /\ made = 0
    /\ lost = {}

-----------------------------------------------------------------------------
(* Calls begin: the step's node is one node or "*"                         *)

\* targets: a node or every node.
targets == {{n} : n \in Node} \cup {Node}

Begin(c, call) ==
    /\ job[c].op = "idle"
    /\ job' = [job EXCEPT ![c] = call]
    /\ UNCHANGED <<live, injected, effect, reverting, timers, lost>>

Call(op, T, x) == [Idle EXCEPT !.op = op, !.all = T, !.todo = T, !.name = x]

\* Apply of a flag, connection, packet, dial or read-hook kind.
ApplyProxyFault(c, T, x, timed) ==
    /\ Begin(c, [Call("register", T, x) EXCEPT !.id = made, !.timed = timed])
    /\ made' = made + 1

\* Apply of a node-level kind.
ApplyNodeFault(c, T, x, timed) ==
    /\ Begin(c, [Call("inject", T, x) EXCEPT !.id = made, !.timed = timed])
    /\ made' = made + 1

\* Apply of "heal" for one node: the API passes the request's context.
ApplyHeal(c, n) ==
    /\ Begin(c, [Call("heal", {n}, "") EXCEPT !.before = Settled, !.request = TRUE])
    /\ UNCHANGED made

\* HealAll, and a scenario's "heal" of "*": the background context.
HealAll(c) == Begin(c, [Call("heal", Node, "") EXCEPT !.before = Settled]) /\ UNCHANGED made

\* Apply of "drop" with drop_percent 0.
ApplyDropZero(c, T) == Begin(c, Call("unregister", T, Loss)) /\ UNCHANGED made

RemoveFault(c, T, x) == Begin(c, Call("remove", T, x)) /\ UNCHANGED made

Goto(c, op) == job' = [job EXCEPT ![c] = IF op = "idle" THEN Idle ELSE [@ EXCEPT !.op = op]]

\* One node of the call is done; after the last one comes op.
NodeDone(c, n, op) ==
    LET j == job[c] IN
    job' = [job EXCEPT ![c] =
              IF j.todo # {n} THEN [j EXCEPT !.todo = j.todo \ {n}]
              ELSE IF op = "idle" THEN Idle ELSE [j EXCEPT !.op = op, !.todo = {}]]

-----------------------------------------------------------------------------
(* Proxy faults                                                            *)

Named(S, x) == {f \in S : f.name = x}

\* Mutant: the timer is set after the loop, for the last node.
RegisterTimedLast(c, n) ==
    LET j == job[c] IN
    /\ j.op = "register" /\ n \in j.todo
    /\ live' = [live EXCEPT ![n] = (@ \ Named(@, j.name)) \cup {[name |-> j.name, id |-> j.id]}]
    /\ timers' = IF j.timed /\ j.todo = {n}
                 THEN timers \cup {[node |-> n, name |-> j.name, id |-> j.id, proc |-> FALSE]}
                 ELSE timers
    /\ NodeDone(c, n, "idle")
    /\ UNCHANGED <<injected, effect, reverting, made, lost>>

\* Registering replaces the fault of that name; its timer starts with it.
Register(c, n) ==
    LET j == job[c] IN
    /\ j.op = "register" /\ n \in j.todo
    /\ live' = [live EXCEPT ![n] = (@ \ Named(@, j.name)) \cup {[name |-> j.name, id |-> j.id]}]
    /\ timers' = IF j.timed
                 THEN timers \cup {[node |-> n, name |-> j.name, id |-> j.id, proc |-> FALSE]}
                 ELSE timers
    /\ NodeDone(c, n, "idle")
    /\ UNCHANGED <<injected, effect, reverting, made, lost>>

\* expireRegistry, expireState: the window ends for whatever has the name.
Expire(t) ==
    /\ ~t.proc
    /\ live' = [live EXCEPT ![t.node] = @ \ Named(@, t.name)]
    /\ timers' = timers \ {t}
    /\ UNCHANGED <<injected, effect, reverting, job, made, lost>>

\* Mutant: Heal clears the flags and not the registry.
HealFlagsOnly(c, n) ==
    /\ job[c].op = "heal" /\ n \in job[c].todo
    /\ live' = [live EXCEPT ![n] = @ \ Named(@, "crash")]
    /\ NodeDone(c, n, "take")
    /\ UNCHANGED <<injected, effect, reverting, timers, made, lost>>

HealProxy(c, n) ==
    /\ job[c].op = "heal" /\ n \in job[c].todo
    /\ live' = [live EXCEPT ![n] = {}]
    /\ NodeDone(c, n, "take")
    /\ UNCHANGED <<injected, effect, reverting, timers, made, lost>>

RemoveProxyFault(c, n) ==
    /\ job[c].op \in {"remove", "unregister"} /\ n \in job[c].todo
    /\ live' = [live EXCEPT ![n] = @ \ Named(@, job[c].name)]
    /\ NodeDone(c, n, IF job[c].op = "remove" THEN "match" ELSE "idle")
    /\ UNCHANGED <<injected, effect, reverting, timers, made, lost>>

-----------------------------------------------------------------------------
(* Node faults: runNodeFault and revertNodeFaults                          *)

\* No driver for the node: the call returns the error and leaves the nodes done
\* so far as they are.
NoDriver(c, n) ==
    /\ job[c].op = "inject" /\ n \in job[c].todo \ Target
    /\ Goto(c, "idle")
    /\ UNCHANGED <<live, injected, effect, reverting, timers, made, lost>>

\* The driver's command reports an error, having had its effect or not (killed at
\* its timeout, connection lost): the call returns it, and records nothing.
InjectFails(c, n) ==
    LET x == job[c].name IN
    /\ job[c].op = "inject" /\ n \in job[c].todo \cap Target
    /\ DriverFails
    /\ \/ effect' = [effect EXCEPT ![n] = @ \cup {x}]
       \/ UNCHANGED effect
    /\ lost' = lost \cup {<<n, x>>}
    /\ Goto(c, "idle")
    /\ UNCHANGED <<live, injected, reverting, timers, made>>

Inject(c, n) ==
    /\ job[c].op = "inject" /\ n \in job[c].todo \cap Target
    /\ effect' = [effect EXCEPT ![n] = @ \cup {job[c].name}]
    /\ job' = [job EXCEPT ![c].op = "append", ![c].at = {n}]
    /\ UNCHANGED <<live, injected, reverting, timers, made, lost>>

\* The driver call returned; only now is the fault recorded, under the lock.
AppendInjected(c, n) ==
    LET j == job[c] IN
    /\ j.op = "append" /\ n \in j.at
    /\ injected' = injected \cup {[node |-> n, name |-> j.name, id |-> j.id]}
    /\ timers' = IF j.timed
                 THEN timers \cup {[node |-> n, name |-> j.name, id |-> j.id, proc |-> TRUE]}
                 ELSE timers
    /\ job' = [job EXCEPT ![c] = IF j.todo = {n} THEN Idle
                                 ELSE [j EXCEPT !.op = "inject", !.todo = j.todo \ {n}, !.at = {}]]
    /\ UNCHANGED <<live, effect, reverting, made, lost>>

\* Mutant: the entries to keep are not kept.
takeForgettingOthers(T, owner) ==
    /\ injected' = {}
    /\ reverting' = reverting \cup {<<e, owner>> : e \in {i \in injected : i.node \in T}}

\* revertNodeFaults: the matching entries leave the list under the lock, to be
\* reverted by owner without it.
take(T, owner) ==
    LET revert == {e \in injected : e.node \in T} IN
    /\ injected' = injected \ revert
    /\ reverting' = reverting \cup {<<e, owner>> : e \in revert}

\* The timer of a node fault reverts every fault of the node.
ExpireNodeFault(t) ==
    /\ t.proc
    /\ take({t.node}, "timer")
    /\ timers' = timers \ {t}
    /\ UNCHANGED <<live, effect, job, made, lost>>

Take(c) ==
    /\ job[c].op = "take"
    /\ take(job[c].all, c)
    /\ Goto(c, "revert")
    /\ UNCHANGED <<live, effect, timers, made, lost>>

\* RemoveFault looks for a node fault of the name, and lets the lock go before
\* it reverts.
MatchInjected(c) ==
    LET j == job[c] IN
    /\ j.op = "match"
    /\ Goto(c, IF Named(injected, j.name) \cap {e \in injected : e.node \in j.all} # {}
               THEN "take" ELSE "idle")
    /\ UNCHANGED <<live, injected, effect, reverting, timers, made, lost>>

Reverted(r) ==
    /\ effect' = [effect EXCEPT ![r[1].node] = @ \ {r[1].name}]
    /\ lost' = lost \ {<<r[1].node, r[1].name>>}
    /\ reverting' = reverting \ {r}
    /\ UNCHANGED <<live, injected, timers, job, made>>

\* The driver fails, with or without effect, or the request whose context it runs
\* under is gone: logged.
RevertFails(r) ==
    /\ DriverFails \/ \E c \in Caller : r[2] = c /\ job[c].request
    /\ \/ effect' = [effect EXCEPT ![r[1].node] = @ \ {r[1].name}]
       \/ UNCHANGED effect
    /\ reverting' = reverting \ {r}
    /\ lost' = lost \cup {<<r[1].node, r[1].name>>}
    /\ UNCHANGED <<live, injected, timers, job, made>>

RevertsDone(c) ==
    /\ job[c].op = "revert"
    /\ \A r \in reverting : r[2] # c
    /\ Goto(c, IF job[c].name = "" THEN "healed" ELSE "idle")
    /\ UNCHANGED <<live, injected, effect, reverting, timers, made, lost>>

HealReturns(c) ==
    /\ job[c].op = "healed"
    /\ Goto(c, "idle")
    /\ UNCHANGED <<live, injected, effect, reverting, timers, made, lost>>

-----------------------------------------------------------------------------
Create(c) ==
    \E T \in targets, timed \in BOOLEAN :
        \/ \E x \in ProxyFault : ApplyProxyFault(c, T, x, timed)
        \/ \E x \in NodeFault : ApplyNodeFault(c, T, x, timed)

Undo(c) ==
    \/ HealAll(c)
    \/ \E n \in Node : ApplyHeal(c, n)
    \/ \E T \in targets : ApplyDropZero(c, T)
    \/ \E T \in targets, x \in ProxyFault \cup NodeFault : RemoveFault(c, T, x)

Work(c) ==
    \/ \E n \in Node : Register(c, n) \/ HealProxy(c, n) \/ RemoveProxyFault(c, n)
                       \/ Inject(c, n) \/ NoDriver(c, n) \/ InjectFails(c, n)
                       \/ AppendInjected(c, n)
    \/ Take(c) \/ MatchInjected(c) \/ RevertsDone(c) \/ HealReturns(c)

Next ==
    \/ \E c \in Caller : Create(c) \/ Undo(c) \/ Work(c)
    \/ \E t \in timers : Expire(t) \/ ExpireNodeFault(t)
    \/ \E r \in reverting : Reverted(r) \/ RevertFails(r)

Spec == Init /\ [][Next]_vars

\* Timers fire, and a Revert ends within the 30 seconds of its context.
TimerFires(t) == t \in timers /\ (Expire(t) \/ ExpireNodeFault(t))
RevertEnds(r) == r \in reverting /\ (Reverted(r) \/ RevertFails(r))

-----------------------------------------------------------------------------
(* Properties                                                              *)

\* Every variable stays in its range.
TypeOK ==
    /\ live \in [Node -> SUBSET [name : ProxyFault, id : Nat]]
    /\ injected \subseteq Entry
    /\ effect \in [Node -> SUBSET NodeFault]
    /\ reverting \subseteq Entry \X (Caller \cup {"timer"})
    /\ timers \subseteq Timer
    /\ job \in [Caller -> [op : Ops, all : SUBSET Node, todo : SUBSET Node,
                           name : ProxyFault \cup NodeFault \cup {""}, id : Nat,
                           timed : BOOLEAN, at : SUBSET Node, before : SUBSET Nat,
                           request : BOOLEAN]]
    /\ made \in Nat
    /\ lost \subseteq Node \X NodeFault

\* Someone is going to undo x on n: it is listed, or being reverted, or the call
\* that injected it is about to list it.
Tracked(n, x) ==
    \/ \E e \in injected : e.node = n /\ e.name = x
    \/ \E r \in reverting : r[1].node = n /\ r[1].name = x
    \/ \E c \in Caller : job[c].op = "append" /\ n \in job[c].at /\ job[c].name = x

\* No interleaving of calls and timers loses track of a faulted process, unless
\* a driver command on it has failed.
EffectsTracked ==
    \A n \in Node : \A x \in effect[n] : Tracked(n, x) \/ <<n, x>> \in lost

\* Heal covers everything whose call had returned before it: when it returns,
\* none of that is live on its proxies or still listed for its nodes, whatever
\* ran at the same time.
HealCoversEarlier ==
    \A c \in Caller : job[c].op = "healed" =>
        /\ \A n \in job[c].all : \A f \in live[n] : f.id \notin job[c].before
        /\ \A e \in injected : e.node \in job[c].all => e.id \notin job[c].before

\* A call with a for_ms window (it has begun, as fault i) has all its faults, on
\* every node it reached, removed for good by the timers, whatever replaced or
\* removed them before.
Gone(i) ==
    /\ \A n \in Node : \A f \in live[n] : f.id # i
    /\ \A e \in injected : e.id # i
    /\ \A r \in reverting : r[1].id # i
Windowed(i) ==
    \E c \in Caller : job[c].op \in {"register", "inject"} /\ job[c].timed /\ job[c].id = i

\* runNodeFault's comment: "cannot strand a node in the faulted state".
NodesNotStranded ==
    \A n \in Node : \A x \in effect[n] : Tracked(n, x)

\* config.go on ForMs: "how long the fault stays active before the engine
\* removes it", "0 means until healed".  The end of a window removes the fault
\* the window belongs to and no other.
ExpiryRemovesOwnFault ==
    [][\A t \in timers \ timers' :
          /\ \A f \in live[t.node] \ live'[t.node] : f.id = t.id
          /\ \A e \in injected \ injected' : e.id = t.id]_vars
=============================================================================
