----------------------------- MODULE NodeFaults -----------------------------
(***************************************************************************)
(* The node faults of internal/faults/node.go on one node, through the     *)
(* driver that driver.go builds from its target block, as the engine uses  *)
(* them: an injected fault is listed, a heal takes the list and reverts it *)
(* from the front while further faults may be injected.                    *)
(*                                                                         *)
(* The process, container or unit behind the driver is external: it is the *)
(* set of effects it suffers from, and what a command does to them.        *)
(***************************************************************************)
EXTENDS Naturals, Sequences, Functions

CONSTANTS
    Specs,        \* the target blocks the node may be configured with
    Kinds,        \* the kinds of fault in play
    BackendFails  \* whether a command may fail though the backend can do it

VARIABLES
    driver,       \* what newDriver made of the target
    backend,      \* the node: its effects, and see Running
    injected,     \* the engine's list for this node, oldest first
    healing,      \* the part of it taken by a heal, still to be reverted
    loop,         \* the crash loop's goroutine and its context
    lost          \* history: effects present that nobody will undo

nodeVars == <<driver, backend, injected, healing, loop, lost>>

-----------------------------------------------------------------------------
(* Drivers                                                                 *)

\* id says how the target is named: a pid, a pid file, a container or unit name,
\* or not at all; inner is the sequence of the spec inside an ssh target.
Target(type, id, start, inner) == [type |-> type, id |-> id, start |-> start, inner |-> inner]

NoDriver == [kind |-> "error", pid |-> "", start |-> FALSE, remote |-> FALSE]

\* newDriver: ssh wraps the executor of the driver of its inner target.
newDriver(t) ==
    LET plain(s) ==
          IF s.type \in {"process", "docker", "systemd"} /\ s.id # ""
          THEN [kind |-> s.type, pid |-> s.id, start |-> s.start \/ s.type # "process",
                remote |-> t.type = "ssh"]
          ELSE NoDriver
    IN  IF t.type # "ssh" THEN plain(t)
        ELSE IF t.id = "" \/ t.inner = <<>> THEN NoDriver ELSE plain(t.inner[1])

\* The checks of Load, which rejects a configuration with another target.
Validate(t) ==
    LET plain(s) == s.type \in {"process", "docker", "systemd"} /\ s.id # ""
    IN  IF t.type # "ssh" THEN plain(t)
        ELSE t.id # "" /\ t.inner # <<>> /\ plain(t.inner[1])

\* A node need not have a target.
driverFor == {NoDriver} \cup {newDriver(t) : t \in {s \in Specs : Validate(s)}}

\* ErrUnsupported: limits on a bare process, a start without start_command.
Supports(op) ==
    /\ op \in {"LimitCPU", "LimitMemory"} => driver.kind # "process"
    /\ op = "Start" => driver.start

\* The fault's Inject and Revert commands, and the effect they are about;
\* "shutdown" is CrashFault with SIGTERM.
InjectOp(k) ==
    CASE k = "crash" -> "Kill" [] k = "shutdown" -> "Term" [] k = "zombie" -> "Freeze"
      [] k = "cpu_throttle" -> "LimitCPU" [] k = "oom" -> "LimitMemory" [] OTHER -> "Exec"

RevertOp(k) ==
    CASE k \in {"crash", "shutdown", "crash_loop"} -> "Start" [] k = "zombie" -> "Thaw"
      [] k \in {"cpu_throttle", "oom"} -> "Unlimit" [] OTHER -> "ExecUndo"

Causes(k) ==
    CASE k \in {"crash", "shutdown", "crash_loop"} -> "down" [] k = "zombie" -> "frozen"
      [] k = "cpu_throttle" -> "cpu" [] k = "oom" -> "memory" [] k = "clock_skew" -> "clock"
      [] k = "disk_io_latency" -> "io" [] OTHER -> "disk"

-----------------------------------------------------------------------------
(* The backend                                                             *)

\* drain: SIGTERM was delivered, and the process has not exited yet; first: it is
\* still the process that a configured pid names.
Running == [eff |-> {}, drain |-> FALSE, first |-> TRUE]

Up(b) == "down" \notin b.eff
Reached(b) == Up(b) /\ (driver.pid = "pid" => b.first)
Paused(b) == driver.kind = "docker" /\ "frozen" \in b.eff

Kill(b) == [b EXCEPT !.eff = (@ \ {"frozen"}) \cup {"down"}, !.drain = FALSE]
Restart(b) == [eff |-> b.eff \ {"down"}, drain |-> FALSE, first |-> FALSE]

\* time.Now() is the clock of the machine the simulator runs on: "date -s" with it
\* restores the clock of another host, and leaves a local one as it is.
UndoExec(e, b) == IF e = "clock" /\ ~driver.remote THEN b ELSE [b EXCEPT !.eff = @ \ {e}]

\* The node after the backend has carried out op on effect e; none if it refuses.
\* Starting what runs does nothing, signalling a dead unit may be accepted, docker
\* starts, pauses and unpauses only what is not, not, and is paused, and executes
\* only in a running container.
Does(op, e, b) ==
    CASE op \in {"Kill", "Term"} ->
           IF Reached(b) THEN {IF op = "Kill" THEN Kill(b) ELSE [b EXCEPT !.drain = TRUE]}
           ELSE IF driver.kind = "systemd" THEN {b} ELSE {}
      [] op = "Start" -> IF Paused(b) THEN {} ELSE {IF Up(b) THEN b ELSE Restart(b)}
      [] op = "Freeze" ->
           IF Reached(b) /\ ~Paused(b) THEN {[b EXCEPT !.eff = @ \cup {e}]} ELSE {}
      [] op = "Thaw" ->
           IF Reached(b) /\ (driver.kind = "docker" => Paused(b))
           THEN {[b EXCEPT !.eff = @ \ {e}]} ELSE {}
      [] op \in {"Exec", "ExecUndo"} /\ driver.kind = "docker" /\ (~Up(b) \/ Paused(b)) -> {}
      [] op = "ExecUndo" -> {UndoExec(e, b)}
      [] op \in {"LimitCPU", "LimitMemory", "Exec"} -> {[b EXCEPT !.eff = @ \cup {e}]}
      [] OTHER -> {[b EXCEPT !.eff = @ \ {e}]}

\* One command of the driver, and whether it returned nil.  A command that fails
\* may have had its effect: it was killed at its deadline, or ssh lost the host.
Command(op, e, ok) ==
    IF ~Supports(op) THEN ~ok /\ UNCHANGED backend
    ELSE \/ ok /\ backend' \in Does(op, e, backend)
         \/ ~ok /\ Does(op, e, backend) = {} /\ UNCHANGED backend
         \/ ~ok /\ BackendFails /\ backend' \in Does(op, e, backend) \cup {backend}

\* Effects the node has, or has coming, are what can be lost.
Coming(b) == b.eff \cup (IF b.drain THEN {"down"} ELSE {})
Leave(E) == lost' = (lost \cup E) \cap Coming(backend')

-----------------------------------------------------------------------------
NodeInit ==
    /\ driver \in driverFor
    /\ backend = Running
    /\ injected = <<>> /\ healing = <<>>
    /\ loop = [pc |-> "none", done |-> FALSE]
    /\ lost = {}

\* runNodeFault with the fault's Inject: listed only if the command returned nil.
Inject(k) ==
    /\ driver # NoDriver /\ k # "crash_loop"
    /\ \E ok \in BOOLEAN :
          /\ Command(InjectOp(k), Causes(k), ok)
          /\ injected' = IF ok THEN Append(injected, k) ELSE injected
          /\ Leave(IF ok \/ backend' = backend THEN {} ELSE {Causes(k)})
    /\ UNCHANGED <<driver, healing, loop>>

\* A heal, a removal or the end of a window: revertNodeFaults takes the list.
Heal ==
    /\ injected # <<>> /\ healing = <<>>
    /\ healing' = injected /\ injected' = <<>>
    /\ UNCHANGED <<driver, backend, loop, lost>>

\* What the Revert of k is for stays, though it returned nil: a Start that finds the
\* node still draining has nothing to do, and a local clock keeps its offset.
Ineffective(k) ==
    \/ RevertOp(k) = "Start" /\ backend.drain
    \/ k = "clock_skew" /\ ~driver.remote

\* A failed Revert is logged and forgotten.
Revert ==
    LET k == Head(healing) IN
    /\ healing # <<>> /\ k # "crash_loop"
    /\ \E ok \in BOOLEAN :
          /\ Command(RevertOp(k), Causes(k), ok)
          /\ Leave(IF ok /\ ~Ineffective(k) THEN {} ELSE {Causes(k)})
    /\ healing' = Tail(healing)
    /\ UNCHANGED <<driver, injected, loop>>

-----------------------------------------------------------------------------
(* CrashLoopFault: one loop at a time                                      *)

InjectLoop ==
    /\ driver # NoDriver /\ loop.pc = "none"
    /\ loop' = [pc |-> "select", done |-> FALSE]
    /\ injected' = Append(injected, "crash_loop")
    /\ UNCHANGED <<driver, backend, healing, lost>>

\* The loop's Duration is over, or the context of Inject.
LoopDeadline ==
    /\ loop.pc \notin {"none", "ended"} /\ ~loop.done
    /\ loop' = [loop EXCEPT !.done = TRUE]
    /\ UNCHANGED <<driver, backend, injected, healing, lost>>

\* Mutant: the loop does not look at its context.
LoopNeverDone == FALSE /\ UNCHANGED nodeVars

LoopDone ==
    /\ loop.pc \in {"select", "wait"} /\ loop.done
    /\ loop' = [loop EXCEPT !.pc = "ended"]
    /\ UNCHANGED <<driver, backend, injected, healing, lost>>

\* The ticker, then the 200 ms; a command under a context that is done already
\* does not start.
LoopGoesOn ==
    /\ \/ loop.pc = "select" /\ loop' = [loop EXCEPT !.pc = IF loop.done THEN "wait" ELSE "kill"]
       \/ loop.pc = "wait" /\ loop' = [loop EXCEPT !.pc = IF loop.done THEN "select" ELSE "start"]
    /\ UNCHANGED <<driver, backend, injected, healing, lost>>

\* The command in flight ends, killed if the context is done; errors are ignored.
LoopCommand(pc, op, next) ==
    /\ loop.pc = pc
    /\ \/ \E ok \in BOOLEAN : Command(op, "down", ok)
       \/ loop.done /\ UNCHANGED backend
    /\ Leave({})
    /\ loop' = [loop EXCEPT !.pc = next]
    /\ UNCHANGED <<driver, injected, healing>>

\* Revert: cancel the loop, wait until it has ended, start the node.
CancelLoop ==
    /\ healing # <<>> /\ Head(healing) = "crash_loop" /\ ~loop.done
    /\ loop' = [loop EXCEPT !.done = TRUE]
    /\ UNCHANGED <<driver, backend, injected, healing, lost>>

\* Mutant: Revert does not wait for the goroutine.
RevertLoopUnjoined ==
    /\ healing # <<>> /\ Head(healing) = "crash_loop" /\ loop.done
    /\ \E ok \in BOOLEAN :
          /\ Command("Start", "down", ok)
          /\ Leave(IF ok /\ ~Ineffective("crash_loop") THEN {} ELSE {"down"})
    /\ healing' = Tail(healing)
    /\ UNCHANGED <<driver, injected, loop>>

RevertLoop ==
    /\ healing # <<>> /\ Head(healing) = "crash_loop" /\ loop.pc = "ended"
    /\ \E ok \in BOOLEAN :
          /\ Command("Start", "down", ok)
          /\ Leave(IF ok /\ ~Ineffective("crash_loop") THEN {} ELSE {"down"})
    /\ loop' = [pc |-> "none", done |-> FALSE]
    /\ healing' = Tail(healing)
    /\ UNCHANGED <<driver, injected>>

-----------------------------------------------------------------------------
(* The node on its own                                                     *)

\* A process that got SIGTERM exits, once it is not frozen.
Exit ==
    /\ backend.drain /\ "frozen" \notin backend.eff
    /\ backend' = Kill(backend)
    /\ Leave({})
    /\ UNCHANGED <<driver, injected, healing, loop>>

\* The OOM killer; lifting the limit does not start the node again.
OOMKill ==
    /\ "memory" \in backend.eff /\ Up(backend)
    /\ backend' = Kill(backend)
    /\ Leave({"down"})
    /\ UNCHANGED <<driver, injected, healing, loop>>

CrashLoop ==
    \/ LoopDone \/ LoopGoesOn
    \/ LoopCommand("kill", "Kill", "wait") \/ LoopCommand("start", "Start", "select")

Reverting == Revert \/ CancelLoop \/ RevertLoop

InjectSome == (\E k \in Kinds : Inject(k)) \/ ("crash_loop" \in Kinds /\ InjectLoop)

NodeNext ==
    \/ InjectSome \/ Heal \/ Reverting
    \/ CrashLoop \/ LoopDeadline
    \/ Exit \/ OOMKill

NodeSpec == NodeInit /\ [][NodeNext]_nodeVars

-----------------------------------------------------------------------------
(* Properties                                                              *)

Effects == {"down", "frozen", "cpu", "memory", "clock", "io", "disk"}

NodeTypeOK ==
    /\ driver \in driverFor
    /\ backend \in [eff : SUBSET Effects, drain : BOOLEAN, first : BOOLEAN]
    /\ injected \in Seq(Kinds) /\ healing \in Seq(Kinds)
    /\ loop \in [pc : {"none", "select", "kill", "wait", "start", "ended"}, done : BOOLEAN]
    /\ lost \subseteq Effects

\* Everything wrong with the node is owed to a fault that a heal still has to
\* revert, to a command that failed, to a SIGTERM that a Start has overtaken, to a
\* clock that Revert reads rather than restores, or to the OOM killer.  So the
\* commands of a crash loop, cancelled in flight or not, never outlive its Revert
\* ("Revert brings the node back; don't race it"), and a loop whose time is up
\* between kill and start leaves the node to its Revert.
EffectsOwned ==
    backend.eff \subseteq lost \cup {Causes(k) : k \in Range(injected) \cup Range(healing)}

\* Every heal gets to the end of its list, though a Revert of a crash loop waits
\* for the loop without a time limit; and every crash loop ends by itself.
HealsFinish == []<>(healing = <<>>) /\ []<>(loop.pc \in {"none", "ended"})
=============================================================================
