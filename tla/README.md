# A TLA+ model of dbfailsim

dbfailsim puts a TCP proxy in front of each database node and injects faults
into it: partitions, latency, loss, corrupted packets, killed or frozen
processes. This directory models the parts of it that are concurrent or
distributed, checks them with TLC on small instances, and proves the central
safety properties with TLAPS for every instance.

## The system and its parts

| Part | Source | Shared state | Operations | What makes it hard |
|---|---|---|---|---|
| raft node | `internal/raft/raft.go` | role, term, vote, leader, timers | `Tick`, `Step` | late, duplicated, reordered messages |
| simulated cluster | `internal/raft/sim.go` | inbox, blocked links | `Tick`, `Partition`, `Isolate`, `BlockOneWay`, `Heal` | cuts with messages in flight |
| proxy session | `internal/proxy/proxy.go` | flags, sockets, tracked connections, active count | accept loop, `handle`, two `pump`s, `SetPartitioned`, `SetCrashed`, `Heal` | control calls between any two steps of a handler |
| fault registry | `internal/proxy/registry.go` | four fault lists, generation, tickers | `Register*`, `Unregister`, `Clear`, `liveConn.Write` | mutations between two locked sections of a write |
| scenario engine | `internal/scenario/scenario.go` | live faults, `injected` list, timers | `Apply`, `RemoveFault`, `HealAll`, expiry | concurrent requests, late timers, failing drivers |
| topology faults | `internal/faults/topology.go` | groups, role overrides, isolated nodes | `Inject`, `Revert` of each fault | reverts out of order, injections repeated |
| connection faults | `internal/faults/network.go` | token bucket, reorder buffer, linger | `Write` of each wrapper | arithmetic at the edge, buffers lost on rewrap |
| packet faults, read hook | `internal/faults/db.go` | stale-read cache | `Apply`, `MaybeServeStale` | a cache shared by sessions |
| node faults and drivers | `internal/faults/node.go`, `driver.go` | the process, the crash loop | `Inject`, `Revert` | faults one over the other, commands that fail or are cut off |
| workload faults | `internal/faults/workload.go` | held transactions, a mutex, one snapshot | `Inject`, `Release`, timers | waiting for pool, rows, mutex and context at once |
| consistency checker | `internal/faults/consistency.go` | recorded reads and writes | `Record*`, `Provoke` | records that arrive late |
| data faults | `internal/faults/data.go` | rows, the saved row | `Inject`, `Revert` | injections repeated |
| config, API, check, CLI | `internal/{config,control,check}`, `cmd` | none of their own | | |

How they interact: an API request or a scenario calls the engine; the engine
sets a proxy's flags, mutates its registry, or drives the node's process; the
proxy's pumps consult both for every chunk. The raft package stands alone: no
transport connects it to the proxies yet.

## The modules

`RaftNode` holds one node's two calls. Each is an action on the node's variables
(`TickNode`, `StepNode`) with a state function for the messages it returns
(`TickMessages`, `StepMessages`), so that two transports can share them:

- `RaftElection` is the weakest transport: `msgs` only grows, and any message in
  it can be delivered at any time and any number of times. Never delivering is
  loss. `ballots` and `won` are history variables.
- `RaftSim` is `sim.go`: delivery in sending order one tick later, `blocked`
  links, nodes ticking in turn. One `Cluster.Tick` is a run of `BeginTick`,
  `Deliver`/`Drop` and `TickInTurn` steps between which links do not change,
  since the code is single-threaded.
- `ElectionService` is the abstract specification: a register of results written
  once per term, and views that only move forward.

The random timeout is a free choice in its range. Terms are naturals: a `uint64`
raised by one per timeout does not wrap.

`ProxySession` has one step per locked section or blocking call of `handle` and
`pump`. `pc` is the place of a handler, `pump` that of each of its two pumps,
named by the side they read. `SetFlag` and `severConns` are two steps, because
the code releases the lock between them. A socket closed by the peer is `eof`,
and `reset` after the first write to it, as TCP has it. What faults do to a
chunk is to pass, drop, hold or swallow it.

`FaultRegistry` has the four lists as sets of `[name, id]`, where `id` tells
apart two injections of one name. `CompareGen` and `Rewrap` are the two locked
sections of `liveConn.Write`. `past`, `began` are history: the lists at every
generation, and the generation when a chunk was read.

`ScenarioEngine` has one `job` per calling goroutine. A call over several nodes
takes a step per node. A proxy's flags and registry faults are `live`; node
faults are `effect` on the process and an entry of `injected`, with the window
between the two (`Inject`, then `AppendInjected`) and between leaving the list
and being undone (`take`, then `Reverted`) kept apart. `lost` is history.

`ConnFaults` is the stack of wrappers of `network.go` as `Registry.wrap` builds
it: throttle, reorder, duplication, one-way partition and bursty loss. A `Write`
in progress is a stack of items (`work`), each at the wrapper that sees it next;
a wrapper turns an item into none, one or several one level down. Fault objects
(the token bucket, the burst schedule) are shared by all connections, the
reorder buffer belongs to the wrapper and is lost on a rewrap. The clock counts
the time the rate allows for one byte. `copied`, `dropped`, `lost`, `spent`,
`paid` and `bursts` are history.

`TopologyFaults` is `topology.go`: the shared cluster view, and fault objects
each driven by one goroutine through `Inject` and `Revert` in any order. One
step is one locked section of the view or one driver command, so that the
injections of two faults interleave. A storm's loop is an element of `loops`;
`cancel` points to the loop the last `Inject` started. `stack`, `nested` and
`active` are history. That docker refuses to disconnect a container twice
(`Disconnectable`) is the one assumption about a program outside the repository.

`NodeFaults` is `node.go` over `driver.go` on one node. `newDriver` and `Validate`
are functions of the target block; `Supports` is where a driver returns
`ErrUnsupported`, and `Does` what a command that runs does to the process, unit
or container, which is a set of effects. `Command` adds failure: an error says
nothing about whether the command took effect. The engine's list is `injected`,
what a heal has taken off it `healing`. One heal runs at a time here, while faults
go on being injected; heals that race are in `ScenarioEngine`. The crash loop's
goroutine is `loop`, with its `select`s and commands as places. `lost` is history:
effects that nobody will undo, and each place that adds to it is a documented or
observable gap of the code.

`WorkloadFaults` is `workload.go`: calls of `Inject` that run at once against one
pool (`open`, at most `MaxOpen`) and one database with two rows to lock. `at` is
the place of a call, `side` that of the deadlock fault's two goroutines. The pool
fault's mutex is held over its loop, as in the code. `database/sql` and the row
locks are external, and modelled by how the code relies on them.

`StaleReads` is the reply path of the pump with `StaleReadFault`: `lastQuery` per
session, one cache for all. `ConsistencyChecker` is `consistency.go`, with
replicas that lag and routed clients around it; an operation takes its time stamp
in one step and is recorded in a later one. `DataFaults` is the rows of `data.go`
with `RowCorruptionFault`, a row being a value and the set of its flipped bytes.

Three modules put components that share no state side by side, so that one run
explores a behaviour of either: `MCSessions` (`ProxySession`, `WorkloadFaults`),
`MCClusterFaults` (`TopologyFaults`, `NodeFaults`) and `MCClientView`
(`ConnFaults`, `StaleReads`, `ConsistencyChecker`, `DataFaults`).

The definitions named as mutants are variants of the definition that follows
them, each a plausible mistake; substituting one breaks a property.

## What is checked

| Run | Instance | Shows |
|---|---|---|
| `raft_election` | 3 nodes, terms up to 2 | one leader per term, sound beliefs, exact counters, votes final; the nodes implement `ElectionService` |
| `raft_sim` | 3 nodes, timeouts 3 to 4, heartbeat 2, 2 link changes | no two leaders once links have been whole for a heartbeat and a delivery; a settled cluster stays settled; winners hear a quorum; `RaftSim` is a `RaftElection` |
| `proxy_sessions` | 1 connection, 2 operators, 3 control calls; or 2 to 3 workload faults, a pool of 2, 2 rows, 3 client writes | a returned partition leaves no open session; severed sessions end; handlers clean up; every transaction has somebody to end it; a restore loses only its own window; every `Inject` returns |
| `registry` | 1 connection, a fault of each class, 4 mutations | each chunk sees the faults of one moment; goroutines match faults, and stopped ones end; one fault per name |
| `engine` | 2 nodes, 2 callers, 2 faults, 1 heal or removal | faulted processes stay tracked; a heal covers what returned before it; windows end on every node |
| `conn_faults` | 2 connections, five stacks of two faults, 1 registry change, 2 chunks each, 3 ticks; 2 sessions, 2 queries; 2 clients, 2 replicas, 2 writes, 5 operations; a row of 3 bytes on 2 nodes | every chunk is delivered, copied, dropped, held or lost as its stack says; only reordering reorders; throttle and bursts keep their bounds; stale replies match their query and age; the checker's verdicts are exact; corruption shows |
| `topology` | 3 nodes, 2 faults of each kind, 1 storm, 5 calls; or one node behind each driver, 3 faults of 6 kinds | nested partitions compose; overrides end with their split brain; a quorum loss keeps its voters; reverted storms kill nobody, and all end; what is wrong with a node is owed to a fault or a named cause; heals and crash loops end |

Five runs are expected to fail, each showing the code at odds with its
documentation:

- `proxy_hangup`: a client that hangs up leaves its session waiting for a silent
  upstream ("It stops when either side closes").
- `proxy_late_sever`: the sever of a partition can run after a heal, and close
  connections admitted since ("New connections succeed immediately").
- `engine_window_owner`: a `for_ms` timer removes a later fault of the same name,
  and all faults of a node ("how long the fault stays active", "0 means until
  healed").
- `engine_strand`: a heal under a request's context, cancelled, leaves a node
  faulted and unlisted ("cannot strand a node in the faulted state").
- `throttle_cap`: the time a throttled write sleeps is credited to the bucket
  again, so that a busy connection exceeds the rate ("caps outbound throughput").

Observations without a run: `tcp_rst` leaves `linger(0)` on the sockets it
touched after it is removed; removing one node fault reverts all those of its
node; a second `Inject` of quorum loss forgets the voters it had isolated.

- Reverting a clock skew sets the clock to `time.Now()` of the simulator
  (`node.go:110`). On another host that restores the clock; on the simulator's own
  machine it is the skewed clock, and the offset stays.
- Node faults of a node are reverted oldest first. An older clock skew on a container
  that a younger fault has killed is reverted by an `exec` that docker refuses, and
  the entry is gone.
- A `start` that follows a SIGTERM before the process has exited does nothing, and
  the node goes down after its heal; a node the OOM killer took is not started by
  lifting the limit.
- `PoolExhaustionFault.Inject` waits in `Begin` with its mutex held
  (`workload.go:72`). If the pool is smaller than `HoldConnections` it returns only
  when its context ends: `HoldFor` is not running yet, and `Release` waits for the
  mutex. The timer of an earlier `Inject` releases what a later one holds.
- A client that sends a second query before the first is answered has replies paired
  with the wrong query, cached and served to other sessions so (`proxy.go:303` calls
  the pairing approximate). `ServedPaired` is about clients that wait (`Depth = 1`).
- With an even `bytes_to_flip`, corruption may flip a byte and flip it back.
- The checker keeps writes by key and not by client: a client that never wrote is
  reported for read-your-writes. Values no recorded write has are not compared.
- The dashboard offers `*` as a node, which `handleFault` then looks up by name and
  answers with 404. The CLI's removal of `drop` or `node_crash` does not find the
  registered names `bursty_loss` and `crash`. The catalogue's defaults are not those
  of `Apply`. The check command takes nodes that fail alike for nodes that agree.

### Bounds

Terms: two terms have a deposed leader, a stale candidate and their late
messages. Timeouts of one tick in `raft_election` let any node time out at any
moment, the least synchronous case. Link changes: two are a cut and a heal, or
two overlapping cuts. Control calls: three on one session are a sever, a clear
and a heal, from two operators at once; the theorems cover several sessions.
Registry mutations let a fault be registered, replaced, removed and registered
again under one chunk. Engine calls: two creations let a re-injection race a
timer, and one heal or removal race both; the theorems cover any number of
calls. Connection faults: chunks of two bytes and a bucket of three make every
second write run into a deficit. Topology: five calls nest two partitions and
revert them with one to spare, and inject a storm twice before it is reverted; a
behaviour exercises one kind of fault, as the kinds write nothing in common.
Node faults: three let one be injected over another while an older heal is under
way, with every driver, and with failing commands. Workload: each cast has two
faults that wait for each other's connections, rows or mutex; `MaxOpen` equals
`HoldConnections`, so that a single pool fault exhausts the pool and a second one
blocks. Stale reads: two sessions share a query, and a tick separates a reply that
may be served from one too old. Checker: five operations are two writes and three
reads across a switch of replica. Rows: three bytes and three flips allow a byte to
be drawn twice. Deadlock is not checked where bounded calls run out.

### Fairness

`ProxySession`: goroutines that can run do run (the Go scheduler), a dial
resolves and a write returns. Reading bytes, peers closing, accepting and
control calls are not fair. `FaultRegistry`: a goroutine whose stop channel is
closed sees it. `ScenarioEngine`: timers fire, and a Revert ends, as its context
has a deadline of 30 seconds; calls themselves need not make progress.
`TopologyFaults`: a loop's deadline passes and its commands return; that its
`select` does not take the ticker for ever when `Done` is ready too is strong
fairness, as Go chooses between ready cases at random. `NodeFaults`: the same for
the crash loop's `select`, and commands return, as each has a context with a
deadline; heals and injections need not happen. `WorkloadFaults`: some call that can
go on does, timers fire and contexts end; clients' writes and `Release` need not
happen.

## What is proved

The proofs hold for any number of nodes, sessions, operators and faults, from
the named assumptions only: `ConfigAssumption` (what `New` checks),
`MembersAssumption` and `SessionAssumption` (finite sets), `OrderAssumption` (the
cluster's nodes, each once), `NamesAssumption` (a name belongs to one class of
faults), `ParamAssumption` (sizes, rates and counts of connection faults),
`WriterAssumption` (the writer is a client), the engine's `NameAssumption` and its
companions, and those of `TopologyFaults`: lists without repetition, disjoint
groups, objects of one kind. Three theorems carry a hypothesis of their own,
without which the code does not have the property: see `SettledStays`,
`ServedPaired` and `CorruptionShows` below.

Every invariant and action property of the passing runs has a theorem.

- `RaftElectionProofs`. `ElectionSafety` is not inductive: it needs that every
  won term has a quorum of `ballots` behind it (`WonByQuorum`), that granted
  `Vote` messages and counted votes are ballots (`VotesCast`), and that no node
  casts two ballots in a term (`VotesFinal`); two quorums then meet in a node.
  `LeadersWon` ties leaders, beliefs and heartbeats to `won`. From the same
  invariant follow `LeaderBeliefSound`, `NoRivalHeartbeat`, the action property
  `TermDiscipline`, and `ImplementsService` step by step. `CountersExact` adds
  that a node's entries in `ballots` and `won` are of terms up to its own, so that
  a call adds one entry whenever it counts one.
- `RaftSimProofs`. `ImplementsElection` is shown step by step: what is in `inbox`
  and `pending` was sent (`SimBase`), a delivery is a `Step`, a turn a `Tick`, and
  the rest stutters; the node-level invariant carries over (`NodesInv`).
  `WinnerHearsQuorum` needs the rhythm of a candidacy
  (`Candidacies`): its requests are all in one batch and its votes all in the next,
  and links do not change within a tick, so that every vote counted came over a
  link that is open. `SoleLeaderWhenHealed` and `SettledStays` add an invariant
  about heartbeats (`Beats`): a leader still owes one to whoever is behind its term
  (`Owed`: it is on its way soon enough, or not due since the links were restored),
  and a follower's timer is not ahead of its leader's unless one is owed (`Fresh`).
  `SettledStays` assumes `HeartbeatTicks < ElectionTimeoutMin`, which the default
  configuration has and `New` does not check.
- `ProxyProofs`, on `ProxySession` and `FaultRegistry`. `SeveredIsClosed` needs
  `SeverOutstanding`: while a flag is set, either a sever call is still to come or
  every running session is already closed. It is kept by the re-check because the
  tracked sockets are exactly those between `track` and `untrack`
  (`TrackedByStep`). `WriteIsCurrent` needs `PumpsCurrent`: a wrapper built at
  generation `g` holds the faults of `g`; `TickersExact` needs that instances are
  fresh (`IdsFresh`).
- `ScenarioEngineProofs`. `EffectsTracked` is inductive with the types and the
  shape of a call at each step. `HealCoversEarlier` needs `HealsAreOfOld` (no
  call that is still creating a fault creates one some heal answers for), and
  that the nodes a heal has done, and the list it has taken, stay clear of those
  faults whatever other calls add (`NodesClear`, `ListClear`).
- `ConnFaultsProofs`. `ThrottleBound` needs that a sleeper's wake-up lies no
  further ahead than its debt, and that tokens and spent bytes together are
  bounded by the time passed. `LossInBursts` needs that the schedule was last moved
  on when the last burst began (`BurstInv`). `OrderKept` needs `Origins`: an item
  that reordering never held is of the chunk read last. `ChunkFates` needs `Origins`
  too, so that a new chunk is nowhere yet, and lemmas about what concatenating,
  appending and shuffling do to the copies of a chunk; that a shuffle loses nothing
  is the pigeonhole principle.
- `ClusterFaultsProofs`, on `TopologyFaults` and `NodeFaults`. `OverridesClaimed`
  needs what each call in progress has still to override or clear.
  `NoKillAfterRevert` needs that a fault not active has its last loop cancelled.
  `QuorumLost` needs a count of the voters done and to do in a call, and that no two
  faults list a voter. `PartitionsCompose` needs `NestInv`: each snapshot is the
  layout under its layer (`Snapshots`), only the top layer moves nodes
  (`OnlyTopMoves`), and a node not yet moved has the layout below it (`Layout`).
  That a set of layers has a last one is part of the invariant (`LayersEnd`).
  `EffectsOwned` needs that a SIGTERM still to take effect is owed as well, and that
  a running crash loop is listed. `ValidTargetsHaveDrivers`: a target that
  `Validate` accepts never fails in `newDriver`.
- `ClientViewProofs`, on what the clients of the database meet: `StaleReads`,
  `ConsistencyChecker`, `DataFaults` and `WorkloadFaults`.
  `VerdictsExact` needs that the recorded writes are the writer's values in order,
  with rising time stamps, and what a write or read on its way may still record
  (`WriteLog`), and that only recorded reads are reported (`ReportLog`); the
  position the checker looks up is then the value itself. `ServedPaired` needs
  that the one query a session has under way is its `lastQuery` (`InStep`) and that
  replies are cached under the query they answer (`CachePaired`); it assumes clients
  that wait (`Depth = 1`).
  `CorruptionShows` assumes an odd `BytesToFlip`: the parity of the flips drawn is
  that of the bytes changed. `TxAccounted` needs which transactions a call may have
  at each place (`MayHold`); `LostInWindow` needs that a write missing from the
  shared snapshot lies in every window still open, or is lost already
  (`SnapshotCovers`).

Only model-checked: liveness (`SeveredSessionsEnd`, `InjectsReturn`,
`RetiredTickersEnd`, `TimedFaultsEnd`, `StormsEnd`, `HealsFinish`), since fairness is
out of the prover's reach. The runs that are expected to fail are counterexamples,
which need no proof.

## Not modelled

- Durations: how long a fault sleeps, and with it that `latency` sleeps regardless of
  a partition, and the ramp of its delay.
- Command lines, shell quoting and statement texts of drivers and workload faults.
- Log divergence (`data.go`): it appends to a log that nothing else in the repository
  reads or repairs, and its `Revert` is a no-op.
- Loading of configurations and parameter parsing; the API's routing, authentication
  and JSON; the catalogue; the check command; the CLI. They have no state that several
  steps could corrupt.
- The cluster view's use by the proxy: `main.go` never sets one.
- Election liveness: split votes end with probability one only, and a fairness
  condition that decides the draws would assume the result.

## Further work

The registry's wrapper as a composition of `FaultRegistry` and `ConnFaults`;
inter-node proxies that consult the cluster view, once something sets one; stale
reads with clients that pipeline, once the pump frames the protocol.
