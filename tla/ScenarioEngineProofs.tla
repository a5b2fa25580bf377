------------------------ MODULE ScenarioEngineProofs ------------------------
(***************************************************************************)
(* For any nodes, faults and number of concurrent callers: the engine      *)
(* never loses track of a faulted process (EffectsTracked), and a heal     *)
(* covers every fault whose call had returned (HealCoversEarlier).         *)
(***************************************************************************)
EXTENDS ScenarioEngine, TLAPS

JobSet == [op : Ops, all : SUBSET Node, todo : SUBSET Node,
           name : ProxyFault \cup NodeFault \cup {""}, id : Nat,
           timed : BOOLEAN, at : SUBSET Node, before : SUBSET Nat, request : BOOLEAN]

\* What a call's next step says about the call.
Shape(j) ==
    /\ j.op \in {"register", "remove", "unregister", "match"} => j.before = {}
    /\ j.op \in {"inject", "append"} => j.name \in NodeFault /\ j.before = {}
    /\ j.op = "register" => j.name \in ProxyFault
    /\ j.op = "append" => \E n \in Node : j.at = {n}
    /\ j.op \in {"take", "revert", "healed", "match"} => j.todo = {}
    /\ j.op = "idle" => j.before = {}

TypeInv == TypeOK /\ \A c \in Caller : Shape(job[c])

\* A step on job c gives it a well-formed value.
LEMMA JobUpdate ==
    ASSUME TypeInv, NEW c \in Caller, NEW j \in JobSet, Shape(j),
           job' = [job EXCEPT ![c] = j]
    PROVE  job' \in [Caller -> JobSet] /\ \A d \in Caller : Shape(job'[d])
<1>1. job \in [Caller -> JobSet]
  BY Zenon DEF TypeInv, TypeOK, JobSet
<1>2. \A d \in Caller : job'[d] = IF d = c THEN j ELSE job[d]
  BY <1>1, Zenon
<1>3. ASSUME NEW d \in Caller PROVE Shape(job'[d])
  BY <1>2, Zenon DEF TypeInv
<1> QED BY <1>1, <1>3, Zenon

LEMMA IdleJob == Idle \in JobSet /\ Shape(Idle)
BY Zenon DEF Idle, JobSet, Shape, Ops

LEMMA GotoJob ==
    ASSUME TypeInv, NEW c \in Caller, NEW op \in Ops, Goto(c, op),
           op # "idle" => Shape([job[c] EXCEPT !.op = op])
    PROVE  job' \in [Caller -> JobSet] /\ \A d \in Caller : Shape(job'[d])
<1>1. job \in [Caller -> JobSet]
  BY Zenon DEF TypeInv, TypeOK, JobSet
<1>2. [job[c] EXCEPT !.op = op] \in JobSet
  BY <1>1, Zenon DEF JobSet
<1>3. CASE op = "idle"
  BY <1>1, <1>3, IdleJob, JobUpdate, Zenon DEF Goto
<1>4. CASE op # "idle"
  BY <1>1, <1>2, <1>4, JobUpdate, Zenon DEF Goto
<1> QED BY <1>3, <1>4, Zenon

LEMMA NodeDoneJob ==
    ASSUME TypeInv, NEW c \in Caller, NEW n \in Node, NEW op \in Ops, NodeDone(c, n, op),
           job[c].op \in {"register", "heal", "remove", "unregister"},
           op \in {"idle", "take", "match"},
           op = "match" => job[c].op = "remove"
    PROVE  job' \in [Caller -> JobSet] /\ \A d \in Caller : Shape(job'[d])
<1>1. job \in [Caller -> JobSet] /\ Shape(job[c])
  BY Zenon DEF TypeInv, TypeOK, JobSet
<1>2. CASE job[c].todo # {n}
  <2>1. job' = [job EXCEPT ![c] = [job[c] EXCEPT !.todo = job[c].todo \ {n}]]
    BY <1>1, <1>2, Zenon DEF NodeDone
  <2>2. [job[c] EXCEPT !.todo = job[c].todo \ {n}] \in JobSet
    BY <1>1 DEF JobSet
  <2>3. Shape([job[c] EXCEPT !.todo = job[c].todo \ {n}])
    BY <1>1 DEF JobSet, Shape
  <2> QED BY <2>1, <2>2, <2>3, JobUpdate, Zenon
<1>3. CASE job[c].todo = {n} /\ op = "idle"
  BY <1>1, <1>3, IdleJob, JobUpdate, Zenon DEF NodeDone
<1>4. CASE job[c].todo = {n} /\ op # "idle"
  <2>1. job' = [job EXCEPT ![c] = [job[c] EXCEPT !.op = op, !.todo = {}]]
    BY <1>1, <1>4, Zenon DEF NodeDone
  <2>2. [job[c] EXCEPT !.op = op, !.todo = {}] \in JobSet
    BY <1>1 DEF JobSet
  <2>3. Shape([job[c] EXCEPT !.op = op, !.todo = {}])
    BY <1>1, <1>4 DEF JobSet, Shape
  <2> QED BY <2>1, <2>2, <2>3, JobUpdate, Zenon
<1> QED BY <1>2, <1>3, <1>4, Zenon

LEMMA TargetsOfNodes == \A T \in targets : T \subseteq Node
BY Zenon DEF targets

\* The three sorts of calls: those that create a fault, with a fresh number, heals,
\* and removals.
Begins(j) ==
    \/ j.op \in {"register", "inject"} /\ j.id = made /\ made' = made + 1 /\ j.before = {}
    \/ j.op = "heal" /\ j.before = Settled /\ j.todo = j.all /\ made' = made
    \/ j.op \in {"remove", "unregister"} /\ j.before = {} /\ made' = made

Begun(c) == \E j \in JobSet : Shape(j) /\ Begin(c, j) /\ Begins(j)

\* A call that begins is well formed and of one of the three sorts.
LEMMA BeginJob ==
    ASSUME TypeInv, NEW c \in Caller, Create(c) \/ Undo(c)
    PROVE  Begun(c)
<1>0. made \in Nat /\ Loss \in ProxyFault
  BY NameAssumption, Zenon DEF TypeInv, TypeOK
<1>a. Settled \in SUBSET Nat
  <2>1. Settled \subseteq 0..(made - 1)
    BY Zenon DEF Settled
  <2> QED BY <1>0, <2>1
<1>1. ASSUME NEW T \in targets, NEW x \in ProxyFault, NEW timed \in BOOLEAN,
             ApplyProxyFault(c, T, x, timed)
      PROVE  Begun(c)
  <2> DEFINE j == [Call("register", T, x) EXCEPT !.id = made, !.timed = timed]
  <2>1. j \in JobSet /\ Shape(j) /\ j.op = "register" /\ j.id = made /\ j.before = {}
    BY <1>0, TargetsOfNodes, Zenon DEF Call, Idle, JobSet, Shape, Ops
  <2>2. Begin(c, j) /\ made' = made + 1
    BY <1>1, Zenon DEF ApplyProxyFault
  <2> HIDE DEF j
  <2> QED BY <2>1, <2>2, Zenon DEF Begins, Begun
<1>2. ASSUME NEW T \in targets, NEW x \in NodeFault, NEW timed \in BOOLEAN,
             ApplyNodeFault(c, T, x, timed)
      PROVE  Begun(c)
  <2> DEFINE j == [Call("inject", T, x) EXCEPT !.id = made, !.timed = timed]
  <2>1. j \in JobSet /\ Shape(j) /\ j.op = "inject" /\ j.id = made /\ j.before = {}
    BY <1>0, TargetsOfNodes, Zenon DEF Call, Idle, JobSet, Shape, Ops
  <2>2. Begin(c, j) /\ made' = made + 1
    BY <1>2, Zenon DEF ApplyNodeFault
  <2> HIDE DEF j
  <2> QED BY <2>1, <2>2, Zenon DEF Begins, Begun
<1>3. CASE HealAll(c)
  <2> DEFINE j == [Call("heal", Node, "") EXCEPT !.before = Settled]
  <2>1. j \in JobSet /\ Shape(j) /\ j.op = "heal" /\ j.before = Settled /\ j.todo = j.all
    BY <1>a, Zenon DEF Call, Idle, JobSet, Shape, Ops
  <2>2. Begin(c, j) /\ made' = made
    BY <1>3, Zenon DEF HealAll
  <2> HIDE DEF j
  <2> QED BY <2>1, <2>2, Zenon DEF Begins, Begun
<1>4. ASSUME NEW n \in Node, ApplyHeal(c, n) PROVE Begun(c)
  <2> DEFINE j == [Call("heal", {n}, "") EXCEPT !.before = Settled, !.request = TRUE]
  <2>1. j \in JobSet /\ Shape(j) /\ j.op = "heal" /\ j.before = Settled /\ j.todo = j.all
    BY <1>a, Zenon DEF Call, Idle, JobSet, Shape, Ops
  <2>2. Begin(c, j) /\ made' = made
    BY <1>4, Zenon DEF ApplyHeal
  <2> HIDE DEF j
  <2> QED BY <2>1, <2>2, Zenon DEF Begins, Begun
<1>5. ASSUME NEW T \in targets, ApplyDropZero(c, T) PROVE Begun(c)
  <2> DEFINE j == Call("unregister", T, Loss)
  <2>1. j \in JobSet /\ Shape(j) /\ j.op = "unregister" /\ j.before = {}
    BY <1>0, TargetsOfNodes, Zenon DEF Call, Idle, JobSet, Shape, Ops
  <2>2. Begin(c, j) /\ made' = made
    BY <1>5, Zenon DEF ApplyDropZero
  <2> HIDE DEF j
  <2> QED BY <2>1, <2>2, Zenon DEF Begins, Begun
<1>6. ASSUME NEW T \in targets, NEW x \in ProxyFault \cup NodeFault, RemoveFault(c, T, x)
      PROVE  Begun(c)
  <2> DEFINE j == Call("remove", T, x)
  <2>1. j \in JobSet /\ Shape(j) /\ j.op = "remove" /\ j.before = {}
    BY TargetsOfNodes, Zenon DEF Call, Idle, JobSet, Shape, Ops
  <2>2. Begin(c, j) /\ made' = made
    BY <1>6, Zenon DEF RemoveFault
  <2> HIDE DEF j
  <2> QED BY <2>1, <2>2, Zenon DEF Begins, Begun
<1>7. CASE Create(c)
  BY <1>1, <1>2, <1>7, Zenon DEF Create
<1>8. CASE Undo(c)
  BY <1>3, <1>4, <1>5, <1>6, <1>8, Zenon DEF Undo
<1> QED BY <1>7, <1>8, Zenon

LEMMA BeginTypes ==
    ASSUME TypeInv, NEW c \in Caller, Create(c) \/ Undo(c)
    PROVE  TypeInv'
<1>1. PICK j \in JobSet : Shape(j) /\ Begin(c, j) /\ Begins(j)
  BY BeginJob, Zenon DEF Begun
<1>2. job' \in [Caller -> JobSet] /\ \A d \in Caller : Shape(job'[d])
  BY <1>1, JobUpdate, Zenon DEF Begin
<1>3. TypeOK
  BY Zenon DEF TypeInv
<1>4. made' \in Nat
  <2>1. made \in Nat
    BY <1>3, Zenon DEF TypeOK
  <2> QED BY <1>1, <2>1 DEF Begins
<1>a. /\ live' = live /\ injected' = injected /\ effect' = effect
      /\ reverting' = reverting /\ timers' = timers /\ lost' = lost
  BY <1>1, Zenon DEF Begin
<1>5. TypeOK'
  BY <1>2, <1>3, <1>4, <1>a, Zenon DEF TypeOK, JobSet
<1> QED BY <1>2, <1>5, Zenon DEF TypeInv

\* What take moves is well formed.
LEMMA TakeTypes ==
    ASSUME TypeInv, NEW T, NEW owner \in Caller \cup {"timer"}, take(T, owner)
    PROVE  /\ injected' \subseteq Entry
           /\ reverting' \subseteq Entry \X (Caller \cup {"timer"})
<1>1. injected \subseteq Entry /\ reverting \subseteq Entry \X (Caller \cup {"timer"})
  BY Zenon DEF TypeInv, TypeOK
<1>2. injected' \subseteq Entry
  BY <1>1, Zenon DEF take
<1>3. \A e \in injected : <<e, owner>> \in Entry \X (Caller \cup {"timer"})
  BY <1>1, Zenon
<1>4. \A r \in reverting' : r \in reverting \/ \E e \in injected : r = <<e, owner>>
  BY Zenon DEF take
<1> QED BY <1>1, <1>2, <1>3, <1>4, Zenon

\* The steps of a call.
LEMMA WorkTypes ==
    ASSUME TypeInv, NEW c \in Caller, Work(c)
    PROVE  TypeInv'
<1> DEFINE JobOK == job' \in [Caller -> JobSet] /\ \A d \in Caller : Shape(job'[d])
           LiveSet == SUBSET [name : ProxyFault, id : Nat]
<1>a. job \in [Caller -> JobSet] /\ Shape(job[c]) /\ job[c] \in JobSet
  BY Zenon DEF TypeInv, TypeOK, JobSet
<1>b. {"idle", "take", "match", "healed", "revert"} \subseteq Ops
  BY Zenon DEF Ops
<1>c. live \in [Node -> LiveSet] /\ effect \in [Node -> SUBSET NodeFault]
  BY Zenon DEF TypeInv, TypeOK
<1>1. ASSUME NEW n \in Node, Register(c, n) PROVE TypeInv'
  <2>1. JobOK
    BY <1>1, <1>b, NodeDoneJob, Zenon DEF Register
  <2> DEFINE f == [name |-> job[c].name, id |-> job[c].id]
             t == [node |-> n, name |-> job[c].name, id |-> job[c].id, proc |-> FALSE]
  <2>a. job[c].name \in ProxyFault /\ job[c].id \in Nat
    BY <1>1, <1>a, Zenon DEF Register, Shape, JobSet
  <2>b. f \in [name : ProxyFault, id : Nat] /\ t \in Timer
    BY <2>a, Zenon DEF Timer
  <2>c. /\ live' = [live EXCEPT ![n] = (live[n] \ Named(live[n], job[c].name)) \cup {f}]
        /\ timers' = timers \/ timers' = timers \cup {t}
    BY <1>1, Zenon DEF Register
  <2> HIDE DEF f, t
  <2>2. live' \in [Node -> LiveSet]
    BY <1>c, <2>b, <2>c, Zenon
  <2>3. timers' \subseteq Timer
    BY <2>b, <2>c, Zenon DEF TypeInv, TypeOK
  <2> QED BY <1>1, <2>1, <2>2, <2>3, Zenon DEF Register, TypeInv, TypeOK, JobSet
<1>2. ASSUME NEW n \in Node, HealProxy(c, n) PROVE TypeInv'
  <2>1. JobOK
    BY <1>2, <1>b, NodeDoneJob, Zenon DEF HealProxy
  <2>2. live' \in [Node -> LiveSet]
    BY <1>2, <1>c, Zenon DEF HealProxy
  <2> QED BY <1>2, <2>1, <2>2, Zenon DEF HealProxy, TypeInv, TypeOK, JobSet
<1>3. ASSUME NEW n \in Node, RemoveProxyFault(c, n) PROVE TypeInv'
  <2>1. JobOK
    <3>1. CASE job[c].op = "remove"
      BY <1>3, <1>b, <3>1, NodeDoneJob, Zenon DEF RemoveProxyFault
    <3>2. CASE job[c].op # "remove"
      BY <1>3, <1>b, <3>2, NodeDoneJob, Zenon DEF RemoveProxyFault
    <3> QED BY <3>1, <3>2, Zenon
  <2>2. live' \in [Node -> LiveSet]
    BY <1>3, <1>c, Zenon DEF RemoveProxyFault, Named
  <2> QED BY <1>3, <2>1, <2>2, Zenon DEF RemoveProxyFault, TypeInv, TypeOK, JobSet
<1>4. ASSUME NEW n \in Node, Inject(c, n) PROVE TypeInv'
  <2> DEFINE j == [job[c] EXCEPT !.op = "append", !.at = {n}]
  <2>1. job' = [job EXCEPT ![c] = j]
    BY <1>4, <1>a, Zenon DEF Inject, JobSet
  <2>2. j \in JobSet /\ Shape(j)
    BY <1>4, <1>a, Zenon DEF Inject, JobSet, Shape, Ops
  <2>3. JobOK
    BY <2>1, <2>2, JobUpdate, Zenon
  <2>4. effect' \in [Node -> SUBSET NodeFault]
    BY <1>4, <1>a, <1>c, Zenon DEF Inject, Shape
  <2> QED BY <1>4, <2>3, <2>4, Zenon DEF Inject, TypeInv, TypeOK, JobSet
<1>5. ASSUME NEW n \in Node, NoDriver(c, n) \/ InjectFails(c, n) PROVE TypeInv'
  <2>1. JobOK
    BY <1>5, <1>b, GotoJob, Zenon DEF NoDriver, InjectFails
  <2>2. CASE NoDriver(c, n)
    BY <2>1, <2>2, Zenon DEF NoDriver, TypeInv, TypeOK, JobSet
  <2>3. CASE InjectFails(c, n)
    <3>1. job[c].name \in NodeFault
      BY <2>3, <1>a, <1>c, Zenon DEF InjectFails, Shape
    <3> DEFINE x == job[c].name
               p == <<n, x>>
    <3>a. effect' = [effect EXCEPT ![n] = @ \cup {x}] \/ effect' = effect
      BY <2>3, Zenon DEF InjectFails
    <3>b. lost' = lost \cup {p} /\ p \in Node \X NodeFault
      BY <2>3, <3>1, Zenon DEF InjectFails
    <3> HIDE DEF x, p
    <3>2. effect' \in [Node -> SUBSET NodeFault]
      <4>1. effect \in [Node -> SUBSET NodeFault] /\ x \in NodeFault
        BY <3>1, Zenon DEF TypeInv, TypeOK, x
      <4> QED BY <3>a, <4>1, Zenon
    <3>3. lost' \subseteq Node \X NodeFault
      BY <3>b, Zenon DEF TypeInv, TypeOK
    <3> QED BY <2>1, <2>3, <3>2, <3>3, Zenon DEF InjectFails, TypeInv, TypeOK, JobSet
  <2> QED BY <1>5, <2>2, <2>3, Zenon
<1>6. ASSUME NEW n \in Node, AppendInjected(c, n) PROVE TypeInv'
  <2> DEFINE j == [job[c] EXCEPT !.op = "inject", !.todo = job[c].todo \ {n}, !.at = {}]
  <2>1. j \in JobSet /\ Shape(j)
    BY <1>6, <1>a, Zenon DEF AppendInjected, JobSet, Shape, Ops
  <2>2. job' = [job EXCEPT ![c] = IF job[c].todo = {n} THEN Idle ELSE j]
    BY <1>6, Zenon DEF AppendInjected
  <2>3. JobOK
    BY <2>1, <2>2, IdleJob, JobUpdate, Zenon
  <2>4. injected' \subseteq Entry /\ timers' \subseteq Timer
    <3> DEFINE e == [node |-> n, name |-> job[c].name, id |-> job[c].id]
               t == [node |-> n, name |-> job[c].name, id |-> job[c].id, proc |-> TRUE]
    <3>1. job[c].name \in NodeFault /\ job[c].id \in Nat
      BY <1>6, <1>a, Zenon DEF AppendInjected, Shape, JobSet
    <3>2. e \in Entry /\ t \in Timer
      BY <3>1, Zenon DEF Entry, Timer
    <3>3. injected' = injected \cup {e} /\ (timers' = timers \/ timers' = timers \cup {t})
      BY <1>6, Zenon DEF AppendInjected
    <3> HIDE DEF e, t
    <3> QED BY <3>2, <3>3, Zenon DEF TypeInv, TypeOK
  <2> QED BY <1>6, <2>3, <2>4, Zenon DEF AppendInjected, TypeInv, TypeOK, JobSet
<1>7. CASE Take(c)
  <2>1. JobOK
    <3>1. Shape([job[c] EXCEPT !.op = "revert"])
      BY <1>7, <1>a, Zenon DEF Take, Shape, JobSet
    <3> QED BY <1>7, <1>b, <3>1, GotoJob, Zenon DEF Take
  <2>2. injected' \subseteq Entry /\ reverting' \subseteq Entry \X (Caller \cup {"timer"})
    BY <1>7, TakeTypes, Zenon DEF Take
  <2> QED BY <1>7, <2>1, <2>2, Zenon DEF Take, TypeInv, TypeOK, JobSet
<1>8. CASE MatchInjected(c)
  <2>1. JobOK
    <3>1. Shape([job[c] EXCEPT !.op = "take"])
      BY <1>8, <1>a, Zenon DEF MatchInjected, Shape, JobSet
    <3> QED BY <1>8, <1>b, <3>1, GotoJob, Zenon DEF MatchInjected
  <2> QED BY <1>8, <2>1, Zenon DEF MatchInjected, TypeInv, TypeOK, JobSet
<1>9. CASE RevertsDone(c)
  <2>1. JobOK
    <3>1. Shape([job[c] EXCEPT !.op = "healed"])
      BY <1>9, <1>a, Zenon DEF RevertsDone, Shape, JobSet
    <3> QED BY <1>9, <1>b, <3>1, GotoJob, Zenon DEF RevertsDone
  <2> QED BY <1>9, <2>1, Zenon DEF RevertsDone, TypeInv, TypeOK, JobSet
<1>10. CASE HealReturns(c)
  <2>1. JobOK
    BY <1>10, <1>b, GotoJob, Zenon DEF HealReturns
  <2> QED BY <1>10, <2>1, Zenon DEF HealReturns, TypeInv, TypeOK, JobSet
<1> QED BY <1>1, <1>2, <1>3, <1>4, <1>5, <1>6, <1>7, <1>8, <1>9, <1>10, Zenon DEF Work

\* The end of a window, and of a Revert.
LEMMA BackgroundTypes ==
    ASSUME TypeInv,
           \/ \E t \in timers : Expire(t) \/ ExpireNodeFault(t)
           \/ \E r \in reverting : Reverted(r) \/ RevertFails(r)
    PROVE  TypeInv'
<1>1. ASSUME NEW t \in timers, Expire(t) PROVE TypeInv'
  <2>1. live' \in [Node -> SUBSET [name : ProxyFault, id : Nat]]
    BY <1>1, Zenon DEF Expire, TypeInv, TypeOK, Named
  <2> QED BY <1>1, <2>1, Zenon DEF Expire, TypeInv, TypeOK
<1>2. ASSUME NEW t \in timers, ExpireNodeFault(t) PROVE TypeInv'
  <2>1. injected' \subseteq Entry /\ reverting' \subseteq Entry \X (Caller \cup {"timer"})
    BY <1>2, TakeTypes, Zenon DEF ExpireNodeFault
  <2> QED BY <1>2, <2>1, Zenon DEF ExpireNodeFault, TypeInv, TypeOK
<1>3. ASSUME NEW r \in reverting, Reverted(r) PROVE TypeInv'
  <2>1. effect' \in [Node -> SUBSET NodeFault]
    BY <1>3, Zenon DEF Reverted, TypeInv, TypeOK
  <2> QED BY <1>3, <2>1, Zenon DEF Reverted, TypeInv, TypeOK
<1>4. ASSUME NEW r \in reverting, RevertFails(r) PROVE TypeInv'
  <2>1. r[1].node \in Node /\ r[1].name \in NodeFault
    BY Zenon DEF TypeInv, TypeOK, Entry
  <2> DEFINE p == <<r[1].node, r[1].name>>
  <2>a. p \in Node \X NodeFault
    BY <2>1, Zenon
  <2>b. lost' = lost \cup {p}
    BY <1>4, Zenon DEF RevertFails
  <2> HIDE DEF p
  <2>2. lost' \subseteq Node \X NodeFault
    BY <2>a, <2>b, Zenon DEF TypeInv, TypeOK
  <2>3. effect' \in [Node -> SUBSET NodeFault]
    <3>1. effect \in [Node -> SUBSET NodeFault]
      BY Zenon DEF TypeInv, TypeOK
    <3>2. \/ effect' = [effect EXCEPT ![r[1].node] = effect[r[1].node] \ {r[1].name}]
          \/ effect' = effect
      BY <1>4, Zenon DEF RevertFails
    <3> QED BY <2>1, <3>1, <3>2, Zenon
  <2> QED BY <1>4, <2>2, <2>3, Zenon DEF RevertFails, TypeInv, TypeOK
<1> QED BY <1>1, <1>2, <1>3, <1>4, Zenon

LEMMA InitTypes == Init => TypeInv
<1> SUFFICES ASSUME Init PROVE TypeInv
  BY Zenon
<1>1. \A c \in Caller : job[c] = Idle
  BY Zenon DEF Init
<1>2. job \in [Caller -> JobSet]
  BY IdleJob, Zenon DEF Init
<1>3. TypeOK
  BY <1>2, Zenon DEF Init, TypeOK, JobSet
<1> QED BY <1>1, <1>3, IdleJob, Zenon DEF TypeInv

LEMMA NextTypes == TypeInv /\ [Next]_vars => TypeInv'
<1> SUFFICES ASSUME TypeInv, [Next]_vars PROVE TypeInv'
  BY Zenon
<1>1. CASE UNCHANGED vars
  BY <1>1, Zenon DEF vars, TypeInv, TypeOK, Shape
<1>2. CASE Next
  BY <1>2, BeginTypes, WorkTypes, BackgroundTypes, Zenon DEF Next
<1> QED BY <1>1, <1>2, Zenon

\* Every variable of the engine stays in its range, for any constants.
THEOREM TypeCorrect == Spec => []TypeOK
<1>1. TypeInv => TypeOK
  BY Zenon DEF TypeInv
<1> QED BY <1>1, InitTypes, NextTypes, PTL DEF Spec

-----------------------------------------------------------------------------
(* No faulted process is lost track of                                     *)

LEMMA TrackingStep ==
    ASSUME TypeInv, EffectsTracked, [Next]_vars
    PROVE  EffectsTracked'
<1>a. job \in [Caller -> JobSet] /\ effect \in [Node -> SUBSET NodeFault]
  BY Zenon DEF TypeInv, TypeOK, JobSet
<1>b. \A c \in Caller : Shape(job[c]) /\ job[c] \in JobSet
  BY <1>a, Zenon DEF TypeInv
\* A step that changes neither the lists nor what a process suffers, of a call
\* that is not about to list a fault.
<1>c. ASSUME NEW c \in Caller, NEW j, job[c].op # "append", job' = [job EXCEPT ![c] = j],
             injected' = injected, reverting' = reverting, effect' = effect, lost' = lost
      PROVE  EffectsTracked'
  <2>1. \A d \in Caller : job[d].op = "append" => job'[d] = job[d]
    BY <1>a, <1>c, Zenon
  <2>2. \A m \in Node : \A x \in effect[m] : Tracked(m, x) => Tracked(m, x)'
    BY <1>c, <2>1, Zenon DEF Tracked
  <2> QED BY <1>c, <2>2, Zenon DEF EffectsTracked
<1>d. ASSUME NEW T, NEW owner, take(T, owner), effect' = effect, lost' = lost,
             \A d \in Caller : job[d].op = "append" => job'[d] = job[d]
      PROVE  EffectsTracked'
  <2>1. \A e \in injected : e \in injected' \/ <<e, owner>> \in reverting'
    BY <1>d, Zenon DEF take
  <2>2. \A r \in reverting : r \in reverting'
    BY <1>d, Zenon DEF take
  <2>3. \A m \in Node : \A x \in effect[m] : Tracked(m, x) => Tracked(m, x)'
    BY <1>d, <2>1, <2>2, Zenon DEF Tracked
  <2> QED BY <1>d, <2>3, Zenon DEF EffectsTracked
<1>1. ASSUME NEW c \in Caller, Create(c) \/ Undo(c) PROVE EffectsTracked'
  <2>1. PICK j \in JobSet : Begin(c, j)
    BY <1>1, BeginJob, Zenon DEF Begun
  <2> QED BY <1>c, <2>1, Zenon DEF Begin
<1>2. ASSUME NEW c \in Caller, NEW n \in Node, Register(c, n) PROVE EffectsTracked'
  BY <1>2, <1>c, Zenon DEF Register, NodeDone
<1>3. ASSUME NEW c \in Caller, NEW n \in Node, HealProxy(c, n) PROVE EffectsTracked'
  BY <1>3, <1>c, Zenon DEF HealProxy, NodeDone
<1>4. ASSUME NEW c \in Caller, NEW n \in Node, RemoveProxyFault(c, n) PROVE EffectsTracked'
  BY <1>4, <1>c, Zenon DEF RemoveProxyFault, NodeDone
<1>5. ASSUME NEW c \in Caller, NEW n \in Node, Inject(c, n) PROVE EffectsTracked'
  <2>1. /\ job'[c].op = "append" /\ job'[c].at = {n} /\ job'[c].name = job[c].name
        /\ \A d \in Caller \ {c} : job'[d] = job[d]
        /\ job[c].op # "append"
    BY <1>5, <1>a, <1>b, Zenon DEF Inject, JobSet
  <2>2. \A m \in Node : \A x \in effect'[m] : x \in effect[m] \/ (m = n /\ x = job[c].name)
    BY <1>5, <1>a, Zenon DEF Inject
  <2>3. injected' = injected /\ reverting' = reverting /\ lost' = lost
    BY <1>5, Zenon DEF Inject
  <2>4. \A m \in Node : \A x \in effect[m] : Tracked(m, x) => Tracked(m, x)'
    BY <2>1, <2>3, Zenon DEF Tracked
  <2>5. ASSUME NEW m \in Node, NEW x \in effect'[m]
        PROVE  Tracked(m, x)' \/ <<m, x>> \in lost'
    <3>1. CASE x \in effect[m]
      BY <2>3, <2>4, <3>1, Zenon DEF EffectsTracked
    <3>2. CASE m = n /\ x = job[c].name
      BY <2>1, <3>2, Zenon DEF Tracked
    <3> QED BY <2>2, <3>1, <3>2, Zenon
  <2> QED BY <2>5, Zenon DEF EffectsTracked
<1>6. ASSUME NEW c \in Caller, NEW n \in Node, NoDriver(c, n) PROVE EffectsTracked'
  BY <1>6, <1>c, Zenon DEF NoDriver, Goto
<1>6a. ASSUME NEW c \in Caller, NEW n \in Node, InjectFails(c, n) PROVE EffectsTracked'
  <2> DEFINE y == job[c].name
  <2>1. \A m \in Node : \A x \in effect'[m] : x \in effect[m] \/ (m = n /\ x = y)
    BY <1>6a, <1>a, Zenon DEF InjectFails
  <2>2. lost \subseteq lost' /\ <<n, y>> \in lost'
    BY <1>6a, Zenon DEF InjectFails
  <2>3. \A d \in Caller : job[d].op = "append" => job'[d] = job[d]
    BY <1>6a, <1>a, Zenon DEF InjectFails, Goto
  <2>4. injected' = injected /\ reverting' = reverting
    BY <1>6a, Zenon DEF InjectFails
  <2>5. \A m \in Node : \A x \in effect[m] : Tracked(m, x) => Tracked(m, x)'
    BY <2>3, <2>4, Zenon DEF Tracked
  <2> QED BY <2>1, <2>2, <2>5, Zenon DEF EffectsTracked
<1>7. ASSUME NEW c \in Caller, NEW n \in Node, AppendInjected(c, n) PROVE EffectsTracked'
  <2> DEFINE e == [node |-> n, name |-> job[c].name, id |-> job[c].id]
  <2>1. e \in injected' /\ injected \subseteq injected' /\ e.node = n /\ e.name = job[c].name
    BY <1>7, Zenon DEF AppendInjected
  <2>2. reverting' = reverting /\ effect' = effect /\ lost' = lost
    BY <1>7, Zenon DEF AppendInjected
  <2>3. \A d \in Caller \ {c} : job'[d] = job[d]
    BY <1>7, <1>a, Zenon DEF AppendInjected
  <2>4. job[c].at = {n}
    BY <1>7, <1>b, Zenon DEF AppendInjected, Shape
  <2> HIDE DEF e
  <2>5. \A m \in Node : \A x \in effect[m] : Tracked(m, x) => Tracked(m, x)'
    BY <2>1, <2>2, <2>3, <2>4, Zenon DEF Tracked
  <2> QED BY <2>2, <2>5, Zenon DEF EffectsTracked
<1>8. ASSUME NEW c \in Caller, Take(c) PROVE EffectsTracked'
  <2>1. \A d \in Caller : job[d].op = "append" => job'[d] = job[d]
    BY <1>8, <1>a, Zenon DEF Take, Goto
  <2> QED BY <1>8, <1>d, <2>1, Zenon DEF Take
<1>9. ASSUME NEW c \in Caller, MatchInjected(c) \/ RevertsDone(c) \/ HealReturns(c)
      PROVE  EffectsTracked'
  BY <1>9, <1>c, Zenon DEF MatchInjected, RevertsDone, HealReturns, Goto
<1>10. ASSUME NEW t \in timers, Expire(t) PROVE EffectsTracked'
  BY <1>10, Zenon DEF Expire, EffectsTracked, Tracked
<1>11. ASSUME NEW t \in timers, ExpireNodeFault(t) PROVE EffectsTracked'
  BY <1>11, <1>d, Zenon DEF ExpireNodeFault
<1>12. ASSUME NEW r \in reverting, Reverted(r) PROVE EffectsTracked'
  <2> DEFINE n == r[1].node
             y == r[1].name
  <2>1. \A m \in Node : \A x \in effect'[m] : x \in effect[m] /\ ~(m = n /\ x = y)
    BY <1>12, <1>a, Zenon DEF Reverted
  <2>2. injected' = injected /\ job' = job /\ reverting' = reverting \ {r}
    BY <1>12, Zenon DEF Reverted
  <2>3. \A m, x : <<m, x>> \in lost /\ ~(m = n /\ x = y) => <<m, x>> \in lost'
    BY <1>12, Zenon DEF Reverted
  <2>4. \A m \in Node : \A x \in effect'[m] : Tracked(m, x) => Tracked(m, x)'
    BY <2>1, <2>2, Zenon DEF Tracked
  <2> QED BY <2>1, <2>3, <2>4, Zenon DEF EffectsTracked
<1>13. ASSUME NEW r \in reverting, RevertFails(r) PROVE EffectsTracked'
  <2> DEFINE n == r[1].node
             y == r[1].name
  <2>1. /\ \A m \in Node : effect'[m] \subseteq effect[m]
        /\ injected' = injected /\ job' = job /\ reverting' = reverting \ {r}
    BY <1>13, <1>a, Zenon DEF RevertFails
  <2>2. lost \subseteq lost' /\ <<n, y>> \in lost'
    BY <1>13, Zenon DEF RevertFails
  <2>3. \A m \in Node : \A x \in effect[m] : Tracked(m, x) => Tracked(m, x)' \/ (m = n /\ x = y)
    BY <2>1, Zenon DEF Tracked
  <2> QED BY <2>1, <2>2, <2>3, Zenon DEF EffectsTracked
<1>14. CASE UNCHANGED vars
  BY <1>14, Zenon DEF vars, EffectsTracked, Tracked
<1> QED
  BY <1>1, <1>2, <1>3, <1>4, <1>5, <1>6, <1>6a, <1>7, <1>8, <1>9, <1>10, <1>11, <1>12, <1>13,
     <1>14, Zenon DEF Next, Work

\* No interleaving of calls, timers and failing drivers loses track of a faulted
\* process without a failed driver command on it: revertNodeFaults moves entries under
\* the lock, and an Inject that returns is listed before its caller does more.
THEOREM NothingLost == Spec => []EffectsTracked
<1>1. Init => TypeInv /\ EffectsTracked
  BY InitTypes, Zenon DEF Init, EffectsTracked
<1>2. TypeInv /\ EffectsTracked /\ [Next]_vars => (TypeInv /\ EffectsTracked)'
  BY NextTypes, TrackingStep, Zenon
<1> QED BY <1>1, <1>2, PTL DEF Spec

-----------------------------------------------------------------------------
(* A heal covers what returned before it                                   *)

Young == {"register", "inject", "append"}

\* The faults a heal answers for are old, and no call still creates one.
HealsAreOfOld ==
    /\ \A c \in Caller : job[c].before \subseteq 0..(made - 1)
    /\ \A d \in Caller : job[d].op \in Young => job[d].id < made
    /\ \A c, d \in Caller : job[d].op \in Young => job[d].id \notin job[c].before

\* The nodes a heal has done stay clear of them, and so does the list once taken.
NodesClear(c) ==
    job[c].op \in {"heal", "take", "revert", "healed"} =>
        \A n \in job[c].all \ job[c].todo : \A f \in live[n] : f.id \notin job[c].before
ListClear(c) ==
    job[c].op \in {"revert", "healed"} =>
        \A e \in injected : e.node \in job[c].all => e.id \notin job[c].before

HealInv == TypeInv /\ HealsAreOfOld /\ \A c \in Caller : NodesClear(c) /\ ListClear(c)

\* A step of a call that has begun: its number stays, and what it answers for.
Continues(c) ==
    /\ made' = made
    /\ \A d \in Caller \ {c} : job'[d] = job[d]
    /\ job'[c].before = job[c].before \/ job'[c].before = {}
    /\ job'[c].op \in Young => job[c].op \in Young /\ job'[c].id = job[c].id

LEMMA ContinuesOld ==
    ASSUME HealsAreOfOld, NEW c \in Caller, Continues(c)
    PROVE  HealsAreOfOld'
<1>1. \A d \in Caller : /\ job'[d].before = job[d].before \/ job'[d].before = {}
                        /\ job'[d].op \in Young => job[d].op \in Young /\ job'[d].id = job[d].id
  BY Zenon DEF Continues
<1>2. made' = made
  BY Zenon DEF Continues
<1> QED BY <1>1, <1>2, Zenon DEF HealsAreOfOld

LEMMA BeginOld ==
    ASSUME TypeInv, HealsAreOfOld, NEW c \in Caller, NEW j \in JobSet, Begin(c, j), Begins(j)
    PROVE  HealsAreOfOld'
<1>a. made \in Nat /\ job \in [Caller -> JobSet] /\ \A d \in Caller : job[d].id \in Nat
  BY Zenon DEF TypeInv, TypeOK, JobSet
<1>b. \A d \in Caller : job'[d] = IF d = c THEN j ELSE job[d]
  BY <1>a, Zenon DEF Begin
<1>1. CASE j.op \in {"register", "inject"} /\ j.id = made /\ made' = made + 1 /\ j.before = {}
  <2>1. \A d \in Caller : job'[d].before \subseteq 0..(made - 1)
    BY <1>b, <1>1, Zenon DEF HealsAreOfOld
  <2>2. made \notin 0..(made - 1) /\ 0..(made - 1) \subseteq 0..(made' - 1)
    BY <1>a, <1>1
  <2>3. \A d \in Caller : job'[d].op \in Young =>
            job'[d].id = made \/ (job[d].op \in Young /\ job'[d].id = job[d].id)
    BY <1>b, <1>1, Zenon
  <2>4. \A d \in Caller : job'[d].op \in Young => job'[d].id < made'
    BY <1>a, <1>1, <2>3 DEF HealsAreOfOld
  <2>5. \A d, e \in Caller : job'[d].op \in Young => job'[d].id \notin job'[e].before
    BY <1>b, <1>1, <2>1, <2>2, <2>3, Zenon DEF HealsAreOfOld
  <2> QED BY <2>1, <2>2, <2>4, <2>5, Zenon DEF HealsAreOfOld
<1>2. CASE j.op = "heal" /\ j.before = Settled /\ made' = made
  <2>1. /\ Settled \subseteq 0..(made - 1)
        /\ \A d \in Caller : job[d].op \in Young => job[d].id \notin Settled
    BY Zenon DEF Settled, Young
  <2>2. \A d \in Caller : job'[d].op \in Young => job[d].op \in Young /\ job'[d] = job[d]
    BY <1>b, <1>2, Zenon DEF Young
  <2> QED BY <1>b, <1>2, <2>1, <2>2, Zenon DEF HealsAreOfOld
<1>3. CASE j.op \in {"remove", "unregister"} /\ j.before = {} /\ made' = made
  <2>1. \A d \in Caller : job'[d].op \in Young => job[d].op \in Young /\ job'[d] = job[d]
    BY <1>b, <1>3, Zenon DEF Young
  <2> QED BY <1>b, <1>3, <2>1, Zenon DEF HealsAreOfOld
<1> QED BY <1>1, <1>2, <1>3, Zenon DEF Begins

\* Whatever a step makes live or lists is of a call still creating it.
OnlyYoungAdded ==
    /\ \A n \in Node : \A f \in live'[n] :
          f \in live[n] \/ \E d \in Caller : job[d].op \in Young /\ f.id = job[d].id
    /\ \A e \in injected' :
          e \in injected \/ \E d \in Caller : job[d].op \in Young /\ e.id = job[d].id

\* The step does not bring call d further in its heal.
Keeps(d) ==
    \/ job'[d].before = {}
    \/ /\ job'[d].before = job[d].before /\ job'[d].all = job[d].all /\ job'[d].todo = job[d].todo
       /\ job'[d].op \in {"heal", "take", "revert", "healed"} =>
             job[d].op \in {"heal", "take", "revert", "healed"}
       /\ job'[d].op \in {"revert", "healed"} => job[d].op \in {"revert", "healed"}

LEMMA StillClear ==
    ASSUME HealInv, OnlyYoungAdded, NEW d \in Caller, Keeps(d)
    PROVE  NodesClear(d)' /\ ListClear(d)'
<1>1. CASE job'[d].before = {}
  BY <1>1, Zenon DEF NodesClear, ListClear
<1>2. CASE job'[d].before # {}
  <2>1. /\ job'[d].before = job[d].before /\ job'[d].all = job[d].all /\ job'[d].todo = job[d].todo
        /\ job'[d].op \in {"heal", "take", "revert", "healed"} =>
              job[d].op \in {"heal", "take", "revert", "healed"}
        /\ job'[d].op \in {"revert", "healed"} => job[d].op \in {"revert", "healed"}
    BY <1>2, Zenon DEF Keeps
  <2>2. job[d].all \subseteq Node
    BY Zenon DEF HealInv, TypeInv, TypeOK
  <2>3. \A e \in Caller : job[e].op \in Young => job[e].id \notin job[d].before
    BY Zenon DEF HealInv, HealsAreOfOld
  <2>4. NodesClear(d) /\ ListClear(d)
    BY Zenon DEF HealInv
  <2>5. NodesClear(d)'
    BY <2>1, <2>2, <2>3, <2>4, Zenon DEF NodesClear, OnlyYoungAdded
  <2>6. ListClear(d)'
    BY <2>1, <2>3, <2>4, Zenon DEF ListClear, OnlyYoungAdded
  <2> QED BY <2>5, <2>6, Zenon
<1> QED BY <1>1, <1>2, Zenon

\* Steps that add nothing add only what is young.
LEMMA NothingAdded ==
    ASSUME \A n \in Node : live'[n] \subseteq live[n], injected' \subseteq injected
    PROVE  OnlyYoungAdded
BY Zenon DEF OnlyYoungAdded

LEMMA HealStep ==
    ASSUME HealInv, [Next]_vars
    PROVE  HealInv'
<1> DEFINE Clear == \A d \in Caller : NodesClear(d)' /\ ListClear(d)'
<1>a. TypeInv /\ TypeInv' /\ HealsAreOfOld
  BY NextTypes, Zenon DEF HealInv
<1>b. job \in [Caller -> JobSet] /\ \A d \in Caller : Shape(job[d]) /\ job[d] \in JobSet
  BY <1>a, Zenon DEF TypeInv, TypeOK, JobSet
<1>c. live \in [Node -> SUBSET [name : ProxyFault, id : Nat]]
  BY <1>a, Zenon DEF TypeInv, TypeOK
\* Every call but c, and c itself when it goes on without healing further.
<1>d. ASSUME NEW c \in Caller, Continues(c), OnlyYoungAdded, Keeps(c) PROVE HealInv'
  <2>1. HealsAreOfOld'
    BY <1>a, <1>d, ContinuesOld, Zenon
  <2>2. \A d \in Caller : Keeps(d)
    BY <1>d, Zenon DEF Continues, Keeps
  <2>3. Clear
    BY <1>d, <2>2, StillClear, Zenon
  <2> QED BY <1>a, <2>1, <2>3, Zenon DEF HealInv
\* A step of a call that answers for nothing.
<1>e. ASSUME NEW c \in Caller, NEW j, job' = [job EXCEPT ![c] = j], made' = made,
             j.before = {}, j.op \in Young => job[c].op \in Young /\ j.id = job[c].id,
             OnlyYoungAdded
      PROVE  HealInv'
  <2>1. \A d \in Caller : job'[d] = IF d = c THEN j ELSE job[d]
    BY <1>b, <1>e, Zenon
  <2>2. Continues(c) /\ Keeps(c)
    BY <1>e, <2>1, Zenon DEF Continues, Keeps
  <2> QED BY <1>d, <1>e, <2>2, Zenon
<1>f. Idle.before = {} /\ Idle.op \notin Young
  BY Zenon DEF Idle, Young
<1>1. ASSUME NEW c \in Caller, Create(c) \/ Undo(c) PROVE HealInv'
  <2>1. PICK j \in JobSet : Begin(c, j) /\ Begins(j)
    BY <1>1, <1>a, BeginJob, Zenon DEF Begun
  <2>2. HealsAreOfOld'
    BY <1>a, <2>1, BeginOld, Zenon
  <2>3. \A d \in Caller : job'[d] = IF d = c THEN j ELSE job[d]
    BY <1>b, <2>1, Zenon DEF Begin
  <2>4. OnlyYoungAdded
    BY <2>1, NothingAdded, Zenon DEF Begin
  <2>5. \A d \in Caller \ {c} : NodesClear(d)' /\ ListClear(d)'
    BY <2>3, <2>4, StillClear, Zenon DEF Keeps
  <2>6. NodesClear(c)' /\ ListClear(c)'
    <3>1. CASE j.op = "heal" /\ j.todo = j.all
      BY <2>3, <3>1, Zenon DEF NodesClear, ListClear
    <3>2. CASE j.before = {}
      BY <2>3, <3>2, Zenon DEF NodesClear, ListClear
    <3> QED BY <2>1, <3>1, <3>2, Zenon DEF Begins
  <2> QED BY <1>a, <2>2, <2>5, <2>6, Zenon DEF HealInv
<1>2. ASSUME NEW c \in Caller, NEW n \in Node, Register(c, n) PROVE HealInv'
  <2>1. job[c].op = "register" /\ job[c].before = {} /\ made' = made
    BY <1>2, <1>b, Zenon DEF Register, Shape
  <2>2. OnlyYoungAdded
    <3>1. job[c].op \in Young
      BY <2>1, Zenon DEF Young
    <3>2. \A m \in Node : \A f \in live'[m] : f \in live[m] \/ f.id = job[c].id
      BY <1>2, <1>c DEF Register, Named
    <3>3. injected' = injected
      BY <1>2, Zenon DEF Register
    <3> QED BY <3>1, <3>2, <3>3, Zenon DEF OnlyYoungAdded
  <2>3. CASE job[c].todo # {n}
    <3> DEFINE j == [job[c] EXCEPT !.todo = job[c].todo \ {n}]
    <3>1. job' = [job EXCEPT ![c] = j]
      BY <1>2, <2>3, Zenon DEF Register, NodeDone
    <3>2. j.before = {} /\ j.op = job[c].op /\ j.id = job[c].id
      BY <1>b, <2>1, Zenon DEF JobSet
    <3> HIDE DEF j
    <3> QED BY <1>e, <2>1, <2>2, <3>1, <3>2, Zenon
  <2>4. CASE job[c].todo = {n}
    <3>1. job' = [job EXCEPT ![c] = Idle]
      BY <1>2, <2>4, Zenon DEF Register, NodeDone
    <3> QED BY <1>e, <1>f, <2>1, <2>2, <3>1, Zenon
  <2> QED BY <2>3, <2>4, Zenon
<1>3. ASSUME NEW c \in Caller, NEW n \in Node, HealProxy(c, n) PROVE HealInv'
  <2>1. /\ job[c].op = "heal" /\ n \in job[c].todo /\ made' = made /\ injected' = injected
        /\ live' = [live EXCEPT ![n] = {}]
    BY <1>3, Zenon DEF HealProxy
  <2>2. OnlyYoungAdded
    BY <1>c, <2>1, NothingAdded, Zenon
  <2>3. /\ job'[c].before = job[c].before /\ job'[c].all = job[c].all
        /\ job'[c].todo = job[c].todo \ {n} /\ job'[c].op \in {"heal", "take"}
        /\ \A d \in Caller \ {c} : job'[d] = job[d]
    BY <1>3, <1>b, <2>1 DEF HealProxy, NodeDone, JobSet
  <2>4. HealsAreOfOld'
    BY <1>a, <2>1, <2>3, ContinuesOld, Zenon DEF Continues, Young
  <2>5. \A d \in Caller \ {c} : NodesClear(d)' /\ ListClear(d)'
    BY <2>2, <2>3, StillClear, Zenon DEF Keeps
  <2>6. NodesClear(c)'
    <3>1. \A m \in job[c].all \ job[c].todo : \A f \in live[m] : f.id \notin job[c].before
      BY <2>1, Zenon DEF HealInv, NodesClear
    <3>2. \A m \in Node : live'[m] = IF m = n THEN {} ELSE live[m]
      BY <1>c, <2>1, Zenon
    <3>3. job[c].all \subseteq Node
      BY <1>b, Zenon DEF JobSet
    <3> QED BY <2>3, <3>1, <3>2, <3>3, Zenon DEF NodesClear
  <2>7. ListClear(c)'
    BY <2>3, Zenon DEF ListClear
  <2> QED BY <1>a, <2>4, <2>5, <2>6, <2>7, Zenon DEF HealInv
<1>4. ASSUME NEW c \in Caller, NEW n \in Node, RemoveProxyFault(c, n) PROVE HealInv'
  <2>1. job[c].before = {} /\ made' = made /\ job[c].op \notin Young
    BY <1>4, <1>b, Zenon DEF RemoveProxyFault, Shape, Young
  <2>2. OnlyYoungAdded
    BY <1>4, <1>c, NothingAdded, Zenon DEF RemoveProxyFault
  <2>3. /\ job'[c].before = {} /\ job'[c].op \notin Young
        /\ \A d \in Caller \ {c} : job'[d] = job[d]
    BY <1>4, <1>b, <1>f, <2>1, Zenon DEF RemoveProxyFault, NodeDone, JobSet, Young
  <2> QED BY <1>d, <2>1, <2>2, <2>3, Zenon DEF Continues, Keeps
<1>5. ASSUME NEW c \in Caller, NEW n \in Node, Inject(c, n) PROVE HealInv'
  <2>1. /\ job'[c].before = job[c].before /\ job'[c].id = job[c].id
        /\ \A d \in Caller \ {c} : job'[d] = job[d]
    BY <1>5, <1>b, Zenon DEF Inject, JobSet
  <2>2. job[c].before = {} /\ job[c].op \in Young /\ made' = made
    BY <1>5, <1>b, Zenon DEF Inject, Shape, Young
  <2>3. OnlyYoungAdded
    BY <1>5, NothingAdded, Zenon DEF Inject
  <2> QED BY <1>d, <2>1, <2>2, <2>3, Zenon DEF Continues, Keeps
<1>6. ASSUME NEW c \in Caller, NEW n \in Node, NoDriver(c, n) \/ InjectFails(c, n)
      PROVE  HealInv'
  <2>1. OnlyYoungAdded
    BY <1>6, NothingAdded, Zenon DEF NoDriver, InjectFails
  <2> QED BY <1>6, <1>e, <1>f, <2>1, Zenon DEF NoDriver, InjectFails, Goto
<1>7. ASSUME NEW c \in Caller, NEW n \in Node, AppendInjected(c, n) PROVE HealInv'
  <2>1. job[c].before = {} /\ job[c].op \in Young /\ made' = made
    BY <1>7, <1>b, Zenon DEF AppendInjected, Shape, Young
  <2>2. OnlyYoungAdded
    <3>1. \A e \in injected' : e \in injected \/ e.id = job[c].id
      BY <1>7 DEF AppendInjected
    <3>2. live' = live
      BY <1>7, Zenon DEF AppendInjected
    <3> QED BY <2>1, <3>1, <3>2, Zenon DEF OnlyYoungAdded
  <2>3. /\ job'[c].before = {}
        /\ job'[c].op \in Young => job'[c].id = job[c].id
        /\ \A d \in Caller \ {c} : job'[d] = job[d]
    BY <1>7, <1>b, <1>f, <2>1, Zenon DEF AppendInjected, JobSet
  <2> QED BY <1>d, <2>1, <2>2, <2>3, Zenon DEF Continues, Keeps
<1>8. ASSUME NEW c \in Caller, Take(c) PROVE HealInv'
  <2>1. /\ job'[c].before = job[c].before /\ job'[c].all = job[c].all /\ job'[c].todo = job[c].todo
        /\ job[c].op = "take" /\ job'[c].op = "revert" /\ made' = made /\ live' = live
        /\ \A d \in Caller \ {c} : job'[d] = job[d]
    BY <1>8, <1>b, Zenon DEF Take, Goto, JobSet
  <2>2. injected' \subseteq injected /\ \A e \in injected' : e.node \notin job[c].all
    BY <1>8, Zenon DEF Take, take
  <2>3. OnlyYoungAdded
    BY <2>1, <2>2, NothingAdded, Zenon
  <2>4. HealsAreOfOld'
    BY <1>a, <2>1, ContinuesOld, Zenon DEF Continues, Young
  <2>5. \A d \in Caller \ {c} : NodesClear(d)' /\ ListClear(d)'
    BY <2>1, <2>3, StillClear, Zenon DEF Keeps
  <2>6. NodesClear(c)'
    BY <2>1, Zenon DEF HealInv, NodesClear
  <2>7. ListClear(c)'
    BY <2>1, <2>2, Zenon DEF ListClear
  <2> QED BY <1>a, <2>4, <2>5, <2>6, <2>7, Zenon DEF HealInv
<1>9. ASSUME NEW c \in Caller, MatchInjected(c) PROVE HealInv'
  <2>1. job[c].before = {} /\ made' = made
    BY <1>9, <1>b, Zenon DEF MatchInjected, Shape
  <2>2. OnlyYoungAdded
    BY <1>9, NothingAdded, Zenon DEF MatchInjected
  <2>3. /\ job'[c].before = {} /\ job'[c].op \notin Young
        /\ \A d \in Caller \ {c} : job'[d] = job[d]
    BY <1>9, <1>b, <1>f, <2>1, Zenon DEF MatchInjected, Goto, JobSet, Young
  <2> QED BY <1>d, <2>1, <2>2, <2>3, Zenon DEF Continues, Keeps
<1>10. ASSUME NEW c \in Caller, RevertsDone(c) PROVE HealInv'
  <2>1. job[c].op = "revert" /\ made' = made
    BY <1>10, Zenon DEF RevertsDone
  <2>2. OnlyYoungAdded
    BY <1>10, NothingAdded, Zenon DEF RevertsDone
  <2>3. CASE job[c].name = ""
    <3>1. /\ job'[c].before = job[c].before /\ job'[c].all = job[c].all
          /\ job'[c].todo = job[c].todo /\ job'[c].op = "healed"
          /\ \A d \in Caller \ {c} : job'[d] = job[d]
      BY <1>10, <1>b, <2>3, Zenon DEF RevertsDone, Goto, JobSet
    <3> QED BY <1>d, <2>1, <2>2, <3>1, Zenon DEF Continues, Keeps, Young
  <2>4. CASE job[c].name # ""
    BY <1>10, <1>e, <1>f, <2>2, <2>4, Zenon DEF RevertsDone, Goto
  <2> QED BY <2>3, <2>4, Zenon
<1>11. ASSUME NEW c \in Caller, HealReturns(c) PROVE HealInv'
  <2>1. OnlyYoungAdded
    BY <1>11, NothingAdded, Zenon DEF HealReturns
  <2> QED BY <1>11, <1>e, <1>f, <2>1, Zenon DEF HealReturns, Goto
\* Steps of timers and Reverts change no call.
<1>g. ASSUME job' = job, made' = made, OnlyYoungAdded PROVE HealInv'
  <2>1. HealsAreOfOld'
    BY <1>a, <1>g, Zenon DEF HealsAreOfOld
  <2>2. \A d \in Caller : Keeps(d)
    BY <1>g, Zenon DEF Keeps
  <2>3. Clear
    BY <1>g, <2>2, StillClear, Zenon
  <2> QED BY <1>a, <2>1, <2>3, Zenon DEF HealInv
<1>12. ASSUME NEW t \in timers, Expire(t) PROVE HealInv'
  BY <1>12, <1>c, <1>g, NothingAdded, Zenon DEF Expire
<1>13. ASSUME NEW t \in timers, ExpireNodeFault(t) PROVE HealInv'
  BY <1>13, <1>g, NothingAdded, Zenon DEF ExpireNodeFault, take
<1>14. ASSUME NEW r \in reverting, Reverted(r) \/ RevertFails(r) PROVE HealInv'
  BY <1>14, <1>g, NothingAdded, Zenon DEF Reverted, RevertFails
<1>15. CASE UNCHANGED vars
  BY <1>15, <1>g, NothingAdded, Zenon DEF vars
<1> QED
  BY <1>1, <1>2, <1>3, <1>4, <1>5, <1>6, <1>7, <1>8, <1>9, <1>10, <1>11, <1>12, <1>13, <1>14,
     <1>15, Zenon DEF Next, Work

\* When HealAll or a heal step returns, no fault whose call had returned before
\* the heal began is live on its proxies or listed for its nodes: for any number
\* of nodes, of concurrent calls and of timers.
THEOREM HealsCover == Spec => []HealCoversEarlier
<1>1. Init => HealInv
  <2> SUFFICES ASSUME Init PROVE HealInv
    BY Zenon
  <2>1. \A c \in Caller : job[c] = Idle
    BY Zenon DEF Init
  <2>2. Idle.before = {} /\ Idle.op = "idle"
    BY Zenon DEF Idle
  <2> QED BY <2>1, <2>2, InitTypes, Zenon DEF HealInv, HealsAreOfOld, NodesClear, ListClear, Young
<1>2. HealInv /\ [Next]_vars => HealInv'
  BY HealStep, Zenon
<1>3. HealInv => HealCoversEarlier
  <2> SUFFICES ASSUME HealInv, NEW c \in Caller, job[c].op = "healed"
               PROVE  /\ \A n \in job[c].all : \A f \in live[n] : f.id \notin job[c].before
                      /\ \A e \in injected : e.node \in job[c].all => e.id \notin job[c].before
    BY Zenon DEF HealCoversEarlier
  <2>1. job[c].todo = {}
    BY Zenon DEF HealInv, TypeInv, Shape
  <2> QED BY <2>1, Zenon DEF HealInv, NodesClear, ListClear
<1> QED BY <1>1, <1>2, <1>3, PTL DEF Spec
=============================================================================
