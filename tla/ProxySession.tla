---------------------------- MODULE ProxySession ----------------------------
(***************************************************************************)
(* One client-facing Proxy of internal/proxy/proxy.go: the accept loop, a  *)
(* handler goroutine per connection with its two pump goroutines, and the  *)
(* control goroutines that set the State flags and then sever.             *)
(*                                                                         *)
(* A step is one lock-protected section or one blocking call.  A chunk is  *)
(* only "some bytes"; what packet faults do to it is pass, drop or hold    *)
(* it.  FromNode is empty for every proxy main.go builds, so the cluster   *)
(* view is never consulted and allowed is ~severed.                        *)
(***************************************************************************)
EXTENDS Integers, FiniteSets

CONSTANTS
    Session,    \* client connections
    Operator    \* goroutines making control calls

ASSUME SessionAssumption == IsFiniteSet(Session)

Side == {"client", "upstream"}
Other(d) == IF d = "client" THEN "upstream" ELSE "client"
Flag == {"partitioned", "crashed"}

VARIABLES
    flags,      \* State: the flags that are set
    call,       \* operator -> "idle", or "sever" between unlock and onSever
    pc,         \* session -> where its handler goroutine is
    conn,       \* session -> side -> "none", "open", "eof" (closed by the
                \* peer), "reset" (by the peer, seen after a write) or
                \* "closed" (closed by the proxy)
    conns,      \* Proxy.conns: the tracked <<session, side>>
    cancelled,  \* sessions whose context is cancelled
    pump,       \* session -> source side -> where that pump goroutine is
    active,     \* Proxy.active
    fresh       \* history: sessions admitted since the last Heal

vars == <<flags, call, pc, conn, conns, cancelled, pump, active, fresh>>

HandlerStep == {"new", "handle", "dialed", "tracking", "tracked", "starting",
                "pumping", "unwind", "untracking", "closing", "done"}
PumpStep == {"off", "read", "check", "fault", "write", "ended"}

severed == flags # {}
allowed == ~severed

Init ==
    /\ flags = {}
    /\ call = [o \in Operator |-> "idle"]
    /\ pc = [s \in Session |-> "new"]
    /\ conn = [s \in Session |-> [d \in Side |-> "none"]]
    /\ conns = {}
    /\ cancelled = {}
    /\ pump = [s \in Session |-> [d \in Side |-> "off"]]
    /\ active = 0
    /\ fresh = {}

handlerVars == <<pc, conn, conns, cancelled, pump, active, fresh>>

-----------------------------------------------------------------------------
(* State: control calls                                                    *)

\* SetPartitioned(true) / SetCrashed(true): the flag under the lock, then,
\* unlocked, the sever callback.
SetFlag(o, f) ==
    /\ call[o] = "idle"
    /\ flags' = flags \cup {f}
    /\ call' = [call EXCEPT ![o] = "sever"]
    /\ UNCHANGED handlerVars

severConns(o) ==
    /\ call[o] = "sever"
    /\ call' = [call EXCEPT ![o] = "idle"]
    /\ conn' = [s \in Session |-> [d \in Side |->
                  IF <<s, d>> \in conns THEN "closed" ELSE conn[s][d]]]
    /\ cancelled' = cancelled \cup {s \in Session : \E d \in Side : <<s, d>> \in conns}
    /\ UNCHANGED <<flags, pc, conns, pump, active, fresh>>

\* SetPartitioned(false) / SetCrashed(false).
ClearFlag(o, f) ==
    /\ call[o] = "idle"
    /\ flags' = flags \ {f}
    /\ UNCHANGED <<call, handlerVars>>

\* Heal; its reg.Clear touches only the fault registry.
Heal(o) ==
    /\ call[o] = "idle"
    /\ flags' = {}
    /\ fresh' = {}
    /\ UNCHANGED <<call, pc, conn, conns, cancelled, pump, active>>

-----------------------------------------------------------------------------
(* The handler goroutine                                                   *)

At(s, from, to) == pc[s] = from /\ pc' = [pc EXCEPT ![s] = to]

SetConn(s, d, v) == conn' = [conn EXCEPT ![s][d] = v]

\* Serve: accept, and refuse outright when severed.
Accept(s) ==
    /\ pc[s] = "new"
    /\ \/ allowed /\ At(s, "new", "handle") /\ SetConn(s, "client", "open")
          /\ fresh' = fresh \cup {s}
       \/ ~allowed /\ At(s, "new", "done") /\ SetConn(s, "client", "closed")
          /\ UNCHANGED fresh
    /\ UNCHANGED <<flags, call, conns, cancelled, pump, active>>

\* A dial fault or a failed dial ends the handler; its deferred calls close
\* the client.
DialFails(s) ==
    /\ At(s, "handle", "done")
    /\ SetConn(s, "client", "closed")
    /\ cancelled' = cancelled \cup {s}
    /\ UNCHANGED <<flags, call, conns, pump, active, fresh>>

DialSucceeds(s) ==
    /\ At(s, "handle", "dialed")
    /\ SetConn(s, "upstream", "open")
    /\ UNCHANGED <<flags, call, conns, cancelled, pump, active, fresh>>

track(s, d, from, to) ==
    /\ At(s, from, to)
    /\ conns' = conns \cup {<<s, d>>}
    /\ UNCHANGED <<flags, call, conn, cancelled, pump, active, fresh>>

TrackClient(s) == track(s, "client", "dialed", "tracking")
TrackUpstream(s) == track(s, "upstream", "tracking", "tracked")

\* Mutant: no re-check after track.
RecheckNothing(s) ==
    /\ At(s, "tracked", "starting")
    /\ UNCHANGED <<flags, call, conn, conns, cancelled, pump, active, fresh>>

\* A flag set between Accept and track is noticed here.
Recheck(s) ==
    /\ \/ allowed /\ At(s, "tracked", "starting")
       \/ ~allowed /\ At(s, "tracked", "unwind")
    /\ UNCHANGED <<flags, call, conn, conns, cancelled, pump, active, fresh>>

StartPumps(s) ==
    /\ At(s, "starting", "pumping")
    /\ active' = active + 1
    /\ pump' = [pump EXCEPT ![s] = [d \in Side |-> "read"]]
    /\ UNCHANGED <<flags, call, conn, conns, cancelled, fresh>>

\* wg.Wait returns only when both pumps have; then the deferred calls run.
PumpsEnded(s) ==
    /\ \A d \in Side : pump[s][d] = "ended"
    /\ At(s, "pumping", "unwind")
    /\ active' = active - 1
    /\ UNCHANGED <<flags, call, conn, conns, cancelled, pump, fresh>>

untrack(s, d, from, to) ==
    /\ At(s, from, to)
    /\ conns' = conns \ {<<s, d>>}
    /\ UNCHANGED <<flags, call, conn, cancelled, pump, active, fresh>>

\* Mutant: the client is untracked twice.
UntrackUpstreamAsClient(s) == untrack(s, "client", "unwind", "untracking")

UntrackUpstream(s) == untrack(s, "upstream", "unwind", "untracking")
UntrackClient(s) == untrack(s, "client", "untracking", "closing")

CloseConns(s) ==
    /\ At(s, "closing", "done")
    /\ conn' = [conn EXCEPT ![s] = [d \in Side |-> "closed"]]
    /\ cancelled' = cancelled \cup {s}
    /\ UNCHANGED <<flags, call, conns, pump, active, fresh>>

Handler(s) ==
    \/ DialFails(s) \/ DialSucceeds(s) \/ TrackClient(s) \/ TrackUpstream(s)
    \/ Recheck(s) \/ StartPumps(s) \/ PumpsEnded(s)
    \/ UntrackUpstream(s) \/ UntrackClient(s) \/ CloseConns(s)

-----------------------------------------------------------------------------
(* The pump goroutines, each named by its source side                      *)

LegAt(s, d, from, to) ==
    /\ pump[s][d] = from
    /\ pump' = [pump EXCEPT ![s][d] = to]
    /\ UNCHANGED <<flags, call, pc, conn, conns, active, fresh>>

\* Every return of pump runs the deferred cancel.
LegEnds(s, d, from) ==
    /\ LegAt(s, d, from, "ended")
    /\ cancelled' = cancelled \cup {s}

ReadChunk(s, d) ==
    /\ conn[s][d] = "open"
    /\ LegAt(s, d, "read", "check") /\ UNCHANGED cancelled

\* Mutant: only io.EOF ends the loop.
ReadEndsAtEOF(s, d) ==
    /\ conn[s][d] = "eof"
    /\ LegEnds(s, d, "read")

\* End of stream from the peer, or the error of a socket closed under the read.
ReadEnds(s, d) ==
    /\ conn[s][d] \in {"eof", "reset", "closed"}
    /\ LegEnds(s, d, "read")

Check(s, d) ==
    \/ allowed /\ LegAt(s, d, "check", "fault") /\ UNCHANGED cancelled
    \/ ~allowed /\ LegEnds(s, d, "check")

\* The packet faults: none installed, or all let the chunk through ...
PassChunk(s, d) ==
    LegAt(s, d, "fault", "write") /\ UNCHANGED cancelled

\* ... or one drops it, leaving nothing to write ...
DropChunk(s, d) ==
    /\ s \notin cancelled
    /\ LegAt(s, d, "fault", "read") /\ UNCHANGED cancelled

\* ... or one was holding it when the session was cancelled.
AbortChunk(s, d) ==
    /\ s \in cancelled
    /\ LegEnds(s, d, "fault")

\* The kernel takes the first write after the peer's close and learns from it
\* that the peer is gone; later writes, and writes to a socket the proxy itself
\* closed, fail.
WriteChunk(s, d) ==
    /\ conn[s][Other(d)] \in {"open", "eof"}
    /\ pump[s][d] = "write"
    /\ pump' = [pump EXCEPT ![s][d] = "read"]
    /\ conn' = [conn EXCEPT ![s][Other(d)] = IF @ = "eof" THEN "reset" ELSE @]
    /\ UNCHANGED <<flags, call, pc, conns, cancelled, active, fresh>>

\* A conn fault drops or withholds the chunk and reports it written.
SwallowChunk(s, d) == LegAt(s, d, "write", "read") /\ UNCHANGED cancelled

WriteFails(s, d) ==
    /\ conn[s][Other(d)] \in {"reset", "closed"}
    /\ LegEnds(s, d, "write")

Leg(s, d) ==
    \/ ReadEnds(s, d) \/ Check(s, d) \/ PassChunk(s, d) \/ AbortChunk(s, d)
    \/ WriteChunk(s, d) \/ WriteFails(s, d)

\* External: the client or the database closes its end.
PeerCloses(s, d) ==
    /\ conn[s][d] = "open"
    /\ SetConn(s, d, "eof")
    /\ UNCHANGED <<flags, call, pc, conns, cancelled, pump, active, fresh>>

-----------------------------------------------------------------------------
Control(o) ==
    \/ \E f \in Flag : SetFlag(o, f) \/ ClearFlag(o, f)
    \/ Heal(o)

Next ==
    \/ \E o \in Operator : Control(o) \/ severConns(o)
    \/ \E s \in Session : Accept(s) \/ Handler(s)
    \/ \E s \in Session, d \in Side :
          \/ ReadChunk(s, d) \/ DropChunk(s, d) \/ SwallowChunk(s, d)
          \/ Leg(s, d) \/ PeerCloses(s, d)

\* A goroutine that can run, runs: the Go scheduler, a dial that resolves and a
\* write that returns.  Nobody owes the proxy bytes, a close, a connection or a
\* control call.
Fairness ==
    /\ \A o \in Operator : WF_vars(severConns(o))
    /\ \A s \in Session : WF_vars(Handler(s))
    /\ \A s \in Session, d \in Side : WF_vars(Leg(s, d))

Spec == Init /\ [][Next]_vars /\ Fairness

-----------------------------------------------------------------------------
(* Properties                                                              *)

\* Every variable stays in its range.
TypeOK ==
    /\ flags \subseteq Flag
    /\ call \in [Operator -> {"idle", "sever"}]
    /\ pc \in [Session -> HandlerStep]
    /\ conn \in [Session -> [Side -> {"none", "open", "eof", "reset", "closed"}]]
    /\ conns \subseteq Session \X Side
    /\ cancelled \subseteq Session
    /\ pump \in [Session -> [Side -> PumpStep]]
    /\ active \in Nat
    /\ fresh \subseteq Session

\* The partition is airtight: with a flag set and no sever call outstanding, a
\* session that may pump has both sockets closed, whenever its connection was
\* accepted (the race the re-check after track is there for).
SeveredIsClosed ==
    severed /\ (\A o \in Operator : call[o] = "idle") =>
        \A s \in Session : pc[s] \in {"starting", "pumping"} =>
            \A d \in Side : conn[s][d] = "closed"

\* A finished handler leaves nothing behind: no socket open or tracked, and the
\* active count is that of the sessions still pumping.
NothingLeftBehind ==
    /\ \A s \in Session : pc[s] = "done" =>
          /\ \A d \in Side : conn[s][d] \in {"none", "closed"} /\ <<s, d>> \notin conns
          /\ s \in cancelled \/ conn[s]["upstream"] = "none"
    /\ active = Cardinality({s \in Session : pc[s] = "pumping"})

\* A severed session ends: closing both sockets unblocks both pumps wherever
\* they are, and the handler cleans up.
SeveredSessionsEnd ==
    \A s \in Session :
        (pc[s] = "pumping" /\ \A d \in Side : conn[s][d] = "closed") ~> pc[s] = "done"

\* pump's comment: "It stops when either side closes".  Read for a session: one
\* peer hanging up ends it.
StopsWhenEitherSideCloses ==
    \A s \in Session :
        (pc[s] = "pumping" /\ \E d \in Side : conn[s][d] = "eof") ~> pc[s] = "done"

\* TEST.md on heal: "New connections succeed immediately".  No session admitted
\* since the last Heal is severed while no flag is set.
HealedSessionsSurvive ==
    [][\A s \in fresh, d \in Side :
          ~severed /\ pc[s] = "pumping" /\ conn[s][d] = "open"
             => conn'[s][d] # "closed"]_vars
=============================================================================
