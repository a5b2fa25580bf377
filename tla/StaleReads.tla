----------------------------- MODULE StaleReads -----------------------------
(***************************************************************************)
(* The read hook of the proxy: the client leg of pump remembers the last   *)
(* chunk as the session's lastQuery, the reply leg pairs each reply with   *)
(* it and hands both to StaleReadFault.MaybeServeStale of                  *)
(* internal/faults/db.go, whose one cache serves every session.            *)
(*                                                                         *)
(* A query and a reply are one chunk each.  The clients and the database,  *)
(* which answers a session's queries in order, are external.  A corruption *)
(* fault may garble what either leg carries before the hook sees it.       *)
(***************************************************************************)
EXTENDS Naturals, Sequences, Functions

CONSTANTS
    Sessions,
    Queries,
    Depth,     \* queries a client sends ahead of their answers
    MaxAge,    \* StaleReadFault.MaxAge
    MaxClock   \* bound on the clock

VARIABLES
    clock,
    hook,       \* a StaleReadFault is registered
    cache,      \* its cache: query -> the reply, or Nothing
    corrupting, \* a query_corruption fault is registered
    awaiting,   \* session -> the queries the client waits to have answered
    asked,      \* session -> the queries whose replies the proxy has yet to read
    lastQuery,  \* session.lastQuery
    got         \* history: the last reply to reach a client, and for which query

readVars == <<clock, hook, cache, corrupting, awaiting, asked, lastQuery, got>>

Nothing == [to |-> "", cachedAt |-> 0]
Garbled == "garbled"
Sent == Queries \cup {Garbled}

ReadInit ==
    /\ clock = 0
    /\ hook = FALSE /\ cache = [q \in Sent \cup {""} |-> Nothing]
    /\ corrupting = FALSE
    /\ awaiting = [s \in Sessions |-> <<>>] /\ asked = awaiting
    /\ lastQuery = [s \in Sessions |-> ""]
    /\ got = <<>>

Elapse ==
    /\ clock < MaxClock
    /\ clock' = clock + 1
    /\ UNCHANGED <<hook, cache, corrupting, awaiting, asked, lastQuery, got>>

\* Apply of stale_read: a new fault, with a new cache, takes the place of the old.
ApplyStaleRead ==
    /\ hook' = TRUE
    /\ cache' = [q \in DOMAIN cache |-> Nothing]
    /\ UNCHANGED <<clock, corrupting, awaiting, asked, lastQuery, got>>

RemoveStaleRead ==
    /\ hook
    /\ hook' = FALSE
    /\ UNCHANGED <<clock, cache, corrupting, awaiting, asked, lastQuery, got>>

ToggleCorruption ==
    /\ corrupting' = ~corrupting
    /\ UNCHANGED <<clock, hook, cache, awaiting, asked, lastQuery, got>>

\* QueryCorruptionFault.Apply
Garbles(x) == IF corrupting THEN {x, Garbled} ELSE {x}

\* The client leg: the chunk as the packet faults left it, then the write.
PumpQuery(s, q) ==
    /\ Len(awaiting[s]) < Depth
    /\ awaiting' = [awaiting EXCEPT ![s] = Append(@, q)]
    /\ \E p \in Garbles(q) :
          /\ lastQuery' = [lastQuery EXCEPT ![s] = p]
          /\ asked' = [asked EXCEPT ![s] = Append(@, p)]
    /\ UNCHANGED <<clock, hook, cache, corrupting, got>>

\* Mutant: the age of the cached reply is not looked at.
ServesAnyAge(cached) == cached # Nothing

\* serveStale, before the draw against Probability.
MayServe(cached) == cached # Nothing /\ clock - cached.cachedAt < MaxAge

\* What MaybeServeStale may return.
MaybeServeStale(q, live) == {live} \cup {cached \in {cache[q]} : MayServe(cached)}

\* The reply leg.  The hook caches the live reply, whatever it returns.
PumpReply(s) ==
    /\ asked[s] # <<>>
    /\ \E p \in Garbles(Head(asked[s])) :
          LET live == [to |-> p, cachedAt |-> clock]
              q == lastQuery[s] IN
          /\ cache' = IF hook THEN [cache EXCEPT ![q] = live] ELSE cache
          /\ \E r \in IF hook THEN MaybeServeStale(q, live) ELSE {live} :
                got' = <<[for |-> Head(awaiting[s]), to |-> r.to, age |-> clock - r.cachedAt]>>
    /\ asked' = [asked EXCEPT ![s] = Tail(@)]
    /\ awaiting' = [awaiting EXCEPT ![s] = Tail(@)]
    /\ UNCHANGED <<clock, hook, corrupting, lastQuery>>

ReadNext ==
    \/ Elapse \/ ApplyStaleRead \/ RemoveStaleRead \/ ToggleCorruption
    \/ \E s \in Sessions : PumpReply(s) \/ \E q \in Queries : PumpQuery(s, q)

ReadSpec == ReadInit /\ [][ReadNext]_readVars

-----------------------------------------------------------------------------
(* Properties                                                              *)

\* session: "so the reply pump can pair a response with its query", "right for a
\* single-chunk SELECT".  A client that waits for its answers is never served the
\* reply to another query, of its own or of another session, but for what a
\* corruption fault garbled; and what it is served the proxy read less than MaxAge
\* ago, so that a garbled reply, which is cached too, lingers no longer than that.
ServedPaired ==
    \A g \in Range(got) : g.to \in {g.for, Garbled} /\ (g.age = 0 \/ g.age < MaxAge)
=============================================================================
