----------------------------- MODULE DataFaults -----------------------------
(***************************************************************************)
(* internal/faults/data.go: the rows of InMemoryDataStore and one          *)
(* RowCorruptionFault, injected on and reverted from any node.  A row is   *)
(* the client's value and the bytes that are flipped in it; an empty row   *)
(* (on which flipBytes panics) does not occur.                             *)
(***************************************************************************)
EXTENDS Naturals, FiniteSets

CONSTANTS
    Holders,      \* the nodes of the store
    Values,       \* what clients write
    RowLength,    \* bytes in a row
    BytesToFlip   \* RowCorruptionFault

VARIABLES
    rows,           \* node -> the row there, or NoRow
    previousValue   \* RowCorruptionFault: the row that Revert puts back, or NoRow

dataVars == <<rows, previousValue>>

NoRow == <<>>
Byte == 1..RowLength

DataInit == rows = [n \in Holders |-> NoRow] /\ previousValue = NoRow

WriteRow(n, row) == rows' = [rows EXCEPT ![n] = row]

ClientWritesRow(n, v) ==
    /\ WriteRow(n, [value |-> v, flipped |-> {}])
    /\ UNCHANGED previousValue

\* n draws, with repetitions: a byte drawn an even number of times is as before.
Drawn(n) == {d \in SUBSET Byte : Cardinality(d) <= n /\ (n - Cardinality(d)) % 2 = 0}

Toggle(flipped, d) == (flipped \ d) \cup (d \ flipped)

\* Mutant: one draw less.
flipBytesShort(flipped) == {Toggle(flipped, d) : d \in Drawn(BytesToFlip - 1)}

flipBytes(flipped) == {Toggle(flipped, d) : d \in Drawn(BytesToFlip)}

InjectCorruption(n) ==
    /\ rows[n] # NoRow
    /\ previousValue' = rows[n]
    /\ \E f \in flipBytes(rows[n].flipped) : WriteRow(n, [rows[n] EXCEPT !.flipped = f])

RevertCorruption(n) ==
    /\ previousValue # NoRow
    /\ WriteRow(n, previousValue)
    /\ UNCHANGED previousValue

DataNext ==
    \E n \in Holders :
        \/ InjectCorruption(n) \/ RevertCorruption(n)
        \/ \E v \in Values : ClientWritesRow(n, v)

DataSpec == DataInit /\ [][DataNext]_dataVars

\* RowCorruptionFault: "produces wrong data".  An Inject with an odd BytesToFlip
\* changes the row it is given, also one that is corrupt already, whichever indices
\* are drawn twice; an even one may flip a byte and flip it back.
CorruptionShows ==
    [][\A n \in Holders : InjectCorruption(n) => rows'[n] # rows[n]]_dataVars
=============================================================================
