----------------------------- MODULE SerialFlow -----------------------------
(***************************************************************************)
(* What a keyed Flow promises of its source, whatever executes it: the     *)
(* inputs are consumed in order, once each, by a single runtime that keeps *)
(* one cell per key; every input appends its rows to the output; after EOF *)
(* nothing changes.  A wave is a nonempty run of inputs taken in one step. *)
(***************************************************************************)
EXTENDS Naturals, Sequences, SequencesExt, Subsequence

CONSTANTS Key, Record, KeyOf, RowsOf, MaxBatch

VARIABLES inputs, rows, closed

serialVars == <<inputs, rows, closed>>

\* The cell of the record's key after the last input of the history.
Cell(history) ==
    Filtered(history, {r \in Record : KeyOf[r] = KeyOf[Last(history)]})

RowsOfInput(history) ==
    [j \in 1 .. RowsOf[Last(history)] |->
        [position |-> Len(history) - 1, ordinal |-> j - 1,
         key |-> KeyOf[Last(history)], value |-> Cell(history)]]

Init == inputs = <<>> /\ rows = <<>> /\ closed = FALSE

Consume(batch) ==
    /\ ~ closed
    /\ inputs' = inputs \o batch
    /\ rows' = rows \o FlattenSeq([i \in 1 .. Len(batch) |->
                            RowsOfInput(inputs \o SubSeq(batch, 1, i))])
    /\ UNCHANGED closed

CloseSource ==
    /\ ~ closed
    /\ closed' = TRUE
    /\ UNCHANGED <<inputs, rows>>

Next ==
    \/ \E n \in 1 .. MaxBatch : \E batch \in [1 .. n -> Record] : Consume(batch)
    \/ CloseSource

Spec == Init /\ [][Next]_serialVars
=============================================================================
