------------------------------- MODULE Dataflow -------------------------------
(***************************************************************************)
(* The operators of a flow and the transaction one operation runs in: the  *)
(* staged keyed states of its stateful steps and what it has spent of its  *)
(* budgets.  A transaction that met an error is kept with ok = FALSE; its  *)
(* owner discards it.                                                      *)
(*                                                                         *)
(* Callbacks are the user's: constants, free of side effects.  A record    *)
(* weighs one, so the limits on records stand for those on their bytes.    *)
(***************************************************************************)
EXTENDS Integers, Sequences, FiniteSets, FiniteSetsExt, SequencesExt, TLC

CONSTANTS
    Operator,        \* the operator of every step
    Callback(_, _),  \* what a step without state returns for a value
    Initial(_),      \* the initial state of a stateful step
    Update(_, _, _), \* its StateUpdate: outputs, state and whether it is retained
    Size(_),         \* the bytes of a state
    NoKey            \* the key of a record without one

Stateful == {"stateful_map", "stateful_flat_map"}

ASSUME DataflowAssumption ==
    \A step \in DOMAIN Operator : Operator[step] \in
          Stateful \cup {"map", "filter", "flat_map", "key_by", "drop_key"}

\* FlowLimits, GraphLimits and MultiGraphLimits of a graph: of an operation its
\* callbacks, records per step and work; of the steps their keys and bytes; of
\* steps and joins together their cells, values and bytes.
LimitsAdmitted(limits) ==
    \A field \in {"calls", "records", "work", "keys", "stateBytes", "cells", "values", "bytes"} :
        limits[field] \in Nat \ {0}

Record(value, key) == [value |-> value, key |-> key]

Check(tx, holds) == [tx EXCEPT !.ok = @ /\ holds]

\* n records are charged to the operation's work, beside what is reserved.
Charged(tx, n) ==
    Check([tx EXCEPT !.work = @ + n], tx.work + tx.reserved + n <= tx.limits.work)

Invoked(tx, n) == Check([tx EXCEPT !.calls = @ + n], tx.calls + n <= tx.limits.calls)

\* Cells of steps and joins, the values of joins and the bytes of all of them;
\* naming a cell costs one byte.
WithinState(tx) ==
    /\ tx.keys + tx.heldCells <= tx.limits.cells
    /\ tx.values <= tx.limits.values
    /\ tx.bytes + tx.keys + tx.heldBytes <= tx.limits.bytes

SizeAt(cells, c) == IF c \in DOMAIN cells THEN Size(cells[c]) ELSE 0

\* Deviation: the bytes of a dropped state stay in the total.
ProposedUnreleased(tx, c, update) ==
    LET cells  == IF update.retain THEN (c :> update.state) @@ tx.cells
                  ELSE [d \in DOMAIN tx.cells \ {c} |-> tx.cells[d]]
        keys   == tx.keys + Cardinality(DOMAIN cells) - Cardinality(DOMAIN tx.cells)
        bytes  == tx.bytes + (IF update.retain THEN SizeAt(cells, c) - SizeAt(tx.cells, c) ELSE 0)
        next   == [tx EXCEPT !.cells = cells, !.keys = keys, !.bytes = bytes]
    IN  Check(next, keys <= tx.limits.keys /\ bytes <= tx.limits.stateBytes /\ WithinState(next))

\* A new state for a cell, or none: the projected totals are carried along.
Proposed(tx, c, update) ==
    LET cells  == IF update.retain THEN (c :> update.state) @@ tx.cells
                  ELSE [d \in DOMAIN tx.cells \ {c} |-> tx.cells[d]]
        keys   == tx.keys + Cardinality(DOMAIN cells) - Cardinality(DOMAIN tx.cells)
        bytes  == tx.bytes + SizeAt(cells, c) - SizeAt(tx.cells, c)
        next   == [tx EXCEPT !.cells = cells, !.keys = keys, !.bytes = bytes]
    IN  Check(next, keys <= tx.limits.keys /\ bytes <= tx.limits.stateBytes /\ WithinState(next))

\* A step emits values under a key; acc is the transaction and its batch.
Emitted(acc, tx, values, key) ==
    [tx  |-> Check(Charged(tx, Len(values)), Len(acc.batch) + Len(values) <= tx.limits.records),
     batch |-> acc.batch \o [i \in DOMAIN values |-> Record(values[i], key)]]

\* A stateful step: a state staged earlier in the operation is seen.
StatefulItem(step, acc, item) ==
    LET c      == <<step, item.key>>
        known  == c \in DOMAIN acc.tx.cells
        update == Update(step, item.value, IF known THEN acc.tx.cells[c] ELSE Initial(step))
        tx     == Proposed(Invoked(acc.tx, IF known THEN 1 ELSE 2), c, update)
    IN  IF item.key = NoKey THEN [acc EXCEPT !.tx.ok = FALSE]
        ELSE Emitted(acc, tx, update.outputs, item.key)

ItemApplied(step, acc, item) ==
    LET tx       == Invoked(acc.tx, 1)
        returned == Callback(step, item.value)
        operator == Operator[step]
    IN  CASE operator = "drop_key"  -> Emitted(acc, acc.tx, <<item.value>>, NoKey)
          [] operator \in Stateful  -> StatefulItem(step, acc, item)
          [] operator = "map"       -> Emitted(acc, tx, <<returned>>, item.key)
          [] operator = "key_by"    -> Emitted(acc, tx, <<item.value>>, returned)
          [] operator = "filter"    -> Emitted(acc, tx, IF returned THEN <<item.value>> ELSE <<>>,
                                               item.key)
          [] operator = "flat_map"  -> Emitted(acc, tx, returned, item.key)

\* _FlowTransaction.apply: the transaction and the batch a step emits.
Applied(step, tx, items) ==
    FoldLeft(LAMBDA acc, item : IF acc.tx.ok THEN ItemApplied(step, acc, item) ELSE acc,
             [tx |-> tx, batch |-> <<>>], items)
=============================================================================
