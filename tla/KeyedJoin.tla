------------------------------ MODULE KeyedJoin ------------------------------
(***************************************************************************)
(* Keyed joins: inputs arrive on named sides, each side ends once, and the *)
(* join emits rows on every arrival (running), when a key is on all sides  *)
(* (complete), or in bounded drains after all sides ended (final).         *)
(*                                                                         *)
(* The operators are functions from a state to the state an operation      *)
(* publishes.  A value is identified by its arrival's number.  Sides are   *)
(* 1 .. Sides in their configured order and keys are numbers in the order  *)
(* of their names.  Bytes: a cell weighs one and its values, a row one and *)
(* its values, and an absent side one.                                     *)
(***************************************************************************)
EXTENDS Integers, Sequences, FiniteSets, FiniteSetsExt, SequencesExt

CONSTANTS
    Key,       \* record keys
    Sides,     \* the number of sides
    Weight,    \* the bytes of a value of each side
    Absent,    \* what a row holds for a side without values
    Joins,     \* the KeyedJoin configurations in use
    MaxCount   \* _MAX_COUNT: inputs and emitted rows

ASSUME JoinAssumption ==
    /\ Key \subseteq Int
    /\ Sides \in Nat /\ Sides >= 2
    /\ Weight \in [1 .. Sides -> Nat \ {0}]
    /\ MaxCount \in Nat
    /\ \A join \in Joins :
          /\ join.insert \in {"first", "last", "product"}
          /\ join.emit \in {"complete", "final", "running"}
          /\ \A field \in {"keys", "valuesPerSide", "values", "keyBytes", "stateBytes",
                           "rowsPerKey", "rowsPerBatch", "rowBytes", "batchBytes"} :
                join[field] \in Nat \ {0}
          /\ join.rowsPerKey <= join.rowsPerBatch
          /\ join.rowBytes <= join.batchBytes

Side == 1 .. Sides

-----------------------------------------------------------------------------

(***************************************************************************)
(* A cell is the tuple of the values each side retains for a key.          *)
(***************************************************************************)
NoValues == [s \in Side |-> <<>>]

Complete(cell) == \A s \in Side : cell[s] # <<>>

Count(cell) == SumFunction([s \in Side |-> Len(cell[s])])

CellBytes(cell) == 1 + SumFunction([s \in Side |-> Len(cell[s]) * Weight[s]])

\* What a side offers to the Cartesian product.
Offered(cell, s) == IF cell[s] = <<>> THEN <<Absent>> ELSE cell[s]

\* The number of combinations of the sides after s.
Strides(cell) ==
    LET stride[s \in 0 .. Sides] ==
            IF s = Sides THEN 1 ELSE Len(Offered(cell, s + 1)) * stride[s + 1]
    IN  stride

RowCount(cell) == Strides(cell)[0]

ValueBytes(cell, s) == IF cell[s] = <<>> THEN 1 ELSE Weight[s]

RowBytes(cell) == 1 + SumFunction([s \in Side |-> ValueBytes(cell, s)])

OutputBytes(cell) == RowCount(cell) * RowBytes(cell)

\* The rows of a key: the product of its sides, the last side fastest.
RowsOf(k, cell) ==
    LET pick(s, n) == Offered(cell, s)[1 + (((n - 1) \div Strides(cell)[s])
                                                % Len(Offered(cell, s)))]
    IN  [n \in 1 .. RowCount(cell) |-> [key |-> k, values |-> [s \in Side |-> pick(s, n)]]]

CellAdmitted(join, cell) ==
    /\ Count(cell) > 0
    /\ \A s \in Side : Len(cell[s]) <= join.valuesPerSide
    /\ CellBytes(cell) <= join.keyBytes
    /\ RowCount(cell) <= join.rowsPerKey
    /\ RowBytes(cell) <= join.rowBytes /\ OutputBytes(cell) <= join.batchBytes

SumOver(cells, Measure(_)) == SumFunction([k \in DOMAIN cells |-> Measure(cells[k])])

-----------------------------------------------------------------------------

Empty ==
    [cells |-> <<>>, closed |-> [s \in Side |-> FALSE], counts |-> [s \in Side |-> 0],
     emitted |-> 0, bytes |-> 0, values |-> 0, phase |-> "open"]

Inputs(state) == SumFunction(state.counts)

CellOf(state, k) == IF k \in DOMAIN state.cells THEN state.cells[k] ELSE NoValues

\* Deviation: a first join replaces the value of a side it has.
InsertedAlwaysLast(join, cell, s, x) ==
    IF join.insert = "product" THEN [cell EXCEPT ![s] = Append(@, x)]
                               ELSE [cell EXCEPT ![s] = <<x>>]

\* The cell after value x arrived on side s.
Inserted(join, cell, s, x) ==
    IF join.insert = "product" THEN [cell EXCEPT ![s] = Append(@, x)]
    ELSE IF join.insert = "last" \/ cell[s] = <<>> THEN [cell EXCEPT ![s] = <<x>>]
    ELSE cell

Completes(join, cell) == join.emit = "complete" /\ Complete(cell)

Emits(join, cell) == join.emit = "running" \/ Completes(join, cell)

\* Deviation: the values of a completed key stay in the carried totals.
StageProcessUnreleased(join, state, s, k, x) ==
    LET before   == CellOf(state, k)
        proposed == Inserted(join, before, s, x)
        known    == k \in DOMAIN state.cells
        retains  == ~ Completes(join, proposed)
    IN  [state EXCEPT
            !.cells = [j \in (IF retains THEN DOMAIN @ \cup {k} ELSE DOMAIN @ \ {k}) |->
                            IF j = k THEN proposed ELSE @[j]],
            !.counts[s] = @ + 1,
            !.emitted = @ + (IF Emits(join, proposed) THEN RowCount(proposed) ELSE 0),
            !.bytes = @ - (IF known THEN CellBytes(before) ELSE 0) + CellBytes(proposed),
            !.values = @ - Count(before) + Count(proposed)]

\* process: a key that completes leaves the state, every other one is kept;
\* totals are carried forward, the old cell out and the new cell in.
StageProcess(join, state, s, k, x) ==
    LET before   == CellOf(state, k)
        proposed == Inserted(join, before, s, x)
        known    == k \in DOMAIN state.cells
        retains  == ~ Completes(join, proposed)
    IN  [state EXCEPT
            !.cells = [j \in (IF retains THEN DOMAIN @ \cup {k} ELSE DOMAIN @ \ {k}) |->
                            IF j = k THEN proposed ELSE @[j]],
            !.counts[s] = @ + 1,
            !.emitted = @ + (IF Emits(join, proposed) THEN RowCount(proposed) ELSE 0),
            !.bytes = @ - (IF known THEN CellBytes(before) ELSE 0)
                        + (IF retains THEN CellBytes(proposed) ELSE 0),
            !.values = @ - Count(before) + (IF retains THEN Count(proposed) ELSE 0)]

ProcessAdmitted(join, state, s, k, x) ==
    LET after == StageProcess(join, state, s, k, x)
    IN  /\ state.phase = "open" /\ ~ state.closed[s]
        /\ join.insert = "product" => Len(CellOf(state, k)[s]) < join.valuesPerSide
        /\ CellAdmitted(join, Inserted(join, CellOf(state, k), s, x))
        /\ Cardinality(DOMAIN after.cells) <= join.keys
        /\ after.bytes <= join.stateBytes /\ after.values <= join.values
        /\ Inputs(after) <= MaxCount /\ after.emitted <= MaxCount

ProcessedRows(join, state, s, k, x) ==
    LET proposed == Inserted(join, CellOf(state, k), s, x)
    IN  IF Emits(join, proposed) THEN RowsOf(k, proposed) ELSE <<>>

\* A side ends; when it is the last, only a final join keeps its cells.
StageClose(join, state, s) ==
    LET closed == [state.closed EXCEPT ![s] = TRUE]
        ended  == \A u \in Side : closed[u]
        drains == join.emit = "final" /\ state.cells # <<>>
    IN  CASE state.closed[s]                    -> state
          [] ~ state.closed[s] /\ ~ ended       -> [state EXCEPT !.closed = closed]
          [] ~ state.closed[s] /\ ended /\ drains ->
                [state EXCEPT !.closed = closed, !.phase = "draining"]
          [] ~ state.closed[s] /\ ended /\ ~ drains ->
                [state EXCEPT !.closed = closed, !.phase = "closed", !.cells = <<>>,
                              !.bytes = 0, !.values = 0]

\* Deviation: a key may leave no room for itself.
FitsStrictly(join, state, keys) ==
    /\ SumOver(Restrict(state.cells, keys), RowCount) <= join.rowsPerBatch
    /\ SumOver(Restrict(state.cells, keys), OutputBytes) < join.batchBytes

Fits(join, state, keys) ==
    /\ SumOver(Restrict(state.cells, keys), RowCount) <= join.rowsPerBatch
    /\ SumOver(Restrict(state.cells, keys), OutputBytes) <= join.batchBytes

\* A drain takes the longest run of keys, in order, that fits a batch.
Selected(join, state, maxKeys) ==
    LET upTo(k) == {j \in DOMAIN state.cells : j <= k}
    IN  {k \in DOMAIN state.cells : /\ Cardinality(upTo(k)) <= maxKeys
                                    /\ Fits(join, state, upTo(k))}

\* A set of keys in order.
InOrder(keys) ==
    [n \in 1 .. Cardinality(keys) |->
        CHOOSE k \in keys : Cardinality({j \in keys : j < k}) = n - 1]

StageDrain(join, state, maxKeys) ==
    LET keys == Selected(join, state, maxKeys)
        rest == Restrict(state.cells, DOMAIN state.cells \ keys)
        out  == Restrict(state.cells, keys)
    IN  IF state.phase = "closed" THEN state
        ELSE [state EXCEPT
                !.cells = rest,
                !.emitted = @ + SumOver(out, RowCount),
                !.bytes = @ - SumOver(out, CellBytes),
                !.values = @ - SumOver(out, Count),
                !.phase = IF DOMAIN rest = {} THEN "closed" ELSE "draining"]

DrainAdmitted(join, state, maxKeys) ==
    /\ state.phase # "open"
    /\ StageDrain(join, state, maxKeys).emitted <= MaxCount

-----------------------------------------------------------------------------

(***************************************************************************)
(* Checkpoints: what JoinCheckpoint and from_checkpoint demand of a state. *)
(***************************************************************************)
Retained(state, s) == SumOver(state.cells, LAMBDA cell : Len(cell[s]))

Consumed(state, s) == state.counts[s] - Retained(state, s)

ShapeAdmitted(join, state) ==
    /\ (state.phase = "open") = ~ (\A s \in Side : state.closed[s])
    /\ state.phase = "closed" => state.cells = <<>>
    /\ state.phase = "draining" => state.cells # <<>> /\ join.emit = "final"
    /\ \A s \in Side : Consumed(state, s) >= 0
    /\ Cardinality(DOMAIN state.cells) <= join.keys
    /\ SumOver(state.cells, CellBytes) <= join.stateBytes
    /\ SumOver(state.cells, Count) <= join.values
    /\ \A k \in DOMAIN state.cells :
          /\ CellAdmitted(join, state.cells[k])
          /\ join.insert # "product" => \A s \in Side : Len(state.cells[k][s]) <= 1
          /\ join.emit = "complete" => ~ Complete(state.cells[k])

CountersAdmitted(join, state) ==
    LET product == join.insert = "product"
        inputs  == Inputs(state)
        keys    == Cardinality(DOMAIN state.cells)
        perKey  == IF product THEN join.rowsPerKey ELSE 1
        used    == {Consumed(state, s) : s \in Side}
    IN  /\ state.emitted <= inputs * join.rowsPerKey
        /\ product /\ join.emit # "complete" => inputs <= join.values
        /\ state.phase = "open" /\ join.emit # "complete" =>
              \A s \in Side : IF product THEN Retained(state, s) = state.counts[s]
                              ELSE state.counts[s] > 0 => Retained(state, s) > 0
        /\ CASE join.emit = "running" ->
                  state.emitted >= inputs /\ (~ product => state.emitted = inputs)
             [] join.emit = "complete" -> state.emitted <= Min(used) * perKey
             [] join.emit = "final" ->
                  /\ state.phase = "open" => state.emitted = 0
                  /\ ~ product => state.emitted <= inputs - keys
                  /\ state.phase = "closed" /\ inputs > 0 => state.emitted > 0
                  /\ state.emitted <= (join.keys - keys) * perKey
                  /\ product => /\ Max(used) <= state.emitted
                                /\ state.emitted <= SumFunction([s \in Side |-> Consumed(state, s)])
                                                    * join.rowsPerKey

\* Sizes and counts of values are not part of a checkpoint.
RestoredJoin(state) ==
    [state EXCEPT !.bytes = SumOver(state.cells, CellBytes),
                  !.values = SumOver(state.cells, Count)]
=============================================================================
