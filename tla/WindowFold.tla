----------------------------- MODULE WindowFold -----------------------------
(***************************************************************************)
(* Arrival-ordered fixed-window folds: window geometry, the retained cells *)
(* and the four staged operations (process, advance, finish, drain), each a*)
(* function from a state to the state it publishes.                        *)
(*                                                                         *)
(* A record is identified by its payload: the value of a cell is the       *)
(* sequence of payloads folded into it, so that a lost, repeated or        *)
(* reordered contribution shows.  Keys are numbers in the order of their   *)
(* names.  One unit of bytes is a cell, a row, or a contribution to it.    *)
(***************************************************************************)
EXTENDS Integers, Sequences, FiniteSets, FiniteSetsExt, SequencesExt

CONSTANTS
    Key,       \* record keys
    Specs,     \* the WindowFold configurations in use
    MaxCount   \* _MAX_COUNT: counters and ticks

WindowConstants ==
    /\ Key \subseteq Int
    /\ MaxCount \in Nat
    /\ \A spec \in Specs :
          /\ spec.width \in 1 .. MaxCount /\ spec.hop \in 1 .. MaxCount
          /\ spec.origin \in -MaxCount .. MaxCount
          /\ spec.late \in {"reject", "drop"}
          /\ spec.identity \in BOOLEAN       \* finalize is None
          /\ \A field \in {"windowsPerInput", "keys", "windows", "inputs", "stateBytes",
                           "rowBytes", "rowsPerBatch", "batchBytes"} :
                spec[field] \in Nat \ {0}
          /\ spec.keys <= spec.windows
          /\ spec.rowBytes <= spec.batchBytes

ASSUME WindowAssumption == WindowConstants

Tick == -MaxCount .. MaxCount

\* watermark is None: it precedes every tick.
NoWatermark == -(MaxCount + 1)

(***************************************************************************)
(* Geometry: window i is [start, end), and a timestamp lies in the windows *)
(* first .. last, in none when the hop leaves gaps between windows.        *)
(***************************************************************************)
Start(spec, i) == spec.origin + i * spec.hop
End(spec, i) == Start(spec, i) + spec.width

FirstWindow(spec, t) == (t - spec.origin - spec.width) \div spec.hop + 1
LastWindow(spec, t) == (t - spec.origin) \div spec.hop

GeometryAdmitted(spec, i) == i \in Tick /\ Start(spec, i) \in Tick /\ End(spec, i) \in Tick

(***************************************************************************)
(* State.  A cell is identified by its window's index and its key.         *)
(***************************************************************************)
Empty ==
    [cells |-> <<>>, watermark |-> NoWatermark, finished |-> FALSE, processed |-> 0,
     lateDrops |-> 0, gaps |-> 0, updates |-> 0, created |-> 0, emitted |-> 0,
     finalized |-> 0, bytes |-> 0]

CellBytes(cell) == 1 + Len(cell.value)
RowBytes(cell) == 1 + Len(cell.value)

KeysOf(cells) == {id[2] : id \in DOMAIN cells}

SumOver(cells, Measure(_)) == SumFunction([id \in DOMAIN cells |-> Measure(cells[id])])

Eligible(spec, s, id) == s.finished \/ End(spec, id[1]) <= s.watermark

Pending(spec, s) == {id \in DOMAIN s.cells : Eligible(spec, s, id)}

Phase(spec, s) ==
    IF Pending(spec, s) # {} THEN "draining" ELSE IF s.finished THEN "closed" ELSE "open"

Late(s, t) == t < s.watermark

(***************************************************************************)
(* process: one input is late, falls into a gap, or contributes to every   *)
(* window it lies in, all or none.                                         *)
(***************************************************************************)
Members(spec, t) == FirstWindow(spec, t) .. LastWindow(spec, t)

\* The cells of the input's windows after its contribution.
Folded(s, ids, x) ==
    [id \in DOMAIN s.cells \cup ids |->
        IF id \notin ids THEN s.cells[id]
        ELSE IF id \in DOMAIN s.cells
               THEN [count |-> s.cells[id].count + 1, value |-> Append(s.cells[id].value, x)]
        ELSE [count |-> 1, value |-> <<x>>]]

\* Deviation: what the touched cells weighed before is not subtracted.
StageFoldKeepingOldBytes(spec, s, t, k, x) ==
    LET ids   == {<<i, k>> : i \in Members(spec, t)}
        cells == Folded(s, ids, x)
    IN  [s EXCEPT !.cells = cells,
                  !.processed = @ + 1,
                  !.updates = @ + Cardinality(ids),
                  !.created = @ + Cardinality(ids \ DOMAIN s.cells),
                  !.bytes = @ + SumOver(Restrict(cells, ids), CellBytes)]

\* The size is carried forward: old costs out, new costs in.
StageFold(spec, s, t, k, x) ==
    LET ids   == {<<i, k>> : i \in Members(spec, t)}
        cells == Folded(s, ids, x)
    IN  [s EXCEPT !.cells = cells,
                  !.processed = @ + 1,
                  !.updates = @ + Cardinality(ids),
                  !.created = @ + Cardinality(ids \ DOMAIN s.cells),
                  !.bytes = @ - SumOver(Restrict(s.cells, ids \cap DOMAIN s.cells), CellBytes)
                              + SumOver(Restrict(cells, ids), CellBytes)]

FoldAdmitted(spec, s, t, k, x) ==
    LET after == StageFold(spec, s, t, k, x)
        ids   == {<<i, k>> : i \in Members(spec, t)}
    IN  /\ Cardinality(ids) <= spec.windowsPerInput
        /\ \A i \in Members(spec, t) : GeometryAdmitted(spec, i)
        /\ Cardinality(DOMAIN after.cells) <= spec.windows
        /\ Cardinality(KeysOf(after.cells)) <= spec.keys
        /\ after.updates <= MaxCount /\ after.created <= MaxCount
        /\ spec.identity => \A id \in ids : RowBytes(after.cells[id]) <= spec.rowBytes
        /\ after.bytes <= spec.stateBytes

\* Deviation: a late input that is not rejected is folded like any other.
OutcomeFoldingLate(spec, s, t, k, x) ==
    IF \/ Phase(spec, s) # "open"
       \/ t \notin Tick
       \/ Late(s, t) /\ spec.late = "reject"
       \/ s.processed + 1 > spec.inputs
      THEN "refused"
    ELSE IF Members(spec, t) = {} THEN "gap"
    ELSE IF FoldAdmitted(spec, s, t, k, x) THEN "folded" ELSE "refused"

\* What process does with an input; "refused" is any exception of it.
Outcome(spec, s, t, k, x) ==
    IF \/ Phase(spec, s) # "open"
       \/ t \notin Tick
       \/ Late(s, t) /\ spec.late = "reject"
       \/ s.processed + 1 > spec.inputs
      THEN "refused"
    ELSE IF Late(s, t) THEN "late_dropped"
    ELSE IF Members(spec, t) = {} THEN "gap"
    ELSE IF FoldAdmitted(spec, s, t, k, x) THEN "folded" ELSE "refused"

StageProcess(spec, s, t, k, x) ==
    CASE Outcome(spec, s, t, k, x) = "folded" -> StageFold(spec, s, t, k, x)
      [] Outcome(spec, s, t, k, x) = "late_dropped" ->
            [s EXCEPT !.processed = @ + 1, !.lateDrops = @ + 1]
      [] Outcome(spec, s, t, k, x) = "gap" ->
            [s EXCEPT !.processed = @ + 1, !.gaps = @ + 1]
      [] OTHER -> s

(***************************************************************************)
(* advance_watermark and finish.                                           *)
(***************************************************************************)
AdvanceAdmitted(spec, s, t) == t \in Tick /\ Phase(spec, s) = "open" /\ t >= s.watermark

StageAdvance(s, t) == [s EXCEPT !.watermark = t]

StageFinish(s) == [s EXCEPT !.finished = TRUE]

(***************************************************************************)
(* drain: the eligible cells in (index, key) order, at most cap of them.   *)
(***************************************************************************)
Before(p, q) == p[1] < q[1] \/ (p[1] = q[1] /\ p[2] < q[2])

\* The first n of a set of identities, in order.
FirstOf(ids, n) == {id \in ids : Cardinality({e \in ids : Before(e, id)}) < n}

\* Deviation: a row is charged more than it may weigh.
CapRoundedDown(spec, maxWindows) ==
    Min({maxWindows, spec.rowsPerBatch, spec.batchBytes \div (spec.rowBytes + 1)})

Cap(spec, maxWindows) ==
    Min({maxWindows, spec.rowsPerBatch, spec.batchBytes \div spec.rowBytes})

Selected(spec, s, maxWindows) == FirstOf(Pending(spec, s), Cap(spec, maxWindows))

RowOf(s, id) == [index |-> id[1], key |-> id[2], count |-> s.cells[id].count,
                 value |-> s.cells[id].value]

DrainedRows(spec, s, maxWindows) ==
    LET ids == Selected(spec, s, maxWindows)
        at(n) == CHOOSE id \in ids : Cardinality({e \in ids : Before(e, id)}) = n - 1
    IN  [n \in 1 .. Cardinality(ids) |-> RowOf(s, at(n))]

\* With a finalizer the callback decides what the rows weigh, and may raise.
DrainAdmitted(spec, s, maxWindows) ==
    LET ids == Selected(spec, s, maxWindows)
    IN  /\ maxWindows \in Nat \ {0}
        /\ s.emitted + Cardinality(ids) <= MaxCount
        /\ s.finalized + SumOver(Restrict(s.cells, ids), LAMBDA cell : cell.count) <= MaxCount
        /\ spec.identity =>
              /\ \A id \in ids : RowBytes(s.cells[id]) <= spec.rowBytes
              /\ SumOver(Restrict(s.cells, ids), RowBytes) <= spec.batchBytes

StageDrain(spec, s, maxWindows) ==
    LET ids == Selected(spec, s, maxWindows)
    IN  [s EXCEPT !.cells = Restrict(s.cells, DOMAIN s.cells \ ids),
                  !.bytes = @ - SumOver(Restrict(s.cells, ids), CellBytes),
                  !.emitted = @ + Cardinality(ids),
                  !.finalized = @ + SumOver(Restrict(s.cells, ids), LAMBDA cell : cell.count)]

(***************************************************************************)
(* Checkpoints: what restoring a checkpoint of a state demands of it.      *)
(***************************************************************************)
CountersAdmitted(spec, s) ==
    LET folds == s.processed - s.lateDrops - s.gaps
        low   == Max({1, spec.width \div spec.hop})
        high  == Min({spec.windowsPerInput,
                        Max({1, spec.width \div spec.hop
                                + (IF spec.width % spec.hop # 0 THEN 1 ELSE 0)})})
    IN  /\ s.processed <= spec.inputs /\ folds >= 0
        /\ spec.late = "reject" => s.lateDrops = 0
        /\ spec.width >= spec.hop => s.gaps = 0
        /\ folds * low <= s.updates /\ s.updates <= folds * high
        /\ s.created = Cardinality(DOMAIN s.cells) + s.emitted
        /\ s.created <= s.updates
        /\ (s.created = 0) = (s.updates = 0)
        /\ s.updates = SumOver(s.cells, LAMBDA cell : cell.count) + s.finalized
        /\ s.emitted <= s.finalized /\ s.finalized <= s.emitted * folds
        /\ \A id \in DOMAIN s.cells : s.cells[id].count <= folds

CellsAdmitted(spec, s) ==
    /\ Cardinality(DOMAIN s.cells) <= spec.windows
    /\ Cardinality(KeysOf(s.cells)) <= spec.keys
    /\ SumOver(s.cells, CellBytes) <= spec.stateBytes
    /\ \A id \in DOMAIN s.cells :
          /\ GeometryAdmitted(spec, id[1])
          /\ s.cells[id].count \in 1 .. MaxCount
          /\ spec.identity => RowBytes(s.cells[id]) <= spec.rowBytes

\* The size is not part of a checkpoint: it is measured again.
Restored(s) == [s EXCEPT !.bytes = SumOver(s.cells, CellBytes)]
=============================================================================
