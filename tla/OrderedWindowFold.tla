-------------------------- MODULE OrderedWindowFold --------------------------
(***************************************************************************)
(* OrderedWindowFoldRuntime: inputs arrive at consecutive source positions *)
(* in any timestamp order and wait in a bounded buffer; a watermark, or    *)
(* the end of the source, releases them to the fold in (timestamp,         *)
(* position) order.  A release is all or nothing.  The payload of an input *)
(* is its position.                                                        *)
(***************************************************************************)
EXTENDS WindowFold

CONSTANTS
    Timestamps,        \* the timestamps and watermarks callers use
    DrainSizes,        \* the max_windows they drain with
    MaxBufferRecords   \* limits.max_buffer_records

OrderedConstants ==
    /\ WindowConstants
    /\ MaxBufferRecords \in Nat \ {0}
    /\ \A spec \in Specs : spec.late = "reject"

VARIABLES
    spec,          \* the configuration of the fold
    state,         \* the fold's state
    buffer,        \* admitted inputs not yet released, by position
    nextPosition,  \* the length of the admitted source prefix
    arrivals,      \* history: the admitted inputs
    rows           \* history: the rows drains returned

vars == <<spec, state, buffer, nextPosition, arrivals, rows>>

Init ==
    /\ spec \in Specs
    /\ state = Empty
    /\ buffer = <<>>
    /\ nextPosition = 0
    /\ arrivals = <<>>
    /\ rows = <<>>

\* process, at the next source position.
Process(t, k) ==
    /\ t \in Tick
    /\ Phase(spec, state) = "open"
    /\ ~ Late(state, t)
    /\ nextPosition + 1 <= spec.inputs
    /\ Len(buffer) < MaxBufferRecords
    /\ buffer' = Append(buffer, [position |-> nextPosition, time |-> t, key |-> k])
    /\ nextPosition' = nextPosition + 1
    /\ arrivals' = Append(arrivals, [time |-> t, key |-> k])
    /\ UNCHANGED <<spec, state, rows>>

\* Deviation: the buffer is released in arrival order.
ReleasedBeforeByPosition(a, b) == a.position < b.position

ReleasedBefore(a, b) ==
    \/ a.time < b.time
    \/ a.time = b.time /\ a.position < b.position

\* The state after a tuple of inputs, and whether all of them were taken.
Fed(items) ==
    LET Feed(acc, item) ==
            [ok    |-> acc.ok /\ Outcome(spec, acc.state, item.time, item.key, item.position)
                                    # "refused",
             state |-> StageProcess(spec, acc.state, item.time, item.key, item.position)]
    IN  FoldLeft(Feed, [ok |-> TRUE, state |-> state], SortSeq(items, ReleasedBefore))

ToRelease(t) == SelectSeq(buffer, LAMBDA item : item.time < t)

AdvanceWatermark(t) ==
    LET fed == Fed(ToRelease(t)) IN
    /\ AdvanceAdmitted(spec, state, t)
    /\ fed.ok
    /\ state' = StageAdvance(fed.state, t)
    /\ buffer' = SelectSeq(buffer, LAMBDA item : item.time >= t)
    /\ UNCHANGED <<spec, nextPosition, arrivals, rows>>

\* finish is repeatable; buffered inputs need an open fold.
Finish ==
    LET fed == Fed(buffer) IN
    /\ ~ state.finished
    /\ buffer # <<>> => Phase(spec, state) = "open"
    /\ fed.ok
    /\ state' = StageFinish(fed.state)
    /\ buffer' = <<>>
    /\ UNCHANGED <<spec, nextPosition, arrivals, rows>>

Drain(maxWindows) ==
    /\ DrainAdmitted(spec, state, maxWindows)
    /\ state' = StageDrain(spec, state, maxWindows)
    /\ rows' = rows \o DrainedRows(spec, state, maxWindows)
    /\ UNCHANGED <<spec, buffer, nextPosition, arrivals>>

Next ==
    \/ \E t \in Timestamps, k \in Key : Process(t, k)
    \/ \E t \in Timestamps : AdvanceWatermark(t)
    \/ Finish
    \/ \E n \in DrainSizes : Drain(n)

Spec == Init /\ [][Next]_vars

-----------------------------------------------------------------------------

Positions == {buffer[i].position : i \in DOMAIN buffer}

\* The admitted inputs of key k inside window i, in timestamp order.
Contributions(i, k, positions) ==
    LET member(p) == /\ arrivals[p + 1].key = k
                     /\ Start(spec, i) <= arrivals[p + 1].time
                     /\ arrivals[p + 1].time < End(spec, i)
        items == [p \in 1 .. Len(arrivals) |->
                    [position |-> p - 1, time |-> arrivals[p].time]]
        sorted == SortSeq(SelectSeq(items, LAMBDA item : /\ item.position \in positions
                                                         /\ member(item.position)),
                          LAMBDA a, b : \/ a.time < b.time
                                        \/ a.time = b.time /\ a.position < b.position)
    IN  [j \in DOMAIN sorted |-> sorted[j].position]

(***************************************************************************)
(* The rows depend on what arrived, not on when it was released: an emitted*)
(* row is the fold, in (timestamp, position) order, of every admitted input*)
(* of its key and interval, those admitted after the release included; a   *)
(* retained cell is that of the released ones.                             *)
(***************************************************************************)
RowsIgnoreArrivalOrder ==
    LET all == 0 .. nextPosition - 1 IN
    /\ \A r \in DOMAIN rows :
          rows[r].value = Contributions(rows[r].index, rows[r].key, all)
    /\ \A id \in DOMAIN state.cells :
          state.cells[id].value = Contributions(id[1], id[2], all \ Positions)

(***************************************************************************)
(* Only a limit ever refuses the release of buffered inputs: no buffered   *)
(* input is late, and releasing the earlier ones never closes the fold for *)
(* the later ones.                                                         *)
(***************************************************************************)
ReleaseIsNeverLate ==
    Phase(spec, state) = "open" =>
        LET sorted == SortSeq(buffer, ReleasedBefore)
            before(n) == Fed(SubSeq(sorted, 1, n - 1))
        IN  \A n \in DOMAIN sorted :
                before(n).ok =>
                    /\ Phase(spec, before(n).state) = "open"
                    /\ ~ Late(before(n).state, sorted[n].time)

(***************************************************************************)
(* An ordered checkpoint of every reachable state passes its own restore:  *)
(* the fold's, and the relation of buffer, watermark and source prefix; so *)
(* a resumed run is refused only what this one is.                         *)
(***************************************************************************)
OrderedCheckpointRestores ==
    /\ ReleaseIsNeverLate
    /\ CountersAdmitted(spec, state) /\ CellsAdmitted(spec, state)
    /\ Restored(state) = state
    /\ \A i \in DOMAIN buffer :
          /\ buffer[i].position < nextPosition
          /\ i > 1 => buffer[i - 1].position < buffer[i].position
          /\ buffer[i].time >= state.watermark
    /\ state.finished => buffer = <<>>
    /\ state.processed + Len(buffer) = nextPosition
    /\ nextPosition <= spec.inputs

(***************************************************************************)
(* A finished runtime whose owner keeps draining ends closed and empty.    *)
(***************************************************************************)
FinishedCloses ==
    state.finished ~> (Phase(spec, state) = "closed" /\ state.cells = <<>>)
=============================================================================
