-------------------------- MODULE WindowFoldRuntime --------------------------
(***************************************************************************)
(* One WindowFoldRuntime and the history of its calls: what it accepted    *)
(* and what it emitted.  The payload of an input is its number.  A call    *)
(* that raises, in a guard or in one of the user's callbacks, publishes    *)
(* nothing and is not a step; a callback cannot reenter the runtime.       *)
(***************************************************************************)
EXTENDS WindowFold, Subsequence

CONSTANTS
    Timestamps,  \* the timestamps and watermarks callers use
    DrainSizes   \* the max_windows they drain with

VARIABLES
    spec,    \* the configuration
    state,   \* the published state
    inputs,  \* history: the inputs it accepted, late drops and gaps included
    rows     \* history: the rows its drains returned

vars == <<spec, state, inputs, rows>>

Init ==
    /\ spec \in Specs
    /\ state = Empty
    /\ inputs = <<>>
    /\ rows = <<>>

Process(t, k) ==
    LET x == state.processed + 1
        outcome == Outcome(spec, state, t, k, x)
    IN
    /\ outcome # "refused"
    /\ state' = StageProcess(spec, state, t, k, x)
    /\ inputs' = Append(inputs, [time |-> t, key |-> k, outcome |-> outcome])
    /\ UNCHANGED <<spec, rows>>

AdvanceWatermark(t) ==
    /\ AdvanceAdmitted(spec, state, t)
    /\ state' = StageAdvance(state, t)
    /\ UNCHANGED <<spec, inputs, rows>>

Finish ==
    /\ state' = StageFinish(state)
    /\ UNCHANGED <<spec, inputs, rows>>

Drain(maxWindows) ==
    /\ DrainAdmitted(spec, state, maxWindows)
    /\ state' = StageDrain(spec, state, maxWindows)
    /\ rows' = rows \o DrainedRows(spec, state, maxWindows)
    /\ UNCHANGED <<spec, inputs>>

Next ==
    \/ \E t \in Timestamps, k \in Key : Process(t, k)
    \/ \E t \in Timestamps : AdvanceWatermark(t)
    \/ Finish
    \/ \E n \in DrainSizes : Drain(n)

Spec == Init /\ [][Next]_vars

\* The owner of a finished runtime goes on draining; the finalizer, if there
\* is one, returns.
DrainingSpec == Spec /\ WF_vars(\E n \in DrainSizes : Drain(n))

-----------------------------------------------------------------------------

Cell == [count : Nat, value : Seq(Nat)]

\* Every variable has its type.
TypeOK ==
    /\ spec \in Specs
    /\ DOMAIN state.cells \subseteq Int \X Key
    /\ \A id \in DOMAIN state.cells : state.cells[id] \in Cell
    /\ state.watermark \in Tick \cup {NoWatermark} /\ state.finished \in BOOLEAN
    /\ \A counter \in {"processed", "lateDrops", "gaps", "updates", "created",
                       "emitted", "finalized", "bytes"} : state[counter] \in Nat
    /\ inputs \in Seq([time : Tick, key : Key, outcome : {"folded", "late_dropped", "gap"}])
    /\ rows \in Seq([index : Int, key : Key, count : Nat, value : Seq(Nat)])

\* The numbers of the folded inputs of key k inside window i, in arrival order.
Contributions(i, k) ==
    LET within == {n \in DOMAIN inputs : /\ inputs[n].outcome = "folded"
                                          /\ inputs[n].key = k
                                          /\ Start(spec, i) <= inputs[n].time
                                          /\ inputs[n].time < End(spec, i)}
    IN  Filtered([n \in DOMAIN inputs |-> n], within)

Emitted == {<<rows[r].index, rows[r].key>> : r \in DOMAIN rows}

(***************************************************************************)
(* Rows come in strictly increasing (window, key) order over the whole run,*)
(* however small the drains: no window is emitted twice or out of order.   *)
(***************************************************************************)
RowsOrdered ==
    /\ \A r \in 1 .. Len(rows) - 1 :
          Before(<<rows[r].index, rows[r].key>>, <<rows[r + 1].index, rows[r + 1].key>>)
    /\ \A r \in DOMAIN rows, id \in DOMAIN state.cells :
          Before(<<rows[r].index, rows[r].key>>, id)

(***************************************************************************)
(* Windows are exact: a retained cell and an emitted row hold every folded *)
(* input of their key and interval, once, in arrival order, and nothing    *)
(* else; no folded input is missing from a window it lies in; every row is *)
(* emitted once and in order.  In particular no input reaches a window     *)
(* after its row was emitted, whatever the order of inputs, watermarks and *)
(* partial drains.                                                         *)
(***************************************************************************)
WindowsExact ==
    /\ RowsOrdered
    /\ \A id \in DOMAIN state.cells :
          /\ state.cells[id].value = Contributions(id[1], id[2])
          /\ state.cells[id].count = Len(state.cells[id].value)
    /\ \A r \in DOMAIN rows :
          /\ rows[r].value = Contributions(rows[r].index, rows[r].key)
          /\ rows[r].count = Len(rows[r].value)
    /\ \A n \in DOMAIN inputs : inputs[n].outcome = "folded" =>
          \A i \in Members(spec, inputs[n].time) :
              <<i, inputs[n].key>> \in DOMAIN state.cells \cup Emitted

(***************************************************************************)
(* Whatever state the runtime reaches, a checkpoint of it passes its own   *)
(* restore, counters and limits included, and restores the same state; the *)
(* size carried from call to call is the size measured anew.               *)
(***************************************************************************)
CheckpointRestores ==
    /\ TypeOK
    /\ CountersAdmitted(spec, state)
    /\ CellsAdmitted(spec, state)
    /\ Restored(state) = state

(***************************************************************************)
(* A finished runtime whose owner keeps draining ends closed and empty: a  *)
(* cell admitted once can always be emitted, so that no limit refuses a    *)
(* drain and every drain emits a window, until none is pending.            *)
(***************************************************************************)
FinishedCloses ==
    state.finished ~> (Phase(spec, state) = "closed" /\ state.cells = <<>>)
=============================================================================
