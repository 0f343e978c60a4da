---------------------------- MODULE MCWindowFolds ----------------------------
(***************************************************************************)
(* Small configurations of the two window fold runtimes, one of which is   *)
(* used in a behaviour: WindowFoldRuntime itself, and OrderedWindowFold as *)
(* Ordered.                                                                *)
(***************************************************************************)
EXTENDS WindowFoldRuntime

CONSTANTS OrderedTimestamps, OrderedDrainSizes, MaxBufferRecords

VARIABLES
    ordered,  \* which runtime is used
    \* of Ordered:
    orderedSpec, orderedState, buffer, nextPosition, arrivals, orderedRows

Tumbling ==
    [width |-> 2, hop |-> 2, origin |-> 0, late |-> "reject", identity |-> TRUE,
     windowsPerInput |-> 1, keys |-> 2, windows |-> 3, inputs |-> 4, stateBytes |-> 7,
     rowBytes |-> 4, rowsPerBatch |-> 2, batchBytes |-> 4]

\* Overlapping windows, and a hop that does not divide the width.
Hopping ==
    [width |-> 3, hop |-> 2, origin |-> 1, late |-> "reject", identity |-> TRUE,
     windowsPerInput |-> 2, keys |-> 2, windows |-> 4, inputs |-> 4, stateBytes |-> 9,
     rowBytes |-> 4, rowsPerBatch |-> 3, batchBytes |-> 5]

OrderedSpecs == {Tumbling, Hopping}

\* In arrival order: smaller limits, late drops, and windows with gaps between
\* them.
MCSpecs ==
    {[Tumbling EXCEPT !.inputs = 3, !.rowBytes = 3, !.batchBytes = 3],
     [Hopping EXCEPT !.inputs = 3, !.rowBytes = 3, !.late = "drop"],
     [width |-> 1, hop |-> 2, origin |-> 0, late |-> "drop", identity |-> FALSE,
      windowsPerInput |-> 1, keys |-> 1, windows |-> 2, inputs |-> 3, stateBytes |-> 8,
      rowBytes |-> 2, rowsPerBatch |-> 1, batchBytes |-> 2]}

\* Negative ticks among them.
MCTimestamps == {-1, 0, 1, 3, 4}

Ordered == INSTANCE OrderedWindowFold
    WITH Specs <- OrderedSpecs, Timestamps <- OrderedTimestamps,
         DrainSizes <- OrderedDrainSizes, spec <- orderedSpec, state <- orderedState,
         rows <- orderedRows

\* The configurations of Ordered are admitted, too.
ASSUME OrderedAssumption == Ordered!OrderedConstants

orderedVars == <<orderedSpec, orderedState, buffer, nextPosition, arrivals, orderedRows>>

\* The runtime that is not used stays as it was constructed.
FoldsInit ==
    /\ Init /\ Ordered!Init
    /\ \/ ordered = TRUE /\ spec = CHOOSE s \in Specs : TRUE
       \/ ordered = FALSE /\ orderedSpec = Tumbling

Chosen(OrderedStep, ArrivalStep) ==
    /\ \/ ordered /\ OrderedStep /\ UNCHANGED vars
       \/ ~ ordered /\ ArrivalStep /\ UNCHANGED orderedVars
    /\ UNCHANGED ordered

FoldsNext == Chosen(Ordered!Next, Next)

allVars == <<vars, orderedVars, ordered>>

\* The owner of a finished runtime goes on draining.
FoldsSpec ==
    /\ FoldsInit /\ [][FoldsNext]_allVars
    /\ WF_allVars(Chosen(\E n \in OrderedDrainSizes : Ordered!Drain(n),
                         \E n \in DrainSizes : Drain(n)))

(***************************************************************************)
(* Of the ordered runtime: rows depend on what arrived, in the order of    *)
(* timestamps, whenever it was released; and a checkpoint of every state   *)
(* passes its own restore, where nothing buffered will be refused as late. *)
(***************************************************************************)
OrderedIsExact == Ordered!RowsIgnoreArrivalOrder /\ Ordered!OrderedCheckpointRestores

(***************************************************************************)
(* A finished runtime of either kind whose owner keeps draining ends closed*)
(* and empty, for every limit that once admitted its cells.                *)
(***************************************************************************)
FoldsClose == FinishedCloses /\ Ordered!FinishedCloses
=============================================================================
