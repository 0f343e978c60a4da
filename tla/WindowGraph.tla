------------------------------ MODULE WindowGraph -----------------------------
(***************************************************************************)
(* Graphs with one window: an input walks the steps before the window and  *)
(* is folded into its cells; a drain takes eligible cells out of it, one   *)
(* row after the other, each on a walk of its own through the steps behind *)
(* it.  Every operation is a staged transaction that replaces the graph's  *)
(* state when all of it succeeded.                                         *)
(*                                                                         *)
(* A graph is that of GraphWalk, with the one entry node and with the      *)
(* configuration of its window.  Extend is bound to Windowed.  The cells   *)
(* of steps and the window share one capacity, in number and in bytes.     *)
(***************************************************************************)
EXTENDS WindowFold, GraphWalk

CONSTANT WindowGraphs   \* the graphs in use

WindowNode(g) == CHOOSE n \in Nodes(g) : g.kind[n] = "window"
Entry(g) == CHOOSE n \in Roots(g) : TRUE

\* The nodes an input reaches without passing the window.
Prefix(g) ==
    FoldLeft(LAMBDA seen, n : IF n \in seen THEN seen \cup (Consumers(g, n) \ {WindowNode(g)})
                              ELSE seen,
             {Entry(g)}, g.order)

\* A row is charged when it leaves the window and once for every edge behind it.
Copies(g) == 1 + Len(Outgoing(g, WindowNode(g)))

\* The rows of one drain for which the budgets of an operation always leave room.
DrainCap(g) ==
    Min({g.spec.rowsPerBatch, g.spec.batchBytes \div g.spec.rowBytes,
         g.limits.records, g.limits.work \div Copies(g)}
            \cup (IF g.spec.identity THEN {} ELSE {g.limits.calls}))

\* The window dominates every terminal output.
WindowGraphAdmitted(g) ==
    /\ TopologyAdmitted(g)
    /\ g.limits.inputs \in Nat \ {0}
    /\ Cardinality(Roots(g)) = 1
    /\ Cardinality({n \in Nodes(g) : g.kind[n] = "window"}) = 1
    /\ \A n \in Nodes(g) : g.kind[n] \in {"step", "branch", "merge", "window"}
    /\ WindowNode(g) # Entry(g)
    /\ \A n \in Prefix(g) : Outgoing(g, n) # <<>>
    /\ g.spec \in Specs
    /\ Copies(g) <= g.limits.work

ASSUME WindowGraphAssumption == \A g \in WindowGraphs : WindowGraphAdmitted(g)

-----------------------------------------------------------------------------

EmptyWindowGraph(g) ==
    [ordinary |-> <<>>, bytes |-> 0, cellBytes |-> 0, window |-> Empty, position |-> 0,
     operations |-> 0, watermarks |-> 0, drains |-> 0, emitted |-> 0,
     counts |-> [e \in Edges(g) |-> 0]]

\* The transaction of an operation on an input at a timestamp, or of a drain.
Begin(g, state, time) ==
    [ok |-> TRUE, limits |-> g.limits, calls |-> 0, work |-> 0, reserved |-> 0,
     cells |-> state.ordinary, keys |-> Cardinality(DOMAIN state.ordinary), bytes |-> state.bytes,
     heldCells |-> Cardinality(DOMAIN state.window.cells), values |-> 0,
     heldBytes |-> state.cellBytes - state.bytes - Cardinality(DOMAIN state.ordinary),
     window |-> state.window, time |-> time, counts |-> state.counts,
     pending |-> [e \in Edges(g) |-> 0], mail |-> [e \in Edges(g) |-> <<>>], published |-> <<>>]

\* A record reaches the window: its initial and fold callbacks count as the
\* operation's, and the aggregate capacity admits its cells.
WindowItem(g, tx, item) ==
    LET ids     == {<<i, item.key>> : i \in Members(g.spec, tx.time)}
        new     == ids \ DOMAIN tx.window.cells
        outcome == IF item.key = NoKey THEN "refused"
                   ELSE Outcome(g.spec, tx.window, tx.time, item.key, item.value)
        after   == StageProcess(g.spec, tx.window, tx.time, item.key, item.value)
        folded  == [Invoked(tx, Cardinality(ids) + Cardinality(new)) EXCEPT
                        !.window = after,
                        !.heldCells = @ + Cardinality(new),
                        !.heldBytes = @ + after.bytes - tx.window.bytes]
    IN  CASE outcome = "refused" -> [tx EXCEPT !.ok = FALSE]
          [] outcome = "folded"  -> Check(folded, WithinState(folded))
          [] outcome \in {"late_dropped", "gap"} -> [tx EXCEPT !.window = after]

\* Nothing leaves the window before it is drained.
Windowed(g, tx, n) ==
    LET arrived == FlattenSeq([i \in DOMAIN Incoming(g, n) |-> tx.mail[Incoming(g, n)[i]]])
    IN  [tx    |-> FoldLeft(LAMBDA t, item : IF t.ok THEN WindowItem(g, t, item) ELSE t, tx, arrived),
         batch |-> <<>>]

(***************************************************************************)
(* The transactions of an input and of a drain, up to their commit.        *)
(***************************************************************************)
Process(g, state, time, record) ==
    Walked(g, Charged(Begin(g, state, time), 1),
           [NoRecords(g) EXCEPT ![Entry(g)] = <<record>>], NoRecords(g))

DrainCount(g, state, maxWindows) ==
    Min({maxWindows, Cardinality(Pending(g.spec, state.window)), DrainCap(g)})

RowRecord(row) == Record(row, row.key)

\* Deviation: the rows walk together.
DrainTogether(g, state, count) ==
    LET window  == state.window
        retired == Restrict(window.cells, Selected(g.spec, window, count))
        rows    == DrainedRows(g.spec, window, count)
        begun   == [Begin(g, state, NoWatermark) EXCEPT
                        !.calls = IF g.spec.identity THEN 0 ELSE count,
                        !.heldCells = @ - Cardinality(DOMAIN retired),
                        !.heldBytes = @ - SumOver(retired, CellBytes)]
        started == Check(begun, DrainAdmitted(g.spec, window, count))
        ended   == Walked(g, started, NoRecords(g),
                          [NoRecords(g) EXCEPT ![WindowNode(g)] =
                               [i \in DOMAIN rows |-> RowRecord(rows[i])]])
    IN  [ended EXCEPT !.window = StageDrain(g.spec, window, count)]

\* The cells are retired, and the rows' immediate work is reserved, before the
\* first row walks.
Drain(g, state, count) ==
    LET window  == state.window
        retired == Restrict(window.cells, Selected(g.spec, window, count))
        begun   == [Begin(g, state, NoWatermark) EXCEPT
                        !.reserved = count * Copies(g),
                        !.heldCells = @ - Cardinality(DOMAIN retired),
                        !.heldBytes = @ - SumOver(retired, CellBytes)]
        started == Check(begun, DrainAdmitted(g.spec, window, count)
                                   /\ begun.reserved <= g.limits.work)
        walk(tx, row) ==
            IF ~ tx.ok THEN tx
            ELSE Walked(g, [Invoked(tx, IF g.spec.identity THEN 0 ELSE 1) EXCEPT
                                !.reserved = @ - Copies(g)],
                        NoRecords(g), [NoRecords(g) EXCEPT ![WindowNode(g)] = <<RowRecord(row)>>])
        ended   == FoldLeft(walk, started, DrainedRows(g.spec, window, count))
    IN  Check([ended EXCEPT !.window = StageDrain(g.spec, window, count)], ended.reserved = 0)

Committed(state, tx) ==
    [state EXCEPT
        !.ordinary = tx.cells, !.bytes = tx.bytes, !.cellBytes = tx.bytes + tx.keys + tx.heldBytes,
        !.window = tx.window, !.counts = tx.counts,
        !.operations = @ + 1, !.emitted = @ + Len(tx.published)]

-----------------------------------------------------------------------------

(***************************************************************************)
(* The four operations of WindowGraphRuntime: what a call makes of a state,*)
(* and what it publishes.                                                  *)
(***************************************************************************)
Raised(state) == [ok |-> FALSE, state |-> state, outputs |-> <<>>]

Unchanged(state) == [ok |-> TRUE, state |-> state, outputs |-> <<>>]

\* The limits on counters; an operation that passes them replaces the state.
Settled(state, ok, after, published) ==
    IF /\ ok /\ after.operations <= MaxCount /\ after.emitted <= MaxCount
       /\ after.watermarks <= MaxCount /\ after.drains <= MaxCount
       /\ \A e \in DOMAIN after.counts : after.counts[e] <= MaxCount
      THEN [ok |-> TRUE, state |-> after, outputs |-> published]
      ELSE Raised(state)

ProcessInput(g, state, position, tx) ==
    IF \/ position # state.position
       \/ Phase(g.spec, state.window) # "open"
       \/ state.position + 1 > g.limits.inputs
      THEN Raised(state)
      ELSE Settled(state, tx.ok, [Committed(state, tx) EXCEPT !.position = @ + 1], tx.published)

\* Repeating the watermark changes nothing.
AdvanceWatermark(g, state, time, position) ==
    IF position # state.position \/ ~ AdvanceAdmitted(g.spec, state.window, time)
      THEN Raised(state)
    ELSE IF time = state.window.watermark THEN Unchanged(state)
    ELSE Settled(state, TRUE,
                 [state EXCEPT !.window = StageAdvance(@, time), !.operations = @ + 1,
                               !.watermarks = @ + 1],
                 <<>>)

\* A source may end while its window is drained; it ends once.
Finish(g, state, position) ==
    IF position # state.position THEN Raised(state)
    ELSE IF state.window.finished THEN Unchanged(state)
    ELSE Settled(state, TRUE,
                 [state EXCEPT !.window = StageFinish(@), !.operations = @ + 1], <<>>)

DrainWindows(g, state, tx) ==
    IF Pending(g.spec, state.window) = {} THEN Unchanged(state)
    ELSE Settled(state, tx.ok, [Committed(state, tx) EXCEPT !.drains = @ + 1], tx.published)

-----------------------------------------------------------------------------

(***************************************************************************)
(* What restoring a checkpoint demands of the state it holds.              *)
(***************************************************************************)
Over(S, Measure(_)) == MapThenSumSet(Measure, S)

Arrived(g, state, n) ==
    (IF n = Entry(g) THEN state.position ELSE 0)
        + Over(ToSet(Incoming(g, n)), LAMBDA e : state.counts[e])

\* The records a node may have made of those that arrived.
Least(g, state, n) ==
    IF g.kind[n] = "window" THEN state.window.emitted
    ELSE IF g.kind[n] = "merge" \/ Operator[n] \in {"map", "key_by", "drop_key"}
           THEN Arrived(g, state, n)
    ELSE 0

Most(g, state, n) ==
    IF g.kind[n] = "window" THEN state.window.emitted
    ELSE Arrived(g, state, n)
            * (IF g.kind[n] = "step" /\ Operator[n] \in {"flat_map", "stateful_flat_map"}
                 THEN g.limits.records ELSE 1)

\* Every edge of a node carried its whole output, that of a branch its route.
FanoutAdmitted(g, state, n) ==
    LET edges == ToSet(Outgoing(g, n))
        sent(route) == {state.counts[e] : e \in {f \in edges : g.edges[f].route = route}}
    IN  IF g.kind[n] = "branch"
          THEN /\ Cardinality(sent("true")) = 1 /\ Cardinality(sent("false")) = 1
               /\ Arrived(g, state, n) = Over({"true", "false"},
                                              LAMBDA r : CHOOSE x \in sent(r) : TRUE)
          ELSE /\ Cardinality(sent("only")) <= 1
               /\ sent("only") \subseteq Least(g, state, n) .. Most(g, state, n)

CountsAdmitted(g, state) ==
    LET w         == state.window
        terminals == {n \in Nodes(g) : Outgoing(g, n) = <<>>}
        drains    == state.drains
    IN  /\ state.operations = state.position + state.watermarks + drains
                                 + (IF w.finished THEN 1 ELSE 0)
        /\ (w.watermark = NoWatermark) = (state.watermarks = 0)
        /\ state.position <= g.limits.inputs
        /\ (drains = 0) = (w.emitted = 0)
        /\ drains <= w.emitted /\ w.emitted <= drains * DrainCap(g)
        /\ state.emitted <= drains * g.limits.work
        /\ \A e \in Edges(g) :
              state.counts[e] <= g.limits.work
                  * (IF g.edges[e].source \in Prefix(g) THEN state.position ELSE drains)
        /\ Arrived(g, state, WindowNode(g)) = w.processed
        /\ \A n \in Nodes(g) : FanoutAdmitted(g, state, n)
        /\ Over(terminals, LAMBDA n : Least(g, state, n)) <= state.emitted
        /\ state.emitted <= Over(terminals, LAMBDA n : Most(g, state, n))
        /\ \A n \in Nodes(g) :
              Cardinality({c \in DOMAIN state.ordinary : c[1] = n}) <= Arrived(g, state, n)

Measured(state) ==
    LET bytes == Over(DOMAIN state.ordinary, LAMBDA c : Size(state.ordinary[c]))
        cells == SumOver(state.window.cells, CellBytes)
    IN  [state EXCEPT !.bytes = bytes, !.window = Restored(@),
                      !.cellBytes = bytes + Cardinality(DOMAIN state.ordinary) + cells]

CheckpointAdmitted(g, state) ==
    LET ordinary == Cardinality(DOMAIN state.ordinary)
    IN  /\ ordinary <= g.limits.keys
        /\ ordinary + Cardinality(DOMAIN state.window.cells) <= g.limits.cells
        /\ Measured(state).bytes <= g.limits.stateBytes
        /\ Measured(state).cellBytes <= g.limits.bytes
        /\ \A c \in DOMAIN state.ordinary : Operator[c[1]] \in Stateful
        /\ CountersAdmitted(g.spec, state.window)
        /\ CellsAdmitted(g.spec, state.window)
        /\ CountsAdmitted(g, state)
=============================================================================
