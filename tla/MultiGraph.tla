------------------------------ MODULE MultiGraph ------------------------------
(***************************************************************************)
(* Multi-source graphs: sources feed a DAG of steps, branches, merges and  *)
(* keyed joins.  One operation, an input, the end of a source or a drain   *)
(* of a final join, walks the whole graph in a staged transaction and      *)
(* replaces the graph's state when all of it succeeded.                    *)
(*                                                                         *)
(* A graph is that of GraphWalk and the configuration of each join; an     *)
(* edge into a join names a side.  A single-source graph is one without    *)
(* joins.  The value of a record is the set of the source records it was   *)
(* made from.  Extend is bound to Joined.                                  *)
(***************************************************************************)
EXTENDS KeyedJoin, GraphWalk

CONSTANT Graphs   \* the graphs in use

JoinNodes(g) == {n \in Nodes(g) : g.kind[n] = "join"}
SourceOf(g, n) == CHOOSE s \in Sources(g) : g.entry[s] = n

GraphAdmitted(g) ==
    LET inputs(n) == Len(Incoming(g, n))
        sides(n)  == {g.edges[e].side : e \in ToSet(Incoming(g, n))}
    IN  /\ TopologyAdmitted(g)
        /\ IsInjective(g.entry)
        /\ \A r \in Roots(g) : g.kind[r] \in {"step", "branch"}
        /\ \A n \in Nodes(g) : IF n \in JoinNodes(g) THEN inputs(n) = Sides /\ sides(n) = Side
                                                     ELSE sides(n) \subseteq {0}

ASSUME GraphAssumption == Absent = {} /\ \A g \in Graphs : GraphAdmitted(g)

-----------------------------------------------------------------------------

EmptyGraph(g) ==
    [ordinary |-> <<>>, bytes |-> 0, joins |-> [j \in JoinNodes(g) |-> Empty],
     positions |-> [s \in Sources(g) |-> 0], closed |-> [s \in Sources(g) |-> FALSE],
     counts |-> [e \in Edges(g) |-> 0], operations |-> 0, emitted |-> 0,
     heldCells |-> 0, values |-> 0, heldBytes |-> 0]

\* The joins with rows to drain, in execution order.
Ready(g, state) ==
    SelectSeq(g.order, LAMBDA n : n \in JoinNodes(g) /\ state.joins[n].phase = "draining")

Phase(g, state) ==
    IF \E s \in Sources(g) : ~ state.closed[s] THEN "open"
    ELSE IF Ready(g, state) # <<>> THEN "draining" ELSE "closed"

\* The transaction of an operation: a copy of the state, an empty work
\* budget, nothing reserved, in flight or published.
Begin(g, state) ==
    [ok |-> TRUE, limits |-> g.limits, calls |-> 0, work |-> 0, reserved |-> 0,
     cells |-> state.ordinary, keys |-> Cardinality(DOMAIN state.ordinary), bytes |-> state.bytes,
     joins |-> state.joins, counts |-> state.counts,
     heldCells |-> state.heldCells, values |-> state.values, heldBytes |-> state.heldBytes,
     pending |-> [e \in Edges(g) |-> 0], mail |-> [e \in Edges(g) |-> <<>>], published |-> <<>>]

\* A join's next state is admitted: what it retains and, before any row is
\* built, the work of its rows.  What it owes its consumers is reserved.
Admitted(g, tx, j, after, rows) ==
    LET before == tx.joins[j]
        grown  == Cardinality(DOMAIN after.cells) - Cardinality(DOMAIN before.cells)
        owed   == rows * Len(Outgoing(g, j))
        next   == [tx EXCEPT !.joins[j] = after, !.reserved = @ + owed,
                             !.pending = [e \in DOMAIN @ |->
                                IF e \in ToSet(Outgoing(g, j)) THEN @[e] + rows ELSE @[e]],
                             !.heldCells = @ + grown,
                             !.values = @ + after.values - before.values,
                             !.heldBytes = @ + after.bytes - before.bytes + grown]
    IN  Check(next, WithinState(next) /\ tx.work + tx.reserved + rows + owed <= tx.limits.work)

RowRecords(rows) ==
    [i \in DOMAIN rows |-> Record(UNION {rows[i].values[s] : s \in Side}, rows[i].key)]

\* A record arrives on a side of a join.
JoinItem(g, j, s, acc, item) ==
    LET join   == g.join[j]
        before == acc.tx.joins[j]
        rows   == ProcessedRows(join, before, s, item.key, item.value)
        after  == StageProcess(join, before, s, item.key, item.value)
    IN  IF item.key = NoKey \/ ~ ProcessAdmitted(join, before, s, item.key, item.value)
          THEN [acc EXCEPT !.tx.ok = FALSE]
          ELSE [tx    |-> Charged(Admitted(g, acc.tx, j, after, Len(rows)), Len(rows)),
                batch |-> acc.batch \o RowRecords(rows)]

\* The batches of all its edges, in their declared order.
Joined(g, tx, j) ==
    LET arrive(acc, e) ==
            FoldLeft(LAMBDA a, item : IF ~ a.tx.ok THEN a
                                      ELSE JoinItem(g, j, g.edges[e].side, a, item),
                     acc, tx.mail[e])
    IN  FoldLeft(arrive, [tx |-> tx, batch |-> <<>>], Incoming(g, j))

\* Join n sees the end of each of its sides whose producer has ended.
SidesClosed(g, tx, n, ended) ==
    LET shut(t, e) ==
            IF g.edges[e].source \notin ended THEN t
            ELSE Admitted(g, t, n, StageClose(g.join[n], t.joins[n], g.edges[e].side), 0)
    IN  FoldLeft(shut, tx, Incoming(g, n))

\* Deviation: a join that still has rows to drain has ended.
EndsPropagatedEarly(g, tx, closed) ==
    LET visit(acc, n) ==
            LET join  == n \in JoinNodes(g)
                after == IF join THEN SidesClosed(g, acc.tx, n, acc.ended) ELSE acc.tx
                ends  == IF n \in Roots(g) THEN closed[SourceOf(g, n)]
                         ELSE IF join THEN after.joins[n].phase # "open"
                         ELSE Producers(g, n) \subseteq acc.ended
            IN  [tx |-> after, ended |-> IF ends THEN acc.ended \cup {n} ELSE acc.ended]
    IN  FoldLeft(visit, [tx |-> tx, ended |-> {}], g.order).tx

\* Ends propagate after the walk, in execution order: a node has ended when
\* its source or all its producers have, a join when it has closed.
EndsPropagated(g, tx, closed) ==
    LET visit(acc, n) ==
            LET join  == n \in JoinNodes(g)
                after == IF join THEN SidesClosed(g, acc.tx, n, acc.ended) ELSE acc.tx
                ends  == IF n \in Roots(g) THEN closed[SourceOf(g, n)]
                         ELSE IF join THEN after.joins[n].phase = "closed"
                         ELSE Producers(g, n) \subseteq acc.ended
            IN  [tx |-> after, ended |-> IF ends THEN acc.ended \cup {n} ELSE acc.ended]
    IN  FoldLeft(visit, [tx |-> tx, ended |-> {}], g.order).tx

(***************************************************************************)
(* The transactions of the three operations, up to their commit.           *)
(***************************************************************************)
Process(g, state, s, record) ==
    LET seeds == [NoRecords(g) EXCEPT ![g.entry[s]] = <<record>>]
    IN  EndsPropagated(g, Walked(g, Charged(Begin(g, state), 1), seeds, NoRecords(g)), state.closed)

\* Deviation: the end of a source reaches the joins with the next operation.
CloseBehind(g, state, s) == EndsPropagated(g, Begin(g, state), state.closed)

Close(g, state, s) ==
    EndsPropagated(g, Begin(g, state), [state.closed EXCEPT ![s] = TRUE])

\* Deviation: the ends propagate before the drained rows do.
DrainAfterEnds(g, state, maxKeys) ==
    LET j      == Head(Ready(g, state))
        join   == g.join[j]
        before == state.joins[j]
        keys   == InOrder(Selected(join, before, maxKeys))
        rows   == FlattenSeq([i \in DOMAIN keys |-> RowsOf(keys[i], before.cells[keys[i]])])
        begun  == Check(Begin(g, state), DrainAdmitted(join, before, maxKeys))
        staged == Admitted(g, begun, j, StageDrain(join, before, maxKeys), Len(rows))
    IN  Walked(g, EndsPropagated(g, staged, state.closed), NoRecords(g),
               [NoRecords(g) EXCEPT ![j] = RowRecords(rows)])

\* The earliest ready join is drained.
Drain(g, state, maxKeys) ==
    LET j      == Head(Ready(g, state))
        join   == g.join[j]
        before == state.joins[j]
        keys   == InOrder(Selected(join, before, maxKeys))
        rows   == FlattenSeq([i \in DOMAIN keys |-> RowsOf(keys[i], before.cells[keys[i]])])
        begun  == Check(Begin(g, state), DrainAdmitted(join, before, maxKeys))
        staged == Admitted(g, begun, j, StageDrain(join, before, maxKeys), Len(rows))
    IN  EndsPropagated(g, Walked(g, staged, NoRecords(g), [NoRecords(g) EXCEPT ![j] = RowRecords(rows)]),
                       state.closed)

\* What an operation publishes: one new state.
Committed(state, tx) ==
    [state EXCEPT
        !.ordinary = tx.cells, !.bytes = tx.bytes, !.joins = tx.joins, !.counts = tx.counts,
        !.heldCells = tx.heldCells, !.values = tx.values, !.heldBytes = tx.heldBytes,
        !.operations = @ + 1, !.emitted = @ + Len(tx.published)]

Commits(state, tx) ==
    /\ tx.ok
    /\ state.operations < MaxCount /\ state.emitted + Len(tx.published) <= MaxCount
    /\ \A e \in DOMAIN tx.counts : tx.counts[e] <= MaxCount

-----------------------------------------------------------------------------

(***************************************************************************)
(* What from_checkpoint demands of the state a checkpoint holds.           *)
(***************************************************************************)
Restored(g, state) ==
    LET over(Measure(_)) == MapThenSumSet(LAMBDA j : Measure(state.joins[j]), JoinNodes(g))
        heldCells == over(LAMBDA j : Cardinality(DOMAIN j.cells))
    IN  [state EXCEPT
            !.bytes = MapThenSumSet(LAMBDA c : Size(state.ordinary[c]), DOMAIN state.ordinary),
            !.joins = [j \in JoinNodes(g) |-> RestoredJoin(@[j])],
            !.heldCells = heldCells,
            !.values = over(LAMBDA j : SumOver(j.cells, Count)),
            !.heldBytes = over(LAMBDA j : SumOver(j.cells, CellBytes)) + heldCells]

TotalsAdmitted(g, state) ==
    /\ Cardinality(DOMAIN state.ordinary) <= g.limits.keys /\ state.bytes <= g.limits.stateBytes
    /\ Cardinality(DOMAIN state.ordinary) + state.heldCells <= g.limits.cells
    /\ state.values <= g.limits.values
    /\ state.bytes + Cardinality(DOMAIN state.ordinary) + state.heldBytes <= g.limits.bytes

\* The operations that were neither inputs nor ends were drains.
HistoryAdmitted(g, state) ==
    LET inputs    == MapThenSumSet(LAMBDA s : state.positions[s], Sources(g))
        drains    == state.operations - inputs - Cardinality({s \in Sources(g) : state.closed[s]})
        finals    == {j \in JoinNodes(g) : g.join[j].emit = "final"}
        finalRows == MapThenSumSet(LAMBDA j : state.joins[j].emitted, finals)
        delivered == MapThenSumSet(LAMBDA e : state.counts[e], Edges(g))
    IN  /\ drains >= 0 /\ drains <= finalRows
        /\ drains = 0 => finalRows = 0
        /\ delivered + state.emitted <= (inputs + drains) * g.limits.work
        /\ inputs = 0 => /\ state.ordinary = <<>> /\ state.emitted = 0 /\ delivered = 0
                         /\ \A j \in JoinNodes(g) : state.joins[j].cells = <<>>

\* The nodes whose output has ended, read off the state.
Ended(g, state) ==
    FoldLeft(LAMBDA ended, n :
                IF \/ n \in Roots(g) /\ state.closed[SourceOf(g, n)]
                   \/ n \in JoinNodes(g) /\ state.joins[n].phase = "closed"
                   \/ n \notin Roots(g) \cup JoinNodes(g) /\ Producers(g, n) \subseteq ended
                THEN ended \cup {n} ELSE ended,
             {}, g.order)

FrontierAdmitted(g, state) ==
    \A j \in JoinNodes(g) : \A e \in ToSet(Incoming(g, j)) :
        LET edge == g.edges[e] IN
        /\ state.joins[j].closed[edge.side] = (edge.source \in Ended(g, state))
        /\ state.joins[j].counts[edge.side] = state.counts[e]
=============================================================================
