-------------------------- MODULE MultiGraphJournal ---------------------------
(***************************************************************************)
(* The journal of a multi-source graph: the operation journal whose        *)
(* runtime is one MultiGraphRuntime and whose commands are the inputs and  *)
(* ends of its sources and drains of its final joins.                      *)
(***************************************************************************)
EXTENDS MultiGraph, OperationJournal

CONSTANT Flow    \* the graph the journal was created for

ASSUME GraphJournalAssumption ==
    /\ Flow \in Graphs
    /\ MaxHistory \in Nat /\ MaxCommands \in Nat /\ MaxBatchOutputs \in Nat
    /\ MaxCommands <= MetadataRows

(***************************************************************************)
(* The commands.                                                           *)
(***************************************************************************)
GraphInput(s, position, key) ==
    [cause |-> "process", source |-> s, position |-> position,
     record |-> Record({<<s, position>>}, key)]

GraphEOF(s, position) == [cause |-> "eof", source |-> s, position |-> position]

GraphDrain(maxKeys) == [cause |-> "drain", max |-> maxKeys]

GraphRequestAdmitted(r) ==
    /\ r.expected \in 0 .. MaxHistory
    /\ Len(r.commands) <= MaxCommands
    /\ \A i \in DOMAIN r.commands :
          LET c == r.commands[i]
          IN  /\ c.cause \in {"process", "eof", "drain"}
              /\ IF c.cause = "drain" THEN c.max >= 1
                                      ELSE c.source \in Sources(Flow) /\ c.position \in Nat

ASSUME GraphRequestAssumption == \A r \in Submitted : GraphRequestAdmitted(r)

GraphRaised(state) == [ok |-> FALSE, state |-> state, outputs |-> <<>>, cause |-> None]

Unchanged(state) == [ok |-> TRUE, state |-> state, outputs |-> <<>>, cause |-> None]

\* What the operation's transaction comes to.
Settled(state, tx, after, cause) ==
    IF Commits(state, tx)
      THEN [ok |-> TRUE, state |-> after, outputs |-> tx.published, cause |-> cause]
      ELSE GraphRaised(state)

PerformInput(state, c, tx) ==
    IF state.positions[c.source] # c.position \/ state.closed[c.source] THEN GraphRaised(state)
    ELSE Settled(state, tx, [Committed(state, tx) EXCEPT !.positions[c.source] = @ + 1], c)

\* Repeating an end, at the same position, changes nothing.
PerformEOF(state, c, tx) ==
    IF state.positions[c.source] # c.position THEN GraphRaised(state)
    ELSE IF state.closed[c.source] THEN Unchanged(state)
    ELSE Settled(state, tx, [Committed(state, tx) EXCEPT !.closed[c.source] = TRUE], c)

\* The cause of a drain names the join that was ready before it.
PerformDrain(state, c, tx) ==
    IF Ready(Flow, state) = <<>> THEN Unchanged(state)
    ELSE Settled(state, tx, Committed(state, tx),
                 [cause |-> "drain", max |-> c.max, join |-> Head(Ready(Flow, state))])

GraphPerform(state, c) ==
    CASE c.cause = "process" ->
            PerformInput(state, c, Process(Flow, state, c.source, c.record))
      [] c.cause = "eof" -> PerformEOF(state, c, Close(Flow, state, c.source))
      [] c.cause = "drain" -> PerformDrain(state, c, Drain(Flow, state, c.max))

(***************************************************************************)
(* MultiGraphRuntime.from_checkpoint.                                      *)
(***************************************************************************)
GraphRestores(state) ==
    /\ \A j \in JoinNodes(Flow) : /\ ShapeAdmitted(Flow.join[j], state.joins[j])
                                  /\ CountersAdmitted(Flow.join[j], state.joins[j])
    /\ TotalsAdmitted(Flow, state)
    /\ HistoryAdmitted(Flow, state)
    /\ FrontierAdmitted(Flow, state)
    /\ Restored(Flow, state) = state

\* The operations that moved the sources of a state.
SourceOperations(state) ==
    MapThenSumSet(LAMBDA s : state.positions[s] + (IF state.closed[s] THEN 1 ELSE 0), Sources(Flow))

\* No source moves backwards, or at all after its end.
GraphAdvances(b, a) ==
    /\ SourceOperations(b) <= b.operations /\ SourceOperations(a) <= a.operations
    /\ \A s \in Sources(Flow) :
          /\ a.positions[s] >= b.positions[s]
          /\ b.closed[s] => a.closed[s] /\ a.positions[s] = b.positions[s]

\* An end has no outputs, and a drain names a join.
GraphCauseAdmitted(cause, start, stop) ==
    /\ cause.cause = "eof" => start = stop
    /\ cause.cause = "drain" => cause.join # None

\* The operations of a receipt, replayed on the source vector it started from.
GraphReproduces(b, causes, a) ==
    LET moved(acc, cause) ==
            IF cause.cause = "drain"
              THEN [acc EXCEPT !.ok = @ /\ cause.join \in JoinNodes(Flow)
                                        /\ Flow.join[cause.join].emit = "final"]
              ELSE [ok |-> /\ acc.ok /\ ~ acc.closed[cause.source]
                           /\ acc.positions[cause.source] = cause.position,
                    positions |-> [acc.positions EXCEPT ![cause.source] =
                                       @ + (IF cause.cause = "process" THEN 1 ELSE 0)],
                    closed |-> [acc.closed EXCEPT ![cause.source] = cause.cause = "eof"]]
        start == [ok |-> TRUE, positions |-> b.positions, closed |-> b.closed]
    IN  FoldLeft(moved, start, causes)
            = [ok |-> TRUE, positions |-> a.positions, closed |-> a.closed]

\* Terminal nodes publish in execution order.
Rank(step) == CHOOSE i \in DOMAIN Flow.order : Flow.order[i] = step

GraphFollows(x, y) == Rank(x.step) <= Rank(y.step)

GraphOutputSize(output) == Cardinality(output.record.value)

NewGraph == EmptyGraph(Flow)
=============================================================================
