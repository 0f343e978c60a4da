---------------------------- MODULE MCMultiGraph -----------------------------
(***************************************************************************)
(* A final join that feeds a final join, with a branch and a merge beside  *)
(* it; the same with joins that emit at once, under wide and tight limits; *)
(* and a join both sides of which come from one source.                    *)
(***************************************************************************)
EXTENDS MultiGraphRuntime

\* The step b repeats every first record of B with the second; c passes the first two.
MCOperator == [a |-> "map", b |-> "stateful_flat_map", c |-> "filter", t |-> "drop_key"]

Position(value) == (CHOOSE origin \in value : TRUE)[2]

MCCallback(step, value) ==
    CASE step = "a" -> value
      [] step = "c" -> Position(value) < 2
      [] step = "split" -> Position(value) % 2 = 0

MCInitial(step) == <<>>

MCUpdate(step, value, old) ==
    IF old = <<>> THEN [outputs |-> <<value>>, state |-> <<value>>, retain |-> TRUE]
                  ELSE [outputs |-> <<old[1], value>>, state |-> <<>>, retain |-> FALSE]

MCSize(old) == 1 + Len(old)

Join(insert, emit) ==
    [insert |-> insert, emit |-> emit, keys |-> 9, valuesPerSide |-> 9, values |-> 99,
     keyBytes |-> 99, stateBytes |-> 99, rowsPerKey |-> 16, rowsPerBatch |-> 16,
     rowBytes |-> 9, batchBytes |-> 99]

Wide ==
    [calls |-> 99, records |-> 99, work |-> 99, keys |-> 9, stateBytes |-> 99,
     cells |-> 99, values |-> 99, bytes |-> 99]

Line(from, to) == [source |-> from, target |-> to, side |-> 0, route |-> "only"]
Into(from, to, s) == [Line(from, to) EXCEPT !.side = s]
When(from, to, way) == [Line(from, to) EXCEPT !.route = way]

Cascade(j, k, limits) ==
    [nodes |-> <<"k", "j", "m", "t", "split", "b", "a">>,
     order |-> <<"split", "b", "a", "j", "k", "m", "t">>,
     kind  |-> [a |-> "step", b |-> "step", split |-> "branch", t |-> "step",
                j |-> "join", k |-> "join", m |-> "merge"],
     entry |-> [A |-> "a", B |-> "b", C |-> "split"],
     edges |-> <<Into("b", "j", 2), Into("a", "j", 1), Into("j", "k", 1), Line("j", "m"),
                 [Into("split", "k", 2) EXCEPT !.route = "true"],
                 When("split", "m", "false"), Line("m", "t")>>,
     join  |-> [j |-> j, k |-> k],
     limits |-> limits]

OneSource ==
    [nodes |-> <<"split", "j", "c", "k">>, order |-> <<"split", "j", "c", "k">>,
     kind  |-> [split |-> "branch", c |-> "step", j |-> "join", k |-> "join"],
     entry |-> [A |-> "split", C |-> "c"],
     edges |-> <<[Into("split", "j", 1) EXCEPT !.route = "false"],
                 [Into("split", "j", 2) EXCEPT !.route = "true"],
                 Into("j", "k", 2), Into("c", "k", 1)>>,
     join  |-> [j |-> Join("last", "final"), k |-> Join("product", "final")],
     limits |-> Wide]

\* A pair of b fits the work of an operation unless it joins two rows each; the
\* retained cells, values and bytes are full after a few inputs.
Tight == [Wide EXCEPT !.work = 16, !.cells = 4, !.values = 3, !.bytes = 9, !.calls = 2]

Wired(graph) ==
    graph @@ [incoming |-> Incident(graph, "target"), outgoing |-> Incident(graph, "source")]

Finals == Wired(Cascade(Join("product", "final"), Join("product", "final"), Wide))
Bounded == Wired(Cascade(Join("product", "running"), Join("last", "final"), Tight))
Eager == Wired(Cascade(Join("product", "complete"), Join("last", "running"), Wide))
Single == Wired(OneSource)

MCUnlimited == {Finals, Eager, Single}

MCGraphs == MCUnlimited \cup {Bounded}

MCMaxInputs == [g0 \in MCGraphs |-> IF g0 = Single THEN 5 ELSE 4]

MCWeight == <<1, 1>>
=============================================================================
