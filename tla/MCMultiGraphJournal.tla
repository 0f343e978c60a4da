------------------------ MODULE MCMultiGraphJournal --------------------------
(***************************************************************************)
(* A source whose records are both published and joined with those of a    *)
(* second one, in a join drained at the end.                               *)
(***************************************************************************)
EXTENDS MultiGraphJournal, TLC

CONSTANTS RequestId, LastId

MCOperator == [a |-> "map", b |-> "map", t |-> "filter"]
MCCallback(step, value) == IF step = "t" THEN TRUE ELSE value
MCInitial(step) == <<>>
MCUpdate(step, value, old) == [outputs |-> <<>>, state |-> <<>>, retain |-> FALSE]
MCSize(old) == 1
MCWeight == <<1, 1>>

Final ==
    [insert |-> "product", emit |-> "final", keys |-> 9, valuesPerSide |-> 9, values |-> 9,
     keyBytes |-> 9, stateBytes |-> 99, rowsPerKey |-> 4, rowsPerBatch |-> 4,
     rowBytes |-> 9, batchBytes |-> 99]

Line(from, to, s) == [source |-> from, target |-> to, side |-> s, route |-> "only"]

Graph ==
    [nodes |-> <<"a", "b", "t", "j">>, order |-> <<"a", "b", "t", "j">>,
     kind  |-> [a |-> "step", b |-> "step", t |-> "step", j |-> "join"],
     entry |-> [A |-> "a", B |-> "b"],
     edges |-> <<Line("a", "j", 1), Line("b", "j", 2), Line("a", "t", 0)>>,
     join  |-> [j |-> Final],
     limits |-> [calls |-> 9, records |-> 9, work |-> 12, keys |-> 9, stateBytes |-> 99,
                 cells |-> 9, values |-> 9, bytes |-> 99]]

MCFlow ==
    Graph @@ [incoming |-> Incident(Graph, "target"), outgoing |-> Incident(Graph, "source")]

MCGraphs == {MCFlow}

Requests(commands, expected) ==
    [journal : {ThisJournal}, id : RequestId, expected : expected, commands : {commands}]

\* Inputs, ends and drains, alone and together, with and without effect, and
\* two commands of which the second may fail.
MCSubmitted ==
    Requests(<<GraphInput("A", 0, 1)>>, {0})
        \cup Requests(<<GraphInput("A", 0, 1), GraphInput("A", 1, 2), GraphInput("B", 0, 1)>>, {0})
        \cup Requests(<<GraphInput("B", 0, 2), GraphInput("A", 1, 2)>>, {0, 1})
        \cup Requests(<<GraphDrain(1), GraphEOF("A", 2), GraphEOF("A", 2), GraphEOF("B", 1),
                        GraphDrain(1)>>, {1, 2})
        \cup [journal : {ThisJournal}, id : {LastId}, expected : {0, 2}, commands : {<<GraphDrain(1)>>}]
        \cup [journal : {None}, id : RequestId, expected : {0}, commands : {<<>>}]

Symmetry == Permutations(Session) \cup Permutations(RequestId)

\* The states commands lead to, and what the refinement theorem asks of them.
Commands == UNION {{r.commands[i] : i \in DOMAIN r.commands} : r \in Submitted}

Performances(states) == {GraphPerform(state, c) : state \in states, c \in Commands}

Reached[n \in Nat] ==
    IF n = 0 THEN {EmptyGraph(Flow)}
    ELSE LET known == Reached[n - 1]
         IN  known \cup {done.state : done \in {d \in Performances(known) : d.ok}}

\* The stretches of up to n operations from one of those states.
Stretched[n \in Nat] ==
    IF n = 0 THEN {<<state, <<>>, state>> : state \in Reached[12]}
    ELSE LET known   == Stretched[n - 1]
             longest == {t \in known : Len(t[2]) = n - 1}
             led(t)  == {done \in Performances({t[3]}) :
                             done.ok /\ done.state.operations # t[3].operations}
         IN  known \cup UNION {{<<t[1], Append(t[2], done.cause), done.state>> : done \in led(t)} :
                                 t \in longest}

ASSUME RuntimeCounted == RequestsAdmitted /\ RuntimeCounts(Reached[12])

ASSUME RuntimeExplained ==
    BoundsAdmitted /\ RuntimeExplains(Reached[12], Stretched[MaxCommands])
=============================================================================
