------------------------- MODULE MCWindowGraphJournal -------------------------
(***************************************************************************)
(* A branch and a merge before the window, with a step that repeats some   *)
(* records; behind it a step with state and a filter, both terminal.       *)
(***************************************************************************)
EXTENDS WindowGraphJournal

MCOperator == [twice |-> "flat_map", total |-> "stateful_map", large |-> "filter"]

\* Odd positions take the step that repeats; rows of two inputs or more are large.
MCCallback(step, value) ==
    CASE step = "split" -> value % 2 = 0
      [] step = "twice" -> <<value, value>>
      [] step = "large" -> value.count > 1

MCInitial(step) == 0

\* The third row of a key ends its total.
MCUpdate(step, row, old) ==
    [outputs |-> <<old + row.count>>, state |-> old + row.count, retain |-> old + row.count < 4]

MCSize(old) == 1

Spec1 ==
    [width |-> 2, hop |-> 1, origin |-> 0, late |-> "drop", identity |-> FALSE,
     windowsPerInput |-> 2, keys |-> 2, windows |-> 6, inputs |-> 9, stateBytes |-> 30,
     rowBytes |-> 8, rowsPerBatch |-> 2, batchBytes |-> 16]

MCSpecs == {Spec1}

Line(from, to, way) == [source |-> from, target |-> to, route |-> way]

Graph ==
    [nodes |-> <<"total", "w", "m", "twice", "large", "split">>,
     order |-> <<"split", "twice", "m", "w", "total", "large">>,
     kind  |-> [split |-> "branch", twice |-> "step", m |-> "merge", w |-> "window",
                total |-> "step", large |-> "step"],
     entry |-> [S |-> "split"],
     edges |-> <<Line("split", "m", "true"), Line("split", "twice", "false"),
                 Line("twice", "m", "only"), Line("m", "w", "only"),
                 Line("w", "total", "only"), Line("w", "large", "only")>>,
     spec  |-> Spec1,
     limits |-> [calls |-> 12, records |-> 4, work |-> 12, keys |-> 2, stateBytes |-> 9,
                 cells |-> 6, values |-> 1, bytes |-> 30, inputs |-> 4]]

MCFlow ==
    Graph @@ [incoming |-> Incident(Graph, "target"), outgoing |-> Incident(Graph, "source")]

MCWindowGraphs == {MCFlow}

Request(id, expected, commands) ==
    [journal : {ThisJournal}, id : {id}, expected : expected, commands : {commands}]

MCSubmitted ==
    Request("ins", {0}, <<WindowInput(0, 1, 1), WindowInput(1, 1, 2), WindowWatermark(2, 2),
                          WindowDrain(1)>>)
        \cup Request("late", {0}, <<WindowInput(0, 1, 1), WindowWatermark(1, 1),
                                    WindowInput(1, 0, 2), WindowInput(2, 1, 1)>>)
        \cup Request("drain", {0, 2}, <<WindowDrain(1)>>)
        \cup Request("drains", {1, 2, 3}, <<WindowDrain(9), WindowDrain(9)>>)
        \cup Request("more", {1, 2}, <<WindowInput(2, 2, 1), WindowWatermark(2, 3)>>)
        \cup Request("end", {1, 3}, <<WindowFinish(2), WindowFinish(2)>>)
        \cup Request("end", {2, 3}, <<WindowFinish(3), WindowDrain(2)>>)

Symmetry == Permutations(Session)

\* The states commands lead to, and what the refinement theorem asks of them.
Commands == UNION {{r.commands[i] : i \in DOMAIN r.commands} : r \in Submitted}

Performances(states) == {WindowPerform(state, c) : state \in states, c \in Commands}

Reached[n \in Nat] ==
    IF n = 0 THEN {EmptyWindowGraph(Flow)}
    ELSE LET known == Reached[n - 1]
         IN  known \cup {done.state : done \in {d \in Performances(known) : d.ok}}

\* The stretches of up to n operations from one of those states.
Stretched[n \in Nat] ==
    IF n = 0 THEN {<<state, <<>>, state>> : state \in Reached[12]}
    ELSE LET known   == Stretched[n - 1]
             longest == {t \in known : Len(t[2]) = n - 1}
             led(t)  == {done \in Performances({t[3]}) :
                             done.ok /\ done.state.operations # t[3].operations}
         IN  known \cup UNION {{<<t[1], Append(t[2], done.cause), done.state>> : done \in led(t)} :
                                 t \in longest}

ASSUME RuntimeCounted == Journal!RequestsAdmitted /\ Journal!RuntimeCounts(Reached[12])

ASSUME RuntimeExplained ==
    Journal!BoundsAdmitted /\ Journal!RuntimeExplains(Reached[12], Stretched[MaxCommands])
=============================================================================
