------------------------------ MODULE GraphWalk -------------------------------
(***************************************************************************)
(* The DAGs of steps, branches and merges, and the one walk through them   *)
(* that every operation on a graph makes.  Joins and windows extend the    *)
(* walk: what becomes of the records that reach them is a parameter.       *)
(*                                                                         *)
(* A graph is its nodes in declared and in execution order, the kind of    *)
(* each, its edges in declared order (an edge out of a branch names a      *)
(* route) and those of each node, the entry node of each source and its    *)
(* limits.                                                                 *)
(***************************************************************************)
EXTENDS Dataflow

CONSTANT Extend(_, _, _)   \* what a join or a window makes of the records that reach it

Nodes(g) == ToSet(g.nodes)
Sources(g) == DOMAIN g.entry
Roots(g) == {g.entry[s] : s \in Sources(g)}
Edges(g) == DOMAIN g.edges

\* The edges of a graph that end, or start, at each of its nodes, in declared order.
Incident(g, end) ==
    [n \in ToSet(g.nodes) |->
        SelectSeq([e \in DOMAIN g.edges |-> e], LAMBDA e : g.edges[e][end] = n)]

Incoming(g, n) == g.incoming[n]
Outgoing(g, n) == g.outgoing[n]

Producers(g, n) == {g.edges[e].source : e \in ToSet(Incoming(g, n))}
Consumers(g, n) == {g.edges[e].target : e \in ToSet(Outgoing(g, n))}

\* The earliest declared node whose producers have run is next.
TopologicalOrder(g) ==
    LET ready(order, n) == n \notin ToSet(order) /\ Producers(g, n) \subseteq ToSet(order)
        extended(order, i) ==
            LET next == SelectSeq(g.nodes, LAMBDA n : ready(order, n))
            IN  IF next = <<>> THEN order ELSE Append(order, Head(next))
    IN  FoldLeft(extended, <<>>, g.nodes)

TopologyAdmitted(g) ==
    LET reached  == FoldLeft(LAMBDA seen, n : IF n \in seen THEN seen \cup Consumers(g, n) ELSE seen,
                             Roots(g), g.order)
        inputs(n) == Len(Incoming(g, n))
        routes(n) == {g.edges[e].route : e \in ToSet(Outgoing(g, n))}
        kind == g.kind
    IN  /\ LimitsAdmitted(g.limits)
        /\ g.incoming = Incident(g, "target")
        /\ g.outgoing = Incident(g, "source")
        /\ g.order = TopologicalOrder(g)
        /\ ToSet(g.order) = Nodes(g) /\ reached = Nodes(g)
        /\ IsInjective(g.nodes) /\ IsInjective(g.edges)
        /\ \A n \in Nodes(g) :
              /\ kind[n] = "merge" => inputs(n) >= 2
              /\ kind[n] \in {"step", "branch", "window"} =>
                    inputs(n) = (IF n \in Roots(g) THEN 0 ELSE 1)
              /\ IF kind[n] = "branch" THEN routes(n) = {"true", "false"}
                                       ELSE routes(n) \subseteq {"only"}

-----------------------------------------------------------------------------

\* A batch is put on an edge and what was reserved for it is released.
Delivered(g, tx, e, batch) ==
    Charged([tx EXCEPT !.reserved = @ - tx.pending[e], !.pending[e] = 0,
                       !.counts[e] = @ + Len(batch), !.mail[e] = batch],
            Len(batch))

\* What a node makes of the records that reach it.  A join or window that is
\* drained emits the drained rows instead.
NodeRun(g, tx, n, seed, drained) ==
    LET arrived == FlattenSeq([i \in DOMAIN Incoming(g, n) |-> tx.mail[Incoming(g, n)[i]]])
        current == seed \o arrived
        size    == Len(current)
        kind    == g.kind[n]
    IN  CASE drained # <<>>   -> [tx |-> Charged(tx, Len(drained)), batch |-> drained]
          [] kind = "step"    -> Applied(n, tx, current)
          [] kind = "branch"  -> [tx |-> Charged(Invoked(tx, size), size), batch |-> current]
          [] kind = "merge"   -> [tx |-> Charged(tx, size), batch |-> current]
          [] kind \in {"join", "window"} /\ drained = <<>> -> Extend(g, tx, n)

\* The part of a node's batch that edge e carries.
Routed(g, e, batch) ==
    LET edge == g.edges[e]
    IN  SelectSeq(batch, LAMBDA item : edge.route = "only"
                             \/ Callback(edge.source, item.value) = (edge.route = "true"))

\* The batch of a node goes to its edges, or is published if it has none.
Dispatched(g, n, ran) ==
    IF Outgoing(g, n) = <<>>
      THEN [ran.tx EXCEPT !.published =
                @ \o [i \in DOMAIN ran.batch |-> [step |-> n, record |-> ran.batch[i]]]]
      ELSE FoldLeft(LAMBDA t, e : IF t.ok THEN Delivered(g, t, e, Routed(g, e, ran.batch)) ELSE t,
                    ran.tx, Outgoing(g, n))

NodeVisited(g, tx, n, seed, drained) == Dispatched(g, n, NodeRun(g, tx, n, seed, drained))

\* _walk_graph: every node once, in execution order; seeds are the records
\* of the roots and drained the rows of the join being drained.
Walked(g, tx, seeds, drained) ==
    FoldLeft(LAMBDA t, n : IF t.ok THEN NodeVisited(g, t, n, seeds[n], drained[n]) ELSE t,
             tx, g.order)

NoRecords(g) == [n \in Nodes(g) |-> <<>>]
=============================================================================
