------------------------ MODULE WindowIntervalIndex --------------------------
(***************************************************************************)
(* The index behind the aligner: which live events overlap window i of a   *)
(* regular grid.  Every event covers one contiguous range of windows, is   *)
(* stored at the dyadic nodes that cover the range, and is found from the  *)
(* nodes on the path from the leaf i to the root.                          *)
(*                                                                         *)
(* An event is [id, stream, time, duration] over integer ticks; the next   *)
(* representable value after a tick is the next tick.  A grid is a record  *)
(* with origin, window, hop and maxWindows.  The expiry heap is a function *)
(* of the live entries; what the nodes hold is a set of <<node, event>>.   *)
(***************************************************************************)
EXTENDS Binding

LOCAL INSTANCE Integers
LOCAL INSTANCE Sequences
LOCAL INSTANCE FiniteSets

EventHorizon(e) == e.time + (IF e.duration = 0 THEN 1 ELSE e.duration)

Overlaps(e, start, end) ==
    IF e.duration = 0 THEN start <= e.time /\ e.time < end
                      ELSE e.time < end /\ start < e.time + e.duration

WindowStart(grid, i) == grid.origin + i * grid.hop

WindowEnd(grid, i) == WindowStart(grid, i) + grid.window

\* The binary search both ends of a range are found with: the least index in
\* 0 .. ceiling + 1 at which Past holds, if Past is monotone.
Boundary(ceiling, Past(_)) ==
    LET Search[low \in 0 .. ceiling + 1, high \in 0 .. ceiling + 1] ==
          IF low = high THEN low
          ELSE LET middle == (low + high) \div 2
               IN  IF Past(middle) THEN Search[low, middle] ELSE Search[middle + 1, high]
    IN  Search[0, ceiling + 1]

FirstOverlapping(grid, e) ==
    Boundary(grid.maxWindows, LAMBDA i : e.time < WindowEnd(grid, i))

LastOverlapping(grid, e) ==
    Boundary(grid.maxWindows, LAMBDA i : EventHorizon(e) <= WindowStart(grid, i)) - 1

\* The dyadic nodes <<level, block>> that exactly cover first .. last.
Decompose(first, last) ==
    LET Cover[low \in Nat, high \in Nat, level \in Nat] ==
          IF low >= high THEN {}
          ELSE (IF low % 2 = 1 THEN {<<level, low>>} ELSE {})
               \cup (IF high % 2 = 1 THEN {<<level, high - 1>>} ELSE {})
               \cup Cover[(low + 1) \div 2, high \div 2, level + 1]
    IN  Cover[first, last + 1, 0]

EmptyIndex == [live |-> <<>>, nodes |-> {}, top |-> 0]

\* The nodes of an entry; windows that are never built have none.
NodesOf(grid, entry) ==
    Decompose(entry.first,
              IF entry.last < grid.maxWindows THEN entry.last ELSE grid.maxWindows - 1)

\* _insert_validated: the event is not live yet.
Insert(grid, index, e) ==
    LET Stored(entry, keys) ==
          LET tops == {index.top} \cup {key[1] : key \in keys}
          IN  [live |-> Append(index.live, entry),
               nodes |-> index.nodes \cup {<<key, e>> : key \in keys},
               top |-> CHOOSE level \in tops : \A other \in tops : other <= level]
    IN  With([event |-> e, first |-> FirstOverlapping(grid, e), last |-> LastOverlapping(grid, e)],
             LAMBDA entry : With(NodesOf(grid, entry), LAMBDA keys : Stored(entry, keys)))

\* _matching: what the nodes from the leaf to the root hold, each node's
\* events with the node.  The order is the caller's to choose.
Matching(index, i) ==
    {node \in index.nodes : node[1] \in {<<level, i \div 2 ^ level>> : level \in 0 .. index.top}}

\* prune: expire what no window from firstOpen on can contain.
Prune(index, firstOpen) ==
    LET Stays(entry) == entry.last >= firstOpen
        live == SelectSeq(index.live, Stays)
        ids  == {live[n].event.id : n \in DOMAIN live}
    IN  [index EXCEPT !.live = live, !.nodes = {node \in @ : node[2].id \in ids}]

\* The greatest horizon among the live events, of which there are some.
IndexHorizon(index) ==
    LET horizons == {EventHorizon(index.live[n].event) : n \in DOMAIN index.live}
    IN  CHOOSE h \in horizons : \A other \in horizons : other <= h

Clear(index) == [index EXCEPT !.live = <<>>, !.nodes = {}]
=============================================================================
