-------------------------- MODULE MultiGraphRuntime ---------------------------
(***************************************************************************)
(* One MultiGraphRuntime and the history of its calls: the records every   *)
(* source delivered and the outputs of the terminal nodes.  The value of a *)
(* record is its source and its position.  A call that raises publishes    *)
(* nothing; callbacks cannot reenter the runtime.                          *)
(***************************************************************************)
EXTENDS MultiGraph

CONSTANTS
    Unlimited,   \* the graphs whose limits are never reached
    RecordKey,   \* the keys of source records
    DrainSizes,  \* the max_keys callers drain with
    MaxInputs    \* bound on the inputs of a behaviour, for every graph

ASSUME RuntimeAssumption == DrainSizes \subseteq Nat \ {0} /\ MaxInputs \in [Graphs -> Nat]

VARIABLES
    g,         \* the graph
    state,     \* its published state
    arrivals,  \* history: the keys of the records of each source
    outputs,   \* history: the published outputs
    last       \* history: how the transaction of the last call ended

vars == <<g, state, arrivals, outputs, last>>

NoCall == [ok |-> TRUE, reserved |-> 0]

Init ==
    /\ g \in Graphs
    /\ state = EmptyGraph(g)
    /\ arrivals = [s \in Sources(g) |-> <<>>]
    /\ outputs = <<>>
    /\ last = NoCall

SourceRecord(s, k) == Record({<<s, state.positions[s]>>}, k)

TotalInputs == MapThenSumSet(LAMBDA s : state.positions[s], Sources(g))

Ends(tx) == last' = [ok |-> Commits(state, tx), reserved |-> tx.reserved]

\* A call that raises.
Raises(tx) == ~ Commits(state, tx) /\ UNCHANGED <<state, arrivals, outputs>>

\* process, at the exact next position of a source.
ProcessInput(s, k) ==
    /\ ~ state.closed[s]
    /\ TotalInputs < MaxInputs[g] /\ TotalInputs < MaxCount
    /\ \E tx \in {Process(g, state, s, SourceRecord(s, k))} :
          /\ \/ Raises(tx)
             \/ /\ Commits(state, tx)
                /\ state' = [Committed(state, tx) EXCEPT !.positions[s] = @ + 1]
                /\ arrivals' = [arrivals EXCEPT ![s] = Append(@, k)]
                /\ outputs' = outputs \o tx.published
          /\ Ends(tx)
    /\ UNCHANGED g

\* close, at the exact next position; repeating it changes nothing.
CloseSource(s) ==
    /\ \/ /\ ~ state.closed[s]
          /\ \E tx \in {Close(g, state, s)} :
                /\ \/ Raises(tx)
                   \/ /\ Commits(state, tx)
                      /\ state' = [Committed(state, tx) EXCEPT !.closed[s] = TRUE]
                /\ Ends(tx)
       \/ state.closed[s] /\ UNCHANGED <<state, last>>
    /\ UNCHANGED <<g, arrivals, outputs>>

\* An effective drain; without a ready join a drain changes nothing.
DrainReady(maxKeys) ==
    /\ Ready(g, state) # <<>>
    /\ \E tx \in {Drain(g, state, maxKeys)} :
          /\ \/ Raises(tx)
             \/ /\ Commits(state, tx)
                /\ state' = Committed(state, tx)
                /\ outputs' = outputs \o tx.published
                /\ UNCHANGED arrivals
          /\ Ends(tx)
    /\ UNCHANGED g

Next ==
    \/ \E s \in Sources(g), k \in RecordKey : ProcessInput(s, k)
    \/ \E s \in Sources(g) : CloseSource(s)
    \/ \E n \in DrainSizes : DrainReady(n)

Spec == Init /\ [][Next]_vars

\* A drain that commits: only drains leave every source where it was.
Drained == /\ state'.operations = state.operations + 1
           /\ UNCHANGED <<state.positions, state.closed>>

\* The caller goes on draining, until a call is refused: the weak fairness of
\* DrainReady without its ENABLED.
DrainingSpec ==
    /\ Spec
    /\ []<>(Ready(g, state) = <<>> \/ ~ last.ok) \/ []<><<Drained>>_vars

-----------------------------------------------------------------------------

\* Every variable has its type.
TypeOK ==
    /\ g \in Graphs
    /\ DOMAIN state.joins = JoinNodes(g)
    /\ DOMAIN state.ordinary \subseteq (DOMAIN Operator) \X Key
    /\ state.positions \in [Sources(g) -> 0 .. MaxInputs[g]]
    /\ state.closed \in [Sources(g) -> BOOLEAN]
    /\ state.counts \in [Edges(g) -> Nat]
    /\ \A total \in {"operations", "emitted", "bytes", "heldCells", "values", "heldBytes"} :
          state[total] \in Nat
    /\ \A s \in Sources(g) : arrivals[s] \in Seq(RecordKey) /\ Len(arrivals[s]) = state.positions[s]
    /\ Len(outputs) = state.emitted
    /\ last \in [ok : BOOLEAN, reserved : Int]

(***************************************************************************)
(* Whatever state the runtime reaches, a checkpoint of it passes its own   *)
(* restore: every join's, the totals shared by all the nodes, the history  *)
(* of operations, and join sides that ended exactly when their producers   *)
(* did, after as many records as those delivered.  It restores the state.  *)
(***************************************************************************)
CheckpointRestores ==
    /\ TypeOK
    /\ \A j \in JoinNodes(g) : /\ ShapeAdmitted(g.join[j], state.joins[j])
                               /\ CountersAdmitted(g.join[j], state.joins[j])
    /\ TotalsAdmitted(g, state)
    /\ HistoryAdmitted(g, state)
    /\ FrontierAdmitted(g, state)
    /\ Restored(g, state) = state

(***************************************************************************)
(* Ends never overtake records: where nothing reaches the limits, an input *)
(* of an open source, its end and the drain of a ready join never fail; in *)
(* particular no record meets a join side that has ended.  And every       *)
(* reservation is settled by the operation that made it: what a join owed  *)
(* its consumers was delivered to them, or nothing is committed.           *)
(***************************************************************************)
OnlyLimitsRefuse ==
    /\ g \in Unlimited => last.ok
    /\ last.ok => last.reserved = 0

(***************************************************************************)
(* The canonical run of the same records: the sources one after the other, *)
(* each to its end, then every ready join in one drain.                    *)
(***************************************************************************)
CanonicalRun ==
    LET after(acc, tx) ==
            [state |-> Committed(acc.state, tx), outputs |-> acc.outputs \o tx.published]
        fed(acc, s) ==
            LET one(a, i) ==
                    after(a, Process(g, a.state, s, Record({<<s, i - 1>>}, arrivals[s][i])))
                all == FoldLeft(one, acc, [i \in DOMAIN arrivals[s] |-> i])
            IN  [all EXCEPT !.state = [Committed(@, Close(g, @, s)) EXCEPT !.closed[s] = TRUE]]
        drained(acc, n) ==
            IF Ready(g, acc.state) = <<>> THEN acc
            ELSE after(acc, Drain(g, acc.state, Cardinality(Key)))
        empty == [state |-> EmptyGraph(g), outputs |-> <<>>]
        open  == FoldLeft(fed, empty, SetToSeq(Sources(g)))
    IN  FoldLeft(drained, open, [i \in 1 .. 2 * Cardinality(JoinNodes(g)) |-> i])

Multiplicity(published) ==
    [output \in ToSet(published) |->
        Cardinality({i \in DOMAIN published : published[i] = output})]

AllFinal == g \in Unlimited /\ \A j \in JoinNodes(g) : g.join[j].emit = "final"

(***************************************************************************)
(* A graph of final joins computes a function of its sources: when it is   *)
(* closed, its outputs are those of the canonical run, however the sources *)
(* were interleaved, when each of them ended, and how it was drained.      *)
(***************************************************************************)
OutputsIgnoreInterleaving ==
    AllFinal /\ Phase(g, state) = "closed" =>
        Multiplicity(outputs) = Multiplicity(CanonicalRun.outputs)

(***************************************************************************)
(* Once all sources have ended a graph whose owner drains it closes, the   *)
(* joins that feed other joins first.                                      *)
(***************************************************************************)
EndsClosed ==
    (g \in Unlimited /\ \A s \in Sources(g) : state.closed[s]) ~> Phase(g, state) = "closed"
=============================================================================
