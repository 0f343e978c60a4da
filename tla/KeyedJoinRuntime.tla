-------------------------- MODULE KeyedJoinRuntime ---------------------------
(***************************************************************************)
(* One JoinRuntime and the history of its calls: the inputs it admitted    *)
(* and what each operation emitted.  The value of an input is its number.  *)
(* A call that raises publishes nothing and is not a step.                 *)
(***************************************************************************)
EXTENDS KeyedJoin, Subsequence

CONSTANTS
    DrainSizes,  \* the max_keys callers drain with
    MaxInputs    \* bound on the inputs of a behaviour

ASSUME RuntimeAssumption == DrainSizes \subseteq Nat \ {0} /\ MaxInputs \in Nat

VARIABLES
    join,       \* the configuration
    state,      \* the published state
    arrivals,   \* history: the admitted inputs
    emissions   \* history: for every emission of a key, its rows and when

vars == <<join, state, arrivals, emissions>>

Init ==
    /\ join \in Joins
    /\ state = Empty
    /\ arrivals = <<>>
    /\ emissions = <<>>

Process(s, k) ==
    LET x    == Len(arrivals) + 1
        rows == ProcessedRows(join, state, s, k, x)
    IN
    /\ x <= MaxInputs
    /\ ProcessAdmitted(join, state, s, k, x)
    /\ state' = StageProcess(join, state, s, k, x)
    /\ arrivals' = Append(arrivals, [side |-> s, key |-> k])
    /\ emissions' = IF rows = <<>> THEN emissions
                    ELSE Append(emissions, [key |-> k, at |-> x, rows |-> rows])
    /\ UNCHANGED join

Close(s) ==
    /\ state' = StageClose(join, state, s)
    /\ UNCHANGED <<join, arrivals, emissions>>

Drain(maxKeys) ==
    LET keys == InOrder(Selected(join, state, maxKeys))
    IN
    /\ DrainAdmitted(join, state, maxKeys)
    /\ state' = StageDrain(join, state, maxKeys)
    /\ emissions' = emissions \o
          [i \in DOMAIN keys |-> [key |-> keys[i], at |-> Len(arrivals),
                                  rows |-> RowsOf(keys[i], state.cells[keys[i]])]]
    /\ UNCHANGED <<join, arrivals>>

Next ==
    \/ \E s \in Side, k \in Key : Process(s, k)
    \/ \E s \in Side : Close(s)
    \/ \E n \in DrainSizes : Drain(n)

Spec == Init /\ [][Next]_vars

\* The owner of a join whose sides have ended goes on draining.
DrainingSpec == Spec /\ WF_vars(\E n \in DrainSizes : Drain(n))

-----------------------------------------------------------------------------

\* Every variable has its type.
TypeOK ==
    /\ join \in Joins
    /\ DOMAIN state.cells \subseteq Key
    /\ \A k \in DOMAIN state.cells : state.cells[k] \in [Side -> Seq(Nat)]
    /\ state.closed \in [Side -> BOOLEAN] /\ state.counts \in [Side -> Nat]
    /\ state.phase \in {"open", "draining", "closed"}
    /\ state.emitted \in Nat /\ state.bytes \in Nat /\ state.values \in Nat
    /\ arrivals \in Seq([side : Side, key : Key])
    /\ \A e \in DOMAIN emissions : emissions[e].key \in Key /\ emissions[e].rows # <<>>

(***************************************************************************)
(* What the join means: the inputs of a key after number i and up to       *)
(* number j, as its sides retain them.                                     *)
(***************************************************************************)
View(k, i, j) ==
    [s \in Side |->
        LET all == Filtered([n \in 1 .. j |-> n],
                            {n \in i + 1 .. j : arrivals[n].side = s /\ arrivals[n].key = k})
        IN  IF all = <<>> \/ join.insert = "product" THEN all
            ELSE IF join.insert = "first" THEN <<Head(all)>> ELSE <<Last(all)>>]

\* The number of the input at which a complete join last emitted key k,
\* before its emission number e; other joins never forget.
LastMatch(k, e) ==
    IF join.emit # "complete" THEN 0
    ELSE Max({0} \cup {emissions[d].at : d \in {c \in 1 .. e - 1 : emissions[c].key = k}})

\* Every combination of one value of each side, or an absent one.
Combinations(k, view) ==
    {[key |-> k, values |-> values] : values \in
        {f \in [Side -> {Absent} \cup 1 .. Len(arrivals)] :
            \A s \in Side : IF view[s] = <<>> THEN f[s] = Absent
                            ELSE \E i \in DOMAIN view[s] : view[s][i] = f[s]}}

Emitted(k) == {e \in DOMAIN emissions : emissions[e].key = k}

(***************************************************************************)
(* Emission is due exactly when the mode says: on every arrival; as soon   *)
(* as a key is on all sides; or once per key, in key order, after all the  *)
(* sides ended, with nothing left when the join is closed.                 *)
(***************************************************************************)
EmittedWhenDue ==
    CASE join.emit = "running" -> [e \in DOMAIN emissions |-> emissions[e].at]
                                    = [n \in DOMAIN arrivals |-> n]
      [] join.emit = "complete" ->
            \A k \in Key : ~ Complete(View(k, LastMatch(k, Len(emissions) + 1), Len(arrivals)))
      [] join.emit = "final" ->
            /\ \A e \in 1 .. Len(emissions) - 1 : emissions[e].key < emissions[e + 1].key
            /\ \A n \in DOMAIN arrivals :
                  Cardinality(Emitted(arrivals[n].key))
                    + (IF arrivals[n].key \in DOMAIN state.cells THEN 1 ELSE 0) = 1

(***************************************************************************)
(* Joins are exact: every emission of a key holds each combination of what *)
(* its sides had received once (since the last match, for a complete join),*)
(* and a retained cell holds what the next emission is owed.  A value is   *)
(* never matched twice by a complete join, none is lost, and the emission  *)
(* comes when it is due.                                                   *)
(***************************************************************************)
JoinExact ==
    /\ EmittedWhenDue
    /\ \A e \in DOMAIN emissions :
          LET rows == emissions[e].rows
              view == View(emissions[e].key, LastMatch(emissions[e].key, e), emissions[e].at)
          IN  /\ {rows[n] : n \in DOMAIN rows} = Combinations(emissions[e].key, view)
              /\ Len(rows) = Cardinality({rows[n] : n \in DOMAIN rows})
    /\ \A k \in DOMAIN state.cells :
          state.cells[k] = View(k, LastMatch(k, Len(emissions) + 1), Len(arrivals))

(***************************************************************************)
(* Whatever state the runtime reaches, a checkpoint of it passes its own   *)
(* restore, counters and limits included, and restores the same state; the *)
(* totals carried from call to call are the totals measured anew.          *)
(***************************************************************************)
CheckpointRestores ==
    /\ TypeOK
    /\ ShapeAdmitted(join, state)
    /\ CountersAdmitted(join, state)
    /\ RestoredJoin(state) = state

(***************************************************************************)
(* A join whose sides have all ended and whose owner drains it ends closed:*)
(* a key admitted once can always be emitted within the limits of a batch, *)
(* so that every drain takes one.                                          *)
(***************************************************************************)
EndsClosed == (\A s \in Side : state.closed[s]) ~> state.phase = "closed"
=============================================================================
