----------------------------- MODULE FlowJournal ------------------------------
(***************************************************************************)
(* FlowJournal and GraphJournal: owners that advance a linear flow or a    *)
(* graph over one replayable source, publishing the source position, the   *)
(* keyed state and all outputs of a slice in one transaction.  There are   *)
(* no receipts: after a lost reply an owner has to read the head again.    *)
(* A consumer pages through the outputs, each page within one read         *)
(* transaction, which delays commits unless the database uses WAL.         *)
(*                                                                         *)
(* A linear flow is a graph of steps in a line.  Codecs, checksums and     *)
(* schemas are left out; an open transaction sees one state of the tables. *)
(***************************************************************************)
EXTENDS GraphWalk

CONSTANTS
    Owner,           \* the processes that advance the journal
    Flows,           \* what there is to process, chosen at the start:
                     \* [graph, source, slices, pages, wal, faults]; slices are the
                     \* records in each owner's calls, pages the limits of the
                     \* consumer's, faults bounds crashes and lost replies
    MaxBatchInputs,  \* _MAX_BATCH_INPUTS
    MaxBatchOutputs, \* _MAX_BATCH_OUTPUTS
    MaxRecords       \* _MAX_RECORDS

\* One entry, no joins or windows, and no joint limits on their states; whoever
\* calls keeps the limit on slices.
FlowAdmitted(f) ==
    /\ f.graph.nodes # <<>> => TopologyAdmitted(f.graph) /\ Cardinality(Sources(f.graph)) = 1
    /\ \A n \in Nodes(f.graph) : f.graph.kind[n] \in {"step", "branch", "merge"}
    /\ f.graph.limits.cells >= f.graph.limits.keys
    /\ f.graph.limits.bytes >= f.graph.limits.keys + f.graph.limits.stateBytes
    /\ f.source \in Seq(ToSet(f.source))
    /\ DOMAIN f.slices = Owner
    /\ \A o \in Owner : f.slices[o] \subseteq 0 .. MaxBatchInputs
    /\ f.pages \subseteq Nat \ {0} /\ f.faults \in Nat

VARIABLES
    flow,      \* the flow, its source and its callers
    head,      \* flow_head: generation, position, checkpoint
    rows,      \* flow_output
    place,     \* where each owner's call is
    call,      \* its local state
    known,     \* the last point it has read, from which it seeks its source
    page,      \* the consumer's open page
    consumed,  \* the rows the consumer was given
    failures

flowVars == <<flow, head, rows, place, call, known, page, consumed, failures>>

-----------------------------------------------------------------------------

(***************************************************************************)
(* The runtime: a state, one record, the state after it and its outputs.   *)
(***************************************************************************)
NewRuntime == [cells |-> <<>>, bytes |-> 0, processed |-> 0, emitted |-> 0]

CheckpointOf(runtime) ==
    [cells |-> runtime.cells, processed |-> runtime.processed, emitted |-> runtime.emitted]

CellsBytes(cells) == MapThenSumSet(LAMBDA c : Size(cells[c]), DOMAIN cells)

RestoreAdmitted(g, checkpoint) ==
    /\ \A c \in DOMAIN checkpoint.cells : Operator[c[1]] \in Stateful
    /\ Cardinality(DOMAIN checkpoint.cells) <= g.limits.keys
    /\ CellsBytes(checkpoint.cells) <= g.limits.stateBytes

Restored(checkpoint) ==
    [cells |-> checkpoint.cells, bytes |-> CellsBytes(checkpoint.cells),
     processed |-> checkpoint.processed, emitted |-> checkpoint.emitted]

\* The transaction of one input; a linear flow has work without limit.
Transaction(g, runtime) ==
    [ok |-> TRUE, limits |-> g.limits, calls |-> 0, work |-> 0, reserved |-> 0,
     cells |-> runtime.cells, keys |-> Cardinality(DOMAIN runtime.cells),
     bytes |-> runtime.bytes, heldCells |-> 0, heldBytes |-> 0, values |-> 0,
     counts |-> [e \in Edges(g) |-> 0], pending |-> [e \in Edges(g) |-> 0],
     mail |-> [e \in Edges(g) |-> <<>>], published |-> <<>>]

Processed(g, runtime, record) ==
    LET tx == Walked(g, Charged(Transaction(g, runtime), 1),
                     [n \in Nodes(g) |-> IF n \in Roots(g) THEN <<record>> ELSE <<>>],
                     NoRecords(g))
    IN  [ok      |-> tx.ok,
         outputs |-> tx.published,
         runtime |-> [cells |-> tx.cells, bytes |-> tx.bytes,
                      processed |-> runtime.processed + 1,
                      emitted |-> runtime.emitted + Len(tx.published)]]

-----------------------------------------------------------------------------

NoPoint == [generation |-> -1, position |-> 0]

Point(generation, runtime) ==
    [generation |-> generation, position |-> runtime.processed,
     checkpoint |-> CheckpointOf(runtime)]

\* _validate_point.
PointAdmitted(point) ==
    /\ point.checkpoint.processed = point.position
    /\ point.checkpoint.emitted <= MaxRecords
    /\ point.generation <= point.position
    /\ point.position <= point.generation * MaxBatchInputs
    /\ point.generation = 0 => point.checkpoint.emitted = 0 /\ point.checkpoint.cells = <<>>

\* What _latest verifies of the two tables.
LatestAdmitted ==
    /\ PointAdmitted(head)
    /\ RestoreAdmitted(flow.graph, head.checkpoint)
    /\ Len(rows) = head.checkpoint.emitted
    /\ rows # <<>> => rows[1].sequence = 0 /\ rows[Len(rows)].sequence = Len(rows) - 1

Idle == [before |-> NoPoint]

NoPage == [limit |-> 0]

InitOf(f) ==
    /\ flow = f
    /\ head = Point(0, NewRuntime)
    /\ rows = <<>>
    /\ place = [o \in Owner |-> "idle"]
    /\ call = [o \in Owner |-> Idle]
    /\ known = [o \in Owner |-> NoPoint]
    /\ page = NoPage
    /\ consumed = <<>>
    /\ failures = 0

Init == \E f \in Flows : InitOf(f)

Go(o, label) == place' = [place EXCEPT ![o] = label]

\* The call ends, and its owner knows that point.
Return(o, point) ==
    /\ Go(o, "idle")
    /\ call' = [call EXCEPT ![o] = Idle]
    /\ known' = [known EXCEPT ![o] = point]

Raise(o) == Return(o, known[o])

\* Whoever commits holds the write lock.  Without WAL it waits for the page
\* that is open, and nobody begins to read meanwhile.
Locked == \E o \in Owner : place[o] = "commit"
Readable == flow.wal \/ ~ Locked
Blocked == ~ flow.wal /\ page # NoPage

\* latest()
Latest(o) ==
    /\ flow.slices[o] # {} /\ place[o] = "idle" /\ Readable
    /\ known' = [known EXCEPT ![o] = head]
    /\ UNCHANGED <<flow, head, rows, place, call, page, consumed, failures>>

\* The source seeked to the known position, and at most that many records of it.
Records(o, most) ==
    LET position == known[o].position
        last     == position + most
    IN  SubSeq(flow.source, position + 1, IF last < Len(flow.source) THEN last ELSE Len(flow.source))

\* The rows of one input: its position, and consecutive sequence numbers.
RowsOf(result, position, sequence) ==
    [i \in DOMAIN result.outputs |->
        [sequence |-> sequence + i - 1, position |-> position,
         step |-> result.outputs[i].step, record |-> result.outputs[i].record]]

\* advance begins with a latest().
Read(o) ==
    /\ place[o] = "idle" /\ known[o] # NoPoint /\ Readable
    /\ IF head.generation = known[o].generation
         THEN call' = [call EXCEPT ![o] = [before |-> head]] /\ Go(o, "process") /\ UNCHANGED known
         ELSE Raise(o)
    /\ UNCHANGED <<flow, head, rows, page, consumed, failures>>

\* A detached runtime, restored from the snapshot, processes the slice.
Sliced(checkpoint, records) ==
    LET added(acc, result) ==
            [ok      |-> result.ok /\ Len(acc.rows) + Len(result.outputs) <= MaxBatchOutputs,
             runtime |-> result.runtime,
             rows    |-> acc.rows \o RowsOf(result, acc.runtime.processed,
                                            checkpoint.emitted + Len(acc.rows))]
        step(acc, record) ==
            IF acc.ok THEN added(acc, Processed(flow.graph, acc.runtime, record)) ELSE acc
        upTo[n \in 0 .. Len(records)] ==
            IF n = 0 THEN [ok |-> TRUE, runtime |-> Restored(checkpoint), rows |-> <<>>]
            ELSE step(upTo[n - 1], records[n])
    IN  upTo[Len(records)]

\* The caller's records are pulled and processed; nothing is locked.
Process(o) ==
    /\ place[o] = "process"
    /\ \E most \in flow.slices[o] :
       \E slice \in {Sliced(call[o].before.checkpoint, Records(o, most))} :
         LET before == call[o].before
             after  == Point(before.generation + 1, slice.runtime)
             empty  == slice.runtime.processed = before.position
         IN  IF ~ slice.ok \/ ~ (empty \/ PointAdmitted(after))
               THEN Raise(o)
               ELSE /\ call' = [call EXCEPT ![o] =
                                   [before |-> before, after |-> after, rows |-> slice.rows]]
                    /\ Go(o, IF empty THEN "observe" ELSE "begin")
                    /\ UNCHANGED known
    /\ UNCHANGED <<flow, head, rows, page, consumed, failures>>

\* An empty slice is a no-op, after a second look at the head.
Observe(o) ==
    /\ place[o] = "observe" /\ Readable
    /\ IF head.generation = call[o].before.generation THEN Return(o, head) ELSE Raise(o)
    /\ UNCHANGED <<flow, head, rows, page, consumed, failures>>

\* Deviation: only the position is compared with the snapshot.
BeginAtPosition(o) ==
    /\ place[o] = "begin" /\ ~ Locked
    /\ IF head.position <= call[o].after.position
         THEN Go(o, "commit") /\ UNCHANGED <<call, known>> ELSE Raise(o)
    /\ UNCHANGED <<flow, head, rows, page, consumed, failures>>

\* BEGIN IMMEDIATE, and the comparison of the head with the snapshot.
Begin(o) ==
    /\ place[o] = "begin" /\ ~ Locked
    /\ IF head = call[o].before THEN Go(o, "commit") /\ UNCHANGED <<call, known>> ELSE Raise(o)
    /\ UNCHANGED <<flow, head, rows, page, consumed, failures>>

Published(o) ==
    /\ place[o] = "commit" /\ ~ Blocked
    /\ head' = call[o].after
    /\ rows' = rows \o call[o].rows

Commit(o) ==
    /\ Published(o)
    /\ Return(o, call[o].after)
    /\ UNCHANGED <<flow, page, consumed, failures>>

\* "commit outcome unknown": the commit took effect.
CommitUnacknowledged(o) ==
    /\ failures < flow.faults
    /\ Published(o)
    /\ Raise(o)
    /\ failures' = failures + 1
    /\ UNCHANGED <<flow, page, consumed>>

\* The busy timeout: another owner keeps the write lock.
LockTimesOut(o) ==
    /\ place[o] = "begin" /\ Locked
    /\ Raise(o)
    /\ UNCHANGED <<flow, head, rows, page, consumed, failures>>

\* The consumer keeps its page longer than the timeout, or the owner fails
\* before its commit.
Fail(o) ==
    /\ place[o] # "idle" /\ failures < flow.faults
    /\ Raise(o)
    /\ failures' = failures + 1
    /\ UNCHANGED <<flow, head, rows, page, consumed>>

\* The owner dies; its successor knows nothing.
Crash(o) ==
    /\ known[o] # NoPoint /\ failures < flow.faults
    /\ Return(o, NoPoint)
    /\ failures' = failures + 1
    /\ UNCHANGED <<flow, head, rows, page, consumed>>

-----------------------------------------------------------------------------

\* outputs(start, limit), from the first row the consumer has not been given.
OpenPage ==
    /\ page = NoPage /\ Readable
    /\ \E limit \in flow.pages : page' = [limit |-> limit, head |-> head, rows |-> rows]
    /\ UNCHANGED <<flow, head, rows, place, call, known, consumed, failures>>

Rank(g, step) == CHOOSE i \in DOMAIN g.order : g.order[i] = step

\* What is verified of a row, with the one before it in the page or before the
\* page, when the page begins at a row that is not the first.
RowAdmitted(point, all, i) ==
    LET row == all[i] IN
    /\ row.sequence = i - 1
    /\ row.position < point.position
    /\ Outgoing(flow.graph, row.step) = <<>>
    /\ i > 1 => LET previous == all[i - 1] IN
                /\ previous.position <= row.position
                /\ previous.position = row.position =>
                      Rank(flow.graph, previous.step) <= Rank(flow.graph, row.step)

NextRow ==
    /\ page.limit > 0
    /\ \E row \in {Len(consumed) + 1} :
         /\ row <= Len(page.rows)
         /\ IF RowAdmitted(page.head, page.rows, row)
              THEN /\ consumed' = Append(consumed, page.rows[row])
                   /\ page' = [page EXCEPT !.limit = @ - 1]
              ELSE page' = NoPage /\ UNCHANGED consumed
    /\ UNCHANGED <<flow, head, rows, place, call, known, failures>>

\* The page ends, or is closed early.
ClosePage ==
    /\ page # NoPage
    /\ page' = NoPage
    /\ UNCHANGED <<flow, head, rows, place, call, known, consumed, failures>>

Next ==
    \/ \E o \in Owner :
          \/ Latest(o) \/ Read(o) \/ Process(o) \/ Observe(o) \/ Begin(o) \/ Commit(o)
          \/ CommitUnacknowledged(o) \/ LockTimesOut(o) \/ Fail(o) \/ Crash(o)
    \/ OpenPage \/ NextRow \/ ClosePage

\* Owners go on and look again; the consumer does not close every page before a
\* row that is there.  Process is local and never waits: that no call stays there
\* is weak fairness of it.
Fairness ==
    /\ \A o \in Owner :
          /\ WF_flowVars(Latest(o)) /\ WF_flowVars(Read(o))
          /\ []<>(place[o] # "process")
          /\ WF_flowVars(Observe(o) \/ Begin(o) \/ Commit(o))
    /\ WF_flowVars(OpenPage) /\ SF_flowVars(NextRow) /\ WF_flowVars(NextRow \/ ClosePage)

Spec == Init /\ [][Next]_flowVars /\ Fairness

-----------------------------------------------------------------------------

\* The flow f on the first n of its records, in one go.
Serially(f, n) ==
    LET added(acc, result, p) ==
            [ok |-> acc.ok /\ result.ok, runtime |-> result.runtime,
             rows |-> acc.rows \o RowsOf(result, p - 1, Len(acc.rows))]
        step(acc, p) == added(acc, Processed(f.graph, acc.runtime, f.source[p]), p)
        upTo[p \in 0 .. Len(f.source)] ==
            IF p = 0 THEN [ok |-> TRUE, runtime |-> NewRuntime, rows |-> <<>>]
            ELSE step(upTo[p - 1], p)
    IN  upTo[n]

\* The rows of the p-th record, which follow those of the records before it.
RowsAt(f, p) ==
    RowsOf(Processed(f.graph, Serially(f, p - 1).runtime, f.source[p]),
           p - 1, Len(Serially(f, p - 1).rows))

\* What the journal relies on: checkpoints restore to the state they were taken
\* of, and a record's rows come from nodes without consumers, in their order.
RuntimeKept(f) ==
    /\ \A p \in 0 .. Len(f.source) :
          \E serial \in {Serially(f, p)} : serial.ok =>
             /\ Restored(CheckpointOf(serial.runtime)) = serial.runtime
             /\ RestoreAdmitted(f.graph, CheckpointOf(serial.runtime))
    /\ \A p \in 1 .. Len(f.source) : Serially(f, p).ok =>
          \E emitted \in {RowsAt(f, p)} :
             /\ DOMAIN emitted = 1 .. Len(emitted) /\ Len(emitted) \in Nat
             /\ \A i \in DOMAIN emitted :
                   /\ Outgoing(f.graph, emitted[i].step) = <<>>
                   /\ i > 1 => Rank(f.graph, emitted[i - 1].step) <= Rank(f.graph, emitted[i].step)

Refused == {f \in Flows : ~ Serially(f, Len(f.source)).ok}

(***************************************************************************)
(* However owners cut the source, race, lose replies and die: state and    *)
(* rows are those of the flow applied once to every record of the prefix,  *)
(* in order; every read admits them; the consumer has a prefix of the rows;*)
(* and a point an owner knows is one the journal had.                      *)
(***************************************************************************)
JournalIsExact ==
    /\ LatestAdmitted
    /\ \E serial \in {Serially(flow, head.position)} :
          serial.ok /\ head.checkpoint = CheckpointOf(serial.runtime) /\ rows = serial.rows
    /\ \A i \in DOMAIN rows : RowAdmitted(head, rows, i)
    /\ IsPrefix(consumed, rows)
    /\ \A o \in Owner : known[o] # NoPoint =>
          /\ known[o].generation <= head.generation /\ known[o].position <= head.position
          /\ known[o].generation = head.generation => known[o] = head

(***************************************************************************)
(* A commit is one generation; it moves the source on, by a slice, and only*)
(* adds rows.                                                              *)
(***************************************************************************)
JournalOnlyAdvances ==
    [][/\ head'.generation = head.generation + 1
       /\ head'.position > head.position
       /\ SubSeq(rows', 1, Len(rows)) = rows]_<<head, rows>>

(***************************************************************************)
(* Owners that read the head again after a failure finish any source their *)
(* flow does not refuse, and the consumer is given every row: lost replies,*)
(* conflicts and open pages keep nobody for ever.                          *)
(***************************************************************************)
JournalCompletes == <>(head.position = Len(flow.source) /\ consumed = rows)
=============================================================================
