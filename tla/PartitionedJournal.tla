------------------------- MODULE PartitionedJournal -------------------------
(***************************************************************************)
(* The durable local multi-worker Flow: one SQLite journal (a head, the    *)
(* retained commit receipts and the output rows) and several sessions,     *)
(* each with one owner thread, a worker pool and a thread that may cancel  *)
(* it.  Sessions may live in different processes; they share only the      *)
(* database.                                                               *)
(*                                                                         *)
(* apply(request) is a read transaction, the execution of a candidate wave *)
(* outside any transaction, and a short write transaction that compares    *)
(* the head it started from.  In between, other sessions publish, workers  *)
(* die or hang, deadlines pass, cancellations arrive, SQL statements fail  *)
(* and processes crash; a COMMIT may report an error after it took effect. *)
(*                                                                         *)
(* A digest is modelled by the document it is the digest of.               *)
(***************************************************************************)
EXTENDS PartitionedWave, SequencesExt, TLC

CONSTANTS
    Session,      \* session slots: an owner and the sessions it opens in turn
    RequestId,    \* 32-digit request identifiers
    JournalId,    \* journal identifiers
    ThisJournal,  \* the identifier this database was created with
    Submitted,    \* the requests callers may submit
    MaxHistory,   \* _MAX_HISTORY: positions, generations and output rows
    StoreBudget,  \* _STORE_BYTES, in retained receipts and output rows
    None          \* no session, no receipt

VARIABLES
    head,       \* partition_head: the recovery point
    commits,    \* partition_commit: receipts, by generation
    outputs,    \* partition_output: rows, by sequence + 1
    writer,     \* the session whose transaction holds SQLite's RESERVED lock
    pc,         \* where the owner of a session is in apply
    phase,      \* the session's phase
    cancelled,  \* the session's cancel event
    request,    \* the argument of the apply in progress
    before,     \* its snapshot: the head and the retained wire it measured
    plan,       \* the receipt and the rows it will publish
    answer      \* what the last apply of the session told its caller

durable == <<head, commits, outputs>>
vars == <<head, commits, outputs, writer, pc, phase, cancelled, request,
          before, plan, answer>>

Request ==
    [id : RequestId, journal : JournalId, expected : Nat, cause : {"wave"},
     start : Nat, records : Batch]
    \cup
    [id : RequestId, journal : JournalId, expected : Nat, cause : {"eof"},
     start : Nat, records : {<<>>}]

ASSUME JournalAssumption ==
    /\ ThisJournal \in JournalId
    /\ MaxHistory \in Nat
    /\ StoreBudget \in Nat
    /\ None \notin Session
    /\ \A r \in Submitted : r \in Request /\ r.start + Len(r.records) <= MaxHistory

InitialPoint == [generation |-> 0, checkpoint |-> InitialCheckpoint]

NoPlan == [receipt |-> None, rows |-> <<>>]
NoAnswer == [kind |-> "none", receipt |-> None]

(***************************************************************************)
(* Receipts.  Both boundaries of a receipt are whole heads: they stand for *)
(* the progress tuples and for the head digests the receipt stores.        *)
(***************************************************************************)
Receipt(req, b, a) ==
    [status |-> IF a = b THEN "no_op" ELSE "committed",
     request |-> req, before |-> b, after |-> a]

OutputStart(receipt) == receipt.before.checkpoint.emitted
OutputStop(receipt) == receipt.after.checkpoint.emitted

\* The retained receipt of a request identifier, if there is one.
HasReceipt(id) == \E g \in DOMAIN commits : commits[g].request.id = id
ReceiptOf(id) == commits[CHOOSE g \in DOMAIN commits : commits[g].request.id = id]

(***************************************************************************)
(* Admission of a new head: the counters stay within the history bound.    *)
(***************************************************************************)
PointAdmitted(point) ==
    /\ point.generation <= MaxHistory
    /\ point.checkpoint.emitted <= MaxHistory
    /\ point.generation = point.checkpoint.waves
                          + (IF point.checkpoint.closed THEN 1 ELSE 0)

\* The retained wire: one unit for a receipt, one for an output row.
Retained == Len(commits) + Len(outputs)

\* The wire that would result, projected from the snapshot's measure.
FitsStore(snapshot, receipt, rows) ==
    snapshot.retained + Len(rows)
        + (IF receipt.status = "committed" THEN 1 ELSE 0) <= StoreBudget

(***************************************************************************)
(* What _chain verifies of a receipt and its neighbours, and what _latest  *)
(* verifies every time it reads the database.                              *)
(***************************************************************************)
ChainHolds(g) ==
    LET receipt == commits[g]
    IN  /\ receipt.status = "committed"
        /\ receipt.request.expected = g - 1
        /\ receipt.before = IF g = 1 THEN InitialPoint ELSE commits[g - 1].after
        /\ receipt.after = IF g = Len(commits) THEN head ELSE commits[g + 1].before
        /\ receipt.after.generation = g
        /\ receipt.after.checkpoint.next <= head.checkpoint.next
        /\ OutputStop(receipt) <= head.checkpoint.emitted
        /\ receipt.after.checkpoint.next - receipt.before.checkpoint.next <= MaxBatch
        /\ OutputStop(receipt) - OutputStart(receipt) <= MaxOutputs

LatestAdmitted ==
    /\ Len(commits) = head.generation
    /\ Len(outputs) = head.checkpoint.emitted
    /\ PointAdmitted(head)
    /\ CheckpointAdmitted(head.checkpoint)
    /\ Retained <= StoreBudget
    /\ IF head.generation = 0 THEN head = InitialPoint ELSE ChainHolds(head.generation)

Init ==
    /\ head = InitialPoint
    /\ commits = <<>>
    /\ outputs = <<>>
    /\ writer = None
    /\ pc = [s \in Session |-> "idle"]
    /\ phase = [s \in Session |-> "ready"]
    /\ cancelled = [s \in Session |-> FALSE]
    /\ request = [s \in Session |-> None]
    /\ before = [s \in Session |-> None]
    /\ plan = [s \in Session |-> NoPlan]
    /\ answer = [s \in Session |-> NoAnswer]

\* Deviation: the finished call keeps its request.
AnswerKeepingRequest(s, kind, receipt) ==
    /\ answer' = [answer EXCEPT ![s] = [kind |-> kind, receipt |-> receipt]]
    /\ pc' = [pc EXCEPT ![s] = "idle"]
    /\ before' = [before EXCEPT ![s] = None]
    /\ plan' = [plan EXCEPT ![s] = NoPlan]
    /\ writer' = IF writer = s THEN None ELSE writer
    /\ UNCHANGED request

(***************************************************************************)
(* The end of an apply: whatever transaction was open is finished, so the  *)
(* RESERVED lock is free, and the caller has its answer.                   *)
(***************************************************************************)
Answer(s, kind, receipt) ==
    /\ answer' = [answer EXCEPT ![s] = [kind |-> kind, receipt |-> receipt]]
    /\ pc' = [pc EXCEPT ![s] = "idle"]
    /\ request' = [request EXCEPT ![s] = None]
    /\ before' = [before EXCEPT ![s] = None]
    /\ plan' = [plan EXCEPT ![s] = NoPlan]
    /\ writer' = IF writer = s THEN None ELSE writer

\* RecoveryConflict, ValidationError and OutputError leave the session usable.
Return(s, kind, receipt) ==
    Answer(s, kind, receipt) /\ UNCHANGED <<phase, cancelled>>

\* A LocalWorkerError or a control exception settles the worker pool.
Settle(s, kind) ==
    /\ Answer(s, kind, None)
    /\ phase' = [phase EXCEPT ![s] = "failed"]
    /\ UNCHANGED cancelled

\* The calls that hold the session's publication lock.
Publishing(s) == pc[s] \in {"begin", "written", "commit"}

(***************************************************************************)
(* apply, entered by the owner of a ready session.                         *)
(***************************************************************************)
Apply(s, r) ==
    /\ pc[s] = "idle"
    /\ phase[s] = "ready"
    /\ pc' = [pc EXCEPT ![s] = "lookup"]
    /\ request' = [request EXCEPT ![s] = r]
    /\ answer' = [answer EXCEPT ![s] = NoAnswer]
    /\ UNCHANGED <<head, commits, outputs, writer, phase, cancelled, before, plan>>

\* Deviation: the wait for the workers ignores the deadline.
FailIgnoringDeadline(s) ==
    /\ pc[s] \in {"lookup", "execute", "plan", "staged", "begin", "written"}
    /\ Settle(s, "worker")
    /\ UNCHANGED durable

(***************************************************************************)
(* pool.check and pool.check_alive raise when the deadline has passed, the *)
(* session was cancelled or a worker died; candidate execution raises them *)
(* and whatever a worker reports; a control exception may arrive anywhere. *)
(* All of them abandon the transaction, fail the session and settle its    *)
(* pool.  (Time and worker deaths need no variable: a check that passes    *)
(* says nothing about the next one.)                                       *)
(***************************************************************************)
Fail(s) ==
    /\ pc[s] \in {"lookup", "execute", "hung", "plan", "staged", "begin", "written"}
    /\ Settle(s, "worker")
    /\ UNCHANGED durable

\* A statement fails, or BEGIN IMMEDIATE outlasts the busy timeout.
SqlFails(s) ==
    /\ pc[s] \in {"lookup", "begin", "written"}
    /\ Return(s, "output", None)
    /\ UNCHANGED durable

(***************************************************************************)
(* The first pool check and the read transaction, one snapshot.  A         *)
(* retained receipt answers before anything else is compared.              *)
(***************************************************************************)
AnswerExisting(s) ==
    LET r == request[s] IN
    /\ HasReceipt(r.id)
    /\ IF ReceiptOf(r.id).request = r
         THEN Return(s, "receipt", ReceiptOf(r.id))
         ELSE Return(s, "conflict", None)

\* Deviation: a wave is accepted after EOF.
RefusedBySnapshotButNotClosed(r) ==
    IF head.generation # r.expected THEN "conflict"
    ELSE IF r.start # head.checkpoint.next THEN "invalid"
    ELSE "no"

\* What the snapshot refuses: the first that applies is raised.
RefusedBySnapshot(r) ==
    IF head.generation # r.expected THEN "conflict"
    ELSE IF \/ r.start # head.checkpoint.next
            \/ r.cause = "wave" /\ head.checkpoint.closed
         THEN "invalid"
    ELSE "no"

Lookup(s) ==
    LET r == request[s] IN
    /\ pc[s] = "lookup"
    /\ ~ cancelled[s]
    /\ UNCHANGED durable
    /\ \/ /\ r.journal # ThisJournal
          /\ Return(s, "invalid", None)
       \/ /\ r.journal = ThisJournal
          /\ AnswerExisting(s)
       \/ /\ r.journal = ThisJournal
          /\ ~ HasReceipt(r.id)
          /\ RefusedBySnapshot(r) # "no"
          /\ Return(s, RefusedBySnapshot(r), None)
       \/ /\ r.journal = ThisJournal
          /\ ~ HasReceipt(r.id)
          /\ RefusedBySnapshot(r) = "no"
          /\ before' = [before EXCEPT ![s] = [point |-> head, retained |-> Retained]]
          /\ \E next \in (IF r.cause = "eof" THEN {"plan"} ELSE {"execute", "hung"}) :
                pc' = [pc EXCEPT ![s] = next]   \* "hung": a worker never answers
          /\ UNCHANGED <<writer, phase, cancelled, request, plan, answer>>

\* The stored form of a wave's rows.
Tagged(generation, rows) ==
    [i \in 1 .. Len(rows) |-> [generation |-> generation, output |-> rows[i]]]

(***************************************************************************)
(* Staging: the complete receipt, head and rows are built and measured     *)
(* before any SQL write.  A plan that does not fit is a ValidationError.   *)
(***************************************************************************)
NextPoint(b, checkpoint) ==
    [generation |-> IF checkpoint # b.checkpoint THEN b.generation + 1 ELSE b.generation,
     checkpoint |-> checkpoint]

Stage(s, checkpoint, rows) ==
    LET b       == before[s].point
        a       == NextPoint(b, checkpoint)
        receipt == Receipt(request[s], b, a)
    IN  IF PointAdmitted(a) /\ FitsStore(before[s], receipt, rows)
          THEN /\ plan' = [plan EXCEPT ![s] =
                             [receipt |-> receipt, rows |-> Tagged(a.generation, rows)]]
               /\ pc' = [pc EXCEPT ![s] = "staged"]
               /\ UNCHANGED <<writer, phase, cancelled, request, before, answer>>
          ELSE Return(s, "invalid", None)

\* The pool answered for every participating shard and the session is live.
Execute(s) ==
    LET r     == request[s]
        b     == before[s].point
        batch == CandidateBatch(b.checkpoint, r.start, r.records)
    IN  /\ pc[s] = "execute"
        /\ ~ cancelled[s]
        /\ IF BatchAdmitted(b.checkpoint, r.start, r.records, batch)
             THEN Stage(s, batch.checkpoint, batch.outputs)
             ELSE Settle(s, "worker")
        /\ UNCHANGED durable

StageEof(s) ==
    /\ pc[s] = "plan"
    /\ Stage(s, [before[s].point.checkpoint EXCEPT !.closed = TRUE], <<>>)
    /\ UNCHANGED durable

(***************************************************************************)
(* Publication.  The session's publication lock is taken first, then the   *)
(* transaction: BEGIN IMMEDIATE for a new head, BEGIN for a no-op.         *)
(***************************************************************************)
Begin(s) ==
    /\ pc[s] = "staged"
    /\ pc' = [pc EXCEPT ![s] = "begin"]
    /\ UNCHANGED <<head, commits, outputs, writer, phase, cancelled, request,
                   before, plan, answer>>

Changed(s) == plan[s].receipt.status = "committed"

\* Deviation: the head is not compared inside the transaction.
AdmitWithoutCompare(s) ==
    /\ pc[s] = "begin"
    /\ Changed(s) => writer = None
    /\ UNCHANGED durable
    /\ \/ AnswerExisting(s)
       \/ /\ ~ HasReceipt(request[s].id)
          /\ ~ cancelled[s]
          /\ writer' = IF Changed(s) THEN s ELSE writer
          /\ pc' = [pc EXCEPT ![s] = "written"]
          /\ UNCHANGED <<phase, cancelled, request, before, plan, answer>>

\* Deviation: the request is not looked up again inside the transaction.
AdmitWithoutLookup(s) ==
    /\ pc[s] = "begin"
    /\ Changed(s) => writer = None
    /\ UNCHANGED durable
    /\ \/ /\ head # before[s].point
          /\ Return(s, "conflict", None)
       \/ /\ head = before[s].point
          /\ ~ cancelled[s]
          /\ writer' = IF Changed(s) THEN s ELSE writer
          /\ pc' = [pc EXCEPT ![s] = "written"]
          /\ UNCHANGED <<phase, cancelled, request, before, plan, answer>>

\* Deviation: BEGIN instead of BEGIN IMMEDIATE.
AdmitDeferred(s) ==
    /\ pc[s] = "begin"
    /\ UNCHANGED durable
    /\ \/ AnswerExisting(s)
       \/ /\ ~ HasReceipt(request[s].id)
          /\ head # before[s].point
          /\ Return(s, "conflict", None)
       \/ /\ ~ HasReceipt(request[s].id)
          /\ head = before[s].point
          /\ ~ cancelled[s]
          /\ pc' = [pc EXCEPT ![s] = "written"]
          /\ UNCHANGED <<writer, phase, cancelled, request, before, plan, answer>>

Admit(s) ==
    /\ pc[s] = "begin"
    /\ Changed(s) => writer = None
    /\ UNCHANGED durable
    /\ \/ AnswerExisting(s)
       \/ /\ ~ HasReceipt(request[s].id)
          /\ head # before[s].point
          /\ Return(s, "conflict", None)
       \/ /\ ~ HasReceipt(request[s].id)
          /\ head = before[s].point
          /\ ~ cancelled[s]
          /\ writer' = IF Changed(s) THEN s ELSE writer
          /\ pc' = [pc EXCEPT ![s] = "written"]
          /\ UNCHANGED <<phase, cancelled, request, before, plan, answer>>

\* The last reversible boundary: COMMIT follows.
FinalCheck(s) ==
    /\ pc[s] = "written"
    /\ ~ cancelled[s]
    /\ pc' = [pc EXCEPT ![s] = "commit"]
    /\ UNCHANGED <<head, commits, outputs, writer, phase, cancelled, request,
                   before, plan, answer>>

(***************************************************************************)
(* What COMMIT makes durable, and the outcomes of attempting it: the       *)
(* receipt, an OutputError or a control exception, the last two whether or *)
(* not the transaction took effect.                                        *)
(***************************************************************************)
Install(s) ==
    IF Changed(s)
      THEN /\ head' = plan[s].receipt.after
           /\ commits' = Append(commits, plan[s].receipt)
           /\ outputs' = outputs \o plan[s].rows
      ELSE UNCHANGED durable

Commit(s) ==
    /\ pc[s] = "commit"
    /\ \/ Install(s) /\ Return(s, "receipt", plan[s].receipt)
       \/ (Install(s) \/ UNCHANGED durable) /\ Return(s, "output", None)
       \/ (Install(s) \/ UNCHANGED durable) /\ Settle(s, "worker")

\* Deviation: cancel() does not take the publication lock.
CancelUnlocked(s) ==
    /\ phase[s] # "closed"
    /\ cancelled' = [cancelled EXCEPT ![s] = TRUE]
    /\ UNCHANGED <<head, commits, outputs, writer, pc, phase, request, before,
                   plan, answer>>

(***************************************************************************)
(* cancel(), from any thread, waits for the publication lock.  A session   *)
(* is closed by its owner between calls, or its process dies at any point; *)
(* the caller then opens another one, with its own pool and cancel event.  *)
(***************************************************************************)
Cancel(s) ==
    /\ phase[s] # "closed"
    /\ ~ Publishing(s)
    /\ cancelled' = [cancelled EXCEPT ![s] = TRUE]
    /\ UNCHANGED <<head, commits, outputs, writer, pc, phase, request, before,
                   plan, answer>>

Close(s) ==
    /\ pc[s] = "idle"
    /\ phase[s] # "closed"
    /\ phase' = [phase EXCEPT ![s] = "closed"]
    /\ UNCHANGED <<head, commits, outputs, writer, pc, cancelled, request,
                   before, plan, answer>>

Crash(s) ==
    /\ pc[s] # "idle"
    /\ Answer(s, "none", None)
    /\ phase' = [phase EXCEPT ![s] = "closed"]
    /\ UNCHANGED cancelled
    /\ \/ UNCHANGED durable
       \/ pc[s] = "commit" /\ Install(s)

Reopen(s) ==
    /\ phase[s] = "closed"
    /\ phase' = [phase EXCEPT ![s] = "ready"]
    /\ cancelled' = [cancelled EXCEPT ![s] = FALSE]
    /\ answer' = [answer EXCEPT ![s] = NoAnswer]
    /\ UNCHANGED <<head, commits, outputs, writer, pc, request, before, plan>>

\* One step of the owner inside apply.
Step(s) ==
    \/ Fail(s) \/ SqlFails(s)
    \/ Lookup(s) \/ Execute(s) \/ StageEof(s) \/ Begin(s) \/ Admit(s)
    \/ FinalCheck(s) \/ Commit(s)

SessionNext(s) ==
    \/ \E r \in Submitted : Apply(s, r)
    \/ Step(s)
    \/ Cancel(s) \/ Close(s) \/ Crash(s) \/ Reopen(s)

Next == \E s \in Session : SessionNext(s)

Spec == Init /\ [][Next]_vars

(***************************************************************************)
(* The owner keeps running: every wait of apply is bounded (the wave       *)
(* deadline, SQLite's busy timeout), so a step of it is always possible    *)
(* and eventually taken.  Nothing is assumed of callers, cancellations,    *)
(* crashes or workers.                                                     *)
(***************************************************************************)
FairSpec == Spec /\ \A s \in Session : WF_vars(Step(s))

-----------------------------------------------------------------------------

Point == [generation : Nat, checkpoint : Checkpoint]

OutputRow == [generation : Nat, output : Row]

Receipts == [status : {"committed", "no_op"}, request : Request,
             before : Point, after : Point]

Snapshot == [point : Point, retained : Nat]

Plan == [receipt : Receipts, rows : Seq(OutputRow)]

\* Every variable has its type; the argument, the snapshot and the plan of an
\* apply exist while it needs them.
TypeOK ==
    /\ head \in Point
    /\ commits \in Seq(Receipts)
    /\ outputs \in Seq(OutputRow)
    /\ writer \in Session \cup {None}
    /\ pc \in [Session -> {"idle", "lookup", "execute", "hung", "plan", "staged",
                           "begin", "written", "commit"}]
    /\ phase \in [Session -> {"ready", "failed", "closed"}]
    /\ cancelled \in [Session -> BOOLEAN]
    /\ request \in [Session -> Submitted \cup {None}]
    /\ before \in [Session -> Snapshot \cup {None}]
    /\ plan \in [Session -> Plan \cup {NoPlan}]
    /\ answer \in [Session ->
                     [kind : {"none", "receipt", "conflict", "invalid", "output", "worker"},
                      receipt : Receipts \cup {None}]]
    /\ \A s \in Session :
          /\ IF pc[s] = "idle" THEN request[s] = None ELSE request[s] \in Submitted
          /\ pc[s] \in {"execute", "hung", "plan", "staged", "begin", "written", "commit"} =>
                before[s] \in Snapshot
          /\ pc[s] \in {"staged", "begin", "written", "commit"} => plan[s] \in Plan

(***************************************************************************)
(* The journal never rejects itself: whatever interleaving of sessions,    *)
(* crashes and failed commits produced it, the stored head, receipts and   *)
(* outputs pass the whole admission that _latest and _chain perform, for   *)
(* the latest receipt and for every retained one.                          *)
(***************************************************************************)
JournalAdmitted == LatestAdmitted /\ \A g \in DOMAIN commits : ChainHolds(g)

(***************************************************************************)
(* Idempotent publication: however often and by however many sessions a    *)
(* request is retried, at most one generation carries its identifier.      *)
(***************************************************************************)
PublishedOnce ==
    \A g, h \in DOMAIN commits : commits[g].request.id = commits[h].request.id => g = h

(***************************************************************************)
(* The rows a transaction inserts are exactly the next generation and the  *)
(* next output sequences, under a new request identifier: the primary keys *)
(* and the UNIQUE constraint of the tables never fire, although the plan   *)
(* was computed from a snapshot read outside the transaction.              *)
(***************************************************************************)
InsertsAreNew ==
    \A s \in Session :
        (pc[s] \in {"written", "commit"} /\ Changed(s)) =>
            /\ writer = s
            /\ ~ HasReceipt(request[s].id)
            /\ plan[s].receipt.after.generation = Len(commits) + 1
            /\ OutputStart(plan[s].receipt) = Len(outputs)

(***************************************************************************)
(* Every stored row lies in the receipt of its generation: in its output   *)
(* range and in its source range, as read_outputs demands before it hands  *)
(* the row out.                                                            *)
(***************************************************************************)
OutputsLieInReceipts ==
    \A i \in DOMAIN outputs :
        LET row == outputs[i] IN
        /\ row.generation \in DOMAIN commits
        /\ LET receipt == commits[row.generation] IN
           /\ receipt.request.cause = "wave"
           /\ OutputStart(receipt) < i /\ i <= OutputStop(receipt)
           /\ receipt.before.checkpoint.next <= row.output.position
           /\ row.output.position < receipt.after.checkpoint.next
           /\ i = OutputStart(receipt) + 1 => row.output.ordinal = 0

(***************************************************************************)
(* The journal is sound: admitted by its own readers, free of duplicates,  *)
(* and never about to collide.                                             *)
(***************************************************************************)
JournalSound == JournalAdmitted /\ PublishedOnce /\ InsertsAreNew /\ OutputsLieInReceipts

(***************************************************************************)
(* Retained history is never rewritten: generations and output rows are    *)
(* only appended, and once the source is closed nothing is.                *)
(***************************************************************************)
KeepsHistory ==
    /\ IsPrefix(commits, commits')
    /\ IsPrefix(outputs, outputs')
    /\ head.checkpoint.closed => UNCHANGED durable

HistoryIsKept == [][KeepsHistory]_vars

(***************************************************************************)
(* "Cancellation linearizes before final admission or after the COMMIT     *)
(* attempt": no session publishes after its cancel() has returned.         *)
(***************************************************************************)
CancelledIsSilent ==
    \A s \in Session :
        (cancelled[s] /\ pc[s] # "idle" /\ pc'[s] = "idle") => UNCHANGED durable

CancelledNeverPublishes == [][CancelledIsSilent]_vars

\* The owner of s leaves apply in this step with an answer of kind k.
Answered(s, k) == pc[s] # "idle" /\ pc'[s] = "idle" /\ answer'[s].kind = k

(***************************************************************************)
(* A receipt is the truth: a committed one is retained under the caller's  *)
(* own request; a no-op one answers an EOF of a source already closed.     *)
(***************************************************************************)
ReceiptsHold ==
    \A s \in Session : Answered(s, "receipt") =>
        LET receipt == answer'[s].receipt IN
        /\ receipt.request = request[s]
        /\ IF receipt.status = "committed"
             THEN \E g \in DOMAIN commits' : commits'[g] = receipt
             ELSE request[s].cause = "eof" /\ head.checkpoint.closed

ReceiptMeansDurable == [][ReceiptsHold]_vars

(***************************************************************************)
(* A refusal is the truth: a RecoveryConflict or a ValidationError is never*)
(* the answer to a request that is retained, although another session may  *)
(* have published the same request while this one was executing it.        *)
(***************************************************************************)
RefusalsHold ==
    \A s \in Session :
        (Answered(s, "conflict") \/ Answered(s, "invalid")) =>
            \A g \in DOMAIN commits' : commits'[g].request # request[s]

RefusalMeansAbsent == [][RefusalsHold]_vars

\* What an apply answers, a receipt or a refusal, is true of the journal.
AnswersAreTrue == ReceiptMeansDurable /\ RefusalMeansAbsent

(***************************************************************************)
(* Every apply returns, with whatever answer: no hung worker, lock held by *)
(* another session or lost race keeps the owner inside it.                 *)
(***************************************************************************)
ApplyReturns == \A s \in Session : pc[s] # "idle" ~> pc[s] = "idle"

(***************************************************************************)
(* The journal implements the serial Flow: the retained requests are its   *)
(* inputs, the output table its rows.  Sharding, concurrent sessions,      *)
(* retries and crashes are invisible in it.                                *)
(***************************************************************************)
Serial ==
    INSTANCE SerialFlow WITH
        inputs <- FlattenSeq([g \in DOMAIN commits |-> commits[g].request.records]),
        rows   <- [i \in DOMAIN outputs |-> outputs[i].output],
        closed <- head.checkpoint.closed

SerialSpec == Serial!Spec
=============================================================================
