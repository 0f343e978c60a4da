--------------------------- MODULE OperationJournal ---------------------------
(***************************************************************************)
(* A SQLite journal of the commands given to one runtime: a head with the  *)
(* runtime's checkpoint, the receipts of published requests, one row per   *)
(* effective command and one per output.  Several sessions, in any number  *)
(* of processes, apply requests of several commands each, and readers page *)
(* through the outputs.                                                    *)
(*                                                                         *)
(* apply(request) reads the head and looks the request up in one           *)
(* transaction, performs the commands on a detached runtime outside any,   *)
(* and publishes in a second one that looks the request up again and       *)
(* compares the head.  A request whose commands changed nothing is not     *)
(* recorded.  Callbacks raise, statements fail, processes die, and a       *)
(* COMMIT may have taken effect although its caller never hears of it.     *)
(*                                                                         *)
(* The runtime is a parameter; the modules of the two journals instantiate *)
(* it.  A digest is modelled by the document it is the digest of, and a    *)
(* receipt holds both heads instead of their digests and counters.         *)
(***************************************************************************)
EXTENDS Integers, Sequences, FiniteSets, FiniteSetsExt, SequencesExt

CONSTANTS
    Session,          \* the sessions that may be in apply at the same time
    ThisJournal,      \* the identifier this database was created with
    Submitted,        \* the requests callers may submit
    None,
    MaxHistory,       \* _MAX_HISTORY: generations, operations and outputs
    MaxCommands,      \* _MAX_COMMANDS: the commands of a request
    MaxBatchOutputs,  \* _MAX_BATCH_OUTPUTS: the outputs of a request
    MetadataRows,     \* _PAGE_METADATA_ROWS: the operations verified for a page
    CursorStarts,     \* the positions readers capture a cursor at
    PageRows,         \* the page limits readers pass
    PageBytes,        \* the byte budgets readers pass
    InitialState,     \* the checkpoint of a new runtime
    Perform(_, _),    \* what a command makes of a runtime: [ok, state, outputs, cause]
    Restores(_),      \* whether a runtime can be restored from a checkpoint
    Advances(_, _),   \* what a receipt demands of the progress between two checkpoints
    CauseAdmitted(_, _, _),   \* what an operation row demands of its cause and outputs
    Reproduces(_, _, _),  \* the causes recorded between two checkpoints explain them
    Follows(_, _),    \* what a page demands of two outputs of one operation
    OutputSize(_)     \* the bytes of an output

VARIABLES
    head,        \* the recovery point
    commits,     \* receipts, by generation
    operations,  \* effective commands, by sequence
    outputs,     \* outputs, by sequence + 1
    pc,          \* where each session is in apply
    request,     \* the argument of its call
    before,      \* the head its call started from
    plan,        \* what its call will publish
    answer,      \* what the last step told a caller, if it did
    cursor,      \* the cursor the reader holds
    taken        \* the outputs its pages have returned since the capture

durable == <<head, commits, operations, outputs>>
callVars == <<pc, request, before, plan>>
readVars == <<cursor, taken>>
vars == <<durable, callVars, readVars, answer>>

InitialPoint == [generation |-> 0, state |-> InitialState]

NoPlan == [receipt |-> None, operations |-> <<>>, outputs |-> <<>>]
NoAnswer == [kind |-> "none", request |-> None, receipt |-> None]

Receipt(r, b, a) ==
    [status |-> IF a.generation = b.generation THEN "no_op" ELSE "committed",
     request |-> r, before |-> b, after |-> a]

OutputStart(receipt) == receipt.before.state.emitted
OutputStop(receipt) == receipt.after.state.emitted
OperationCount(receipt) == receipt.after.state.operations - receipt.before.state.operations

HasReceipt(id) == \E g \in DOMAIN commits : commits[g].request.id = id
ReceiptOf(id) == commits[CHOOSE g \in DOMAIN commits : commits[g].request.id = id]

(***************************************************************************)
(* What a recovery point, a receipt and an operation demand of themselves. *)
(***************************************************************************)
PointAdmitted(point) ==
    /\ point.generation <= MaxHistory
    /\ point.generation <= point.state.operations
    /\ point.state.operations <= Min({point.generation * MaxCommands, MaxHistory})
    /\ point.state.emitted <= MaxHistory

ReceiptAdmitted(receipt) ==
    /\ Advances(receipt.before.state, receipt.after.state)
    /\ OutputStop(receipt) - OutputStart(receipt) \in 0 .. MaxBatchOutputs
    /\ IF receipt.status = "no_op"
         THEN receipt.before = receipt.after
         ELSE /\ receipt.after.generation = receipt.before.generation + 1
              /\ OperationCount(receipt) \in 1 .. Len(receipt.request.commands)

OperationAdmitted(op) ==
    /\ op.stop - op.start \in 0 .. MaxBatchOutputs
    /\ CauseAdmitted(op.cause, op.start, op.stop)

(***************************************************************************)
(* What the readers verify of a receipt and its neighbours, of the head    *)
(* whenever they read it, and of the operations of a receipt.              *)
(***************************************************************************)
ChainHolds(g) ==
    LET receipt == commits[g]
    IN  /\ receipt.status = "committed" /\ receipt.after.generation = g
        /\ ReceiptAdmitted(receipt)
        /\ receipt.after.state.operations <= head.state.operations
        /\ OutputStop(receipt) <= head.state.emitted
        /\ receipt.before = IF g = 1 THEN InitialPoint ELSE commits[g - 1].after

LatestAdmitted ==
    /\ PointAdmitted(head)
    /\ Restores(head.state)
    /\ Len(commits) = head.generation
    /\ Len(operations) = head.state.operations
    /\ Len(outputs) = head.state.emitted
    /\ IF head.generation = 0 THEN head = InitialPoint
       ELSE ChainHolds(head.generation) /\ commits[head.generation].after = head

OperationsOf(receipt) ==
    SubSeq(operations, receipt.before.state.operations + 1, receipt.after.state.operations)

CommitVerified(g) ==
    LET receipt == commits[g]
        ops     == OperationsOf(receipt)
        causes  == [i \in DOMAIN ops |-> ops[i].cause]
        stop(i) == IF i = 0 THEN OutputStart(receipt) ELSE ops[i].stop
    IN  /\ ChainHolds(g)
        /\ \A n \in DOMAIN operations :
              operations[n].generation = g =>
                  n - receipt.before.state.operations \in DOMAIN ops
        /\ \A i \in DOMAIN ops :
              /\ ops[i].generation = g
              /\ ops[i].index <= Len(receipt.request.commands)
              /\ i > 1 => ops[i - 1].index < ops[i].index
              /\ ops[i].start = stop(i - 1)
              /\ OperationAdmitted(ops[i])
        /\ stop(Len(ops)) = OutputStop(receipt)
        /\ Reproduces(receipt.before.state, causes, receipt.after.state)

Init ==
    /\ head = InitialPoint
    /\ commits = <<>>
    /\ operations = <<>>
    /\ outputs = <<>>
    /\ pc = [s \in Session |-> "idle"]
    /\ request = [s \in Session |-> None]
    /\ before = [s \in Session |-> None]
    /\ plan = [s \in Session |-> NoPlan]
    /\ answer = NoAnswer
    /\ cursor = None
    /\ taken = <<>>

-----------------------------------------------------------------------------

\* The call returns or raises.
Return(s, r, kind, receipt) ==
    /\ answer' = [kind |-> kind, request |-> r, receipt |-> receipt]
    /\ pc' = [pc EXCEPT ![s] = "idle"]
    /\ request' = [request EXCEPT ![s] = None]
    /\ before' = [before EXCEPT ![s] = None]
    /\ plan' = [plan EXCEPT ![s] = NoPlan]

\* A retained receipt answers, if it is one of the same request.
AnswerExisting(s, r) ==
    /\ HasReceipt(r.id)
    /\ IF ReceiptOf(r.id).request = r
         THEN Return(s, r, "receipt", ReceiptOf(r.id))
         ELSE Return(s, r, "conflict", None)

\* The call and its read transaction.
Apply(s, r) ==
    /\ pc[s] = "idle"
    /\ \/ /\ r.journal # ThisJournal
          /\ Return(s, r, "refused", None)
       \/ /\ r.journal = ThisJournal
          /\ AnswerExisting(s, r)
       \/ /\ r.journal = ThisJournal /\ ~ HasReceipt(r.id)
          /\ head.generation # r.expected
          /\ Return(s, r, "conflict", None)
       \/ /\ r.journal = ThisJournal /\ ~ HasReceipt(r.id)
          /\ head.generation = r.expected
          /\ request' = [request EXCEPT ![s] = r]
          /\ before' = [before EXCEPT ![s] = head]
          /\ pc' = [pc EXCEPT ![s] = "run"]
          /\ answer' = NoAnswer /\ UNCHANGED plan
    /\ UNCHANGED <<durable, readVars>>

\* A runtime restored from the head, and what is left once a command raised.
NewRun(b) == [ok |-> TRUE, state |-> b.state, operations |-> <<>>, outputs |-> <<>>]
Raised(b) == [ok |-> FALSE, state |-> b.state, operations |-> <<>>, outputs |-> <<>>]

(***************************************************************************)
(* The commands, one after the other, on a runtime restored from the head. *)
(* A command that leaves the operation sequence where it was is not        *)
(* recorded; any other is one operation of the next generation, with the   *)
(* outputs it published.                                                   *)
(***************************************************************************)
Recorded(b, acc, i, done) ==
    LET start == b.state.emitted + Len(acc.outputs)
        stop  == start + Len(done.outputs)
        row   == [generation |-> b.generation + 1, index |-> i, cause |-> done.cause,
                  start |-> start, stop |-> stop]
        sequence == done.state.operations
    IN  IF ~ done.ok THEN Raised(b)
        ELSE IF sequence = acc.state.operations THEN acc
        ELSE [ok |-> /\ sequence = acc.state.operations + 1
                     /\ sequence <= MaxHistory /\ stop <= MaxHistory
                     /\ stop - b.state.emitted <= MaxBatchOutputs,
              state |-> done.state,
              operations |-> Append(acc.operations, row),
              outputs |-> acc.outputs \o [n \in DOMAIN done.outputs |->
                              [operation |-> sequence, output |-> done.outputs[n]]]]

\* Deviation: the commands before one that raises are published.
PerformedInPart(b, commands) ==
    FoldLeftDomain(LAMBDA acc, i :
                       LET next == Recorded(b, acc, i, Perform(acc.state, commands[i]))
                       IN  IF next.ok THEN next ELSE acc,
                   NewRun(b), commands)

\* The next command, unless one before it raised.
Extended(b, acc, i, command) ==
    IF acc.ok THEN Recorded(b, acc, i, Perform(acc.state, command)) ELSE acc

Performed(b, commands) ==
    LET run[i \in 0 .. Len(commands)] ==
            IF i = 0 THEN NewRun(b) ELSE Extended(b, run[i - 1], i, commands[i])
    IN  run[Len(commands)]

\* The receipt, the next head and the rows, all built before any SQL write.
Staged(s, b, r, run) ==
    LET changed == IF run.operations = <<>> THEN 0 ELSE 1
        after   == [generation |-> b.generation + changed, state |-> run.state]
    IN  IF run.ok /\ PointAdmitted(after)
          THEN /\ plan' = [plan EXCEPT ![s] = [receipt |-> Receipt(r, b, after),
                                               operations |-> run.operations,
                                               outputs |-> run.outputs]]
               /\ pc' = [pc EXCEPT ![s] = IF changed = 0 THEN "observe" ELSE "publish"]
               /\ answer' = NoAnswer
               /\ UNCHANGED <<request, before>>
          ELSE Return(s, r, "refused", None)

Run(s) ==
    /\ pc[s] = "run"
    /\ Staged(s, before[s], request[s], Performed(before[s], request[s].commands))
    /\ UNCHANGED <<durable, readVars>>

\* A request without effect is answered if the head is still the one it had
\* no effect on.
Observe(s) ==
    /\ pc[s] = "observe"
    /\ IF head = before[s] THEN Return(s, request[s], "receipt", plan[s].receipt)
                           ELSE Return(s, request[s], "conflict", None)
    /\ UNCHANGED <<durable, readVars>>

Install(s) ==
    /\ head' = plan[s].receipt.after
    /\ commits' = Append(commits, plan[s].receipt)
    /\ operations' = operations \o plan[s].operations
    /\ outputs' = outputs \o plan[s].outputs

\* Deviation: the head is not compared inside the transaction.
PublishWithoutCompare(s) ==
    /\ pc[s] = "publish"
    /\ UNCHANGED readVars
    /\ \/ AnswerExisting(s, request[s]) /\ UNCHANGED durable
       \/ /\ ~ HasReceipt(request[s].id)
          /\ \/ Install(s) /\ Return(s, request[s], "receipt", plan[s].receipt)
             \/ (Install(s) \/ UNCHANGED durable) /\ Return(s, request[s], "unknown", None)

\* Deviation: the request is not looked up again inside the transaction.
PublishWithoutLookup(s) ==
    /\ pc[s] = "publish"
    /\ UNCHANGED readVars
    /\ \/ head # before[s] /\ Return(s, request[s], "conflict", None) /\ UNCHANGED durable
       \/ /\ head = before[s]
          /\ \/ Install(s) /\ Return(s, request[s], "receipt", plan[s].receipt)
             \/ (Install(s) \/ UNCHANGED durable) /\ Return(s, request[s], "unknown", None)

(***************************************************************************)
(* The write transaction, BEGIN IMMEDIATE to COMMIT: no other session      *)
(* writes meanwhile.  It may fail, or take effect without an answer.       *)
(***************************************************************************)
Publish(s) ==
    /\ pc[s] = "publish"
    /\ UNCHANGED readVars
    /\ \/ AnswerExisting(s, request[s]) /\ UNCHANGED durable
       \/ /\ ~ HasReceipt(request[s].id) /\ head # before[s]
          /\ Return(s, request[s], "conflict", None) /\ UNCHANGED durable
       \/ /\ ~ HasReceipt(request[s].id) /\ head = before[s]
          /\ \/ Install(s) /\ Return(s, request[s], "receipt", plan[s].receipt)
             \/ (Install(s) \/ UNCHANGED durable) /\ Return(s, request[s], "unknown", None)

\* A callback raises, a statement or the wait for a lock fails, or the process
\* dies, before anything was written.
Fail(s) ==
    /\ pc[s] # "idle"
    /\ Return(s, request[s], "unknown", None)
    /\ UNCHANGED <<durable, readVars>>

-----------------------------------------------------------------------------

\* The anchor of a prefix: its receipt, or the initial head.
AnchorOf(generation) ==
    IF generation = 0 THEN InitialPoint ELSE commits[generation]

StopOf(generation) ==
    IF generation = 0 THEN 0 ELSE OutputStop(commits[generation])

\* output_cursor(start): a start beyond the end is refused.
OutputCursor(start) ==
    /\ cursor = None
    /\ start <= head.state.emitted
    /\ cursor' = [anchor |-> head.generation, digest |-> AnchorOf(head.generation),
                  stop |-> head.state.emitted, next |-> start]
    /\ taken' = <<>>
    /\ answer' = NoAnswer /\ UNCHANGED <<durable, callVars>>

CursorAdmitted(c) ==
    /\ c.anchor <= head.generation
    /\ c.anchor > 0 => ChainHolds(c.anchor)
    /\ c.stop = StopOf(c.anchor)
    /\ c.digest = AnchorOf(c.anchor)

GenerationOf(i) == operations[outputs[i].operation].generation

\* The generations whose operations a page of n rows verifies.
Touched(c, n) == {GenerationOf(i) : i \in c.next + 1 .. c.next + n}

PageFits(c, n, bytes) ==
    /\ MapThenSumSet(LAMBDA i : OutputSize(outputs[i].output), c.next + 1 .. c.next + n) <= bytes
    /\ MapThenSumSet(LAMBDA g : OperationCount(commits[g]), Touched(c, n)) <= MetadataRows

\* The sizes of a page: as long as the limit and the budgets of rows, bytes
\* and metadata allow, or cut where the next generation's metadata would be
\* too long; none if not even one row fits.
PageSizes(c, limit, bytes) ==
    LET fitting == {n \in 0 .. Min({limit, c.stop - c.next}) : PageFits(c, n, bytes)}
    IN  IF c.next = c.stop THEN {0}
        ELSE {n \in fitting \ {0} : \/ n + 1 \notin fitting
                                    \/ GenerationOf(c.next + n + 1) \notin Touched(c, n)}

RowAdmitted(c, i) ==
    LET row == outputs[i]
        op  == operations[row.operation]
    IN  /\ op.generation <= c.anchor
        /\ CommitVerified(op.generation)
        /\ op.start < i /\ i <= op.stop

PageAdmitted(c, n) ==
    /\ CursorAdmitted(c)
    /\ c.next + n <= Len(outputs)
    /\ \A i \in c.next + 1 .. c.next + n : RowAdmitted(c, i)
    /\ \A i \in c.next .. c.next + n - 1 : i > 0 =>
          /\ outputs[i].operation <= outputs[i + 1].operation
          /\ outputs[i].operation = outputs[i + 1].operation =>
                Follows(outputs[i].output, outputs[i + 1].output)

\* Deviation: the page runs to the current end of the outputs.
ReadOutputsToHead(limit, bytes) ==
    /\ cursor # None
    /\ \E c \in {[cursor EXCEPT !.stop = Len(outputs)]} : \E n \in PageSizes(c, limit, bytes) :
          /\ taken' = taken \o SubSeq(outputs, c.next + 1, c.next + n)
          /\ cursor' = [cursor EXCEPT !.next = @ + n]
    /\ answer' = NoAnswer /\ UNCHANGED <<durable, callVars>>

\* read_outputs: one page, in one read transaction.
ReadOutputs(limit, bytes) ==
    /\ cursor # None
    /\ \E n \in PageSizes(cursor, limit, bytes) :
          /\ PageAdmitted(cursor, n)
          /\ taken' = taken \o SubSeq(outputs, cursor.next + 1, cursor.next + n)
          /\ cursor' = [cursor EXCEPT !.next = @ + n]
    /\ answer' = NoAnswer /\ UNCHANGED <<durable, callVars>>

\* The reader captures another cursor, or none.
Discard ==
    /\ cursor # None
    /\ cursor' = None
    /\ taken' = <<>>
    /\ answer' = NoAnswer /\ UNCHANGED <<durable, callVars>>

Next ==
    \/ \E s \in Session, r \in Submitted : Apply(s, r)
    \/ \E s \in Session : Run(s) \/ Observe(s) \/ Publish(s) \/ Fail(s)
    \/ \E start \in CursorStarts : OutputCursor(start)
    \/ \E limit \in PageRows, bytes \in PageBytes : ReadOutputs(limit, bytes)
    \/ Discard

Spec == Init /\ [][Next]_vars

-----------------------------------------------------------------------------

\* No two receipts carry one identifier.
PublishedOnce ==
    \A g, h \in DOMAIN commits : commits[g].request.id = commits[h].request.id => g = h

(***************************************************************************)
(* The journal is sound, whatever interleaving, failure or lost answer led *)
(* to it: the head restores, the latest receipt binds it, every receipt's  *)
(* operations reproduce it, no two receipts carry one identifier, and the  *)
(* rows a call is about to insert are the next ones if its head is current.*)
(***************************************************************************)
JournalSound ==
    /\ LatestAdmitted
    /\ \A g \in DOMAIN commits : CommitVerified(g)
    /\ PublishedOnce
    /\ \A s \in Session : pc[s] = "publish" => ReceiptAdmitted(plan[s].receipt)

(***************************************************************************)
(* What apply answers is true: a receipt of its own request is retained,   *)
(* or, if the request had no effect, had none on the head the journal has  *)
(* at that moment; a request that is refused, or is told of a conflict, is *)
(* not one that is retained.  (Nothing is said of a call that failed.)     *)
(***************************************************************************)
AnswerIsTrue ==
    LET receipt == answer.receipt IN
    /\ answer.kind = "receipt" =>
          /\ receipt.request = answer.request
          /\ IF receipt.status = "committed"
               THEN \E g \in DOMAIN commits : commits[g] = receipt
               ELSE receipt.after = head
    /\ answer.kind \in {"conflict", "refused"} =>
          \A g \in DOMAIN commits : commits[g].request # answer.request

(***************************************************************************)
(* A cursor stays readable, whatever is published after it: what the pages *)
(* returned is a contiguous part of the outputs up to its fixed stop, in   *)
(* one page or many; and a reader whose budgets admit one row never gets   *)
(* stuck before the stop.                                                  *)
(***************************************************************************)
PagesArePrefix ==
    cursor # None =>
        /\ cursor.next <= cursor.stop
        /\ PageAdmitted(cursor, cursor.stop - cursor.next)
        /\ taken = SubSeq(outputs, cursor.next - Len(taken) + 1, cursor.next)
        /\ \A limit \in PageRows, bytes \in PageBytes :
              \/ PageSizes(cursor, limit, bytes) # {}
              \/ OutputSize(outputs[cursor.next + 1].output) > bytes

(***************************************************************************)
(* The journal implements the log of requests: concurrent sessions, lost   *)
(* answers and failures are invisible in it.                               *)
(***************************************************************************)
Log ==
    INSTANCE OperationLog WITH
        state    <- head.state,
        requests <- [g \in DOMAIN commits |-> commits[g].request],
        outputs  <- [i \in DOMAIN outputs |-> outputs[i].output]

LogSpec == Log!Spec

(***************************************************************************)
(* What the theorems about the journal ask of the requests, and of a       *)
(* runtime: that commands lead from the states it can be in to such        *)
(* states, and that one that is not counted has had no effect.             *)
(***************************************************************************)
RequestsAdmitted == \A r \in Submitted : Len(r.commands) \in Nat

IsSequence(s) == s \in Seq({s[i] : i \in DOMAIN s})

RuntimeCounts(States) ==
    /\ InitialState \in States
    /\ \A state \in States : state.operations \in Nat
    /\ \A state \in States, r \in Submitted : \A i \in 1 .. Len(r.commands) :
          LET done == Perform(state, r.commands[i]) IN
          done.ok =>
              /\ done.state \in States
              /\ done.state.operations = state.operations =>
                    done.state = state /\ done.outputs = <<>>
              /\ IsSequence(done.outputs)

\* What the limits must be, and what constructing a request and asking for a
\* cursor or a page validates.
BoundsAdmitted ==
    /\ MaxHistory \in Nat /\ MaxCommands \in Nat /\ MaxBatchOutputs \in Nat
    /\ MetadataRows \in Nat /\ MaxCommands <= MetadataRows
    /\ \A r \in Submitted : Len(r.commands) <= MaxCommands
    /\ CursorStarts \subseteq Nat /\ PageRows \subseteq Nat \ {0} /\ PageBytes \subseteq Nat

(***************************************************************************)
(* What the soundness of the journal rests on in a runtime.  A stretch is  *)
(* <<b, causes, a>>: operations with these causes led from b to a.  Every  *)
(* state restores; a command counts its outputs, and leads a stretch to    *)
(* another; and what is verified of an operation, of its outputs and of a  *)
(* stretch holds for these.                                                *)
(***************************************************************************)
RuntimeExplains(States, Stretches) ==
    /\ InitialState.operations = 0 /\ InitialState.emitted = 0
    /\ \A state \in States :
          Restores(state) /\ state.emitted \in Nat /\ <<state, <<>>, state>> \in Stretches
    /\ \A t \in Stretches : Advances(t[1], t[3]) /\ Reproduces(t[1], t[2], t[3])
    /\ \A state \in States, r \in Submitted : \A i \in 1 .. Len(r.commands) :
          LET done == Perform(state, r.commands[i]) IN
          done.ok =>
              /\ done.state.emitted = state.emitted + Len(done.outputs)
              /\ \A n \in DOMAIN done.outputs :
                    /\ OutputSize(done.outputs[n]) \in Nat
                    /\ n > 1 => Follows(done.outputs[n - 1], done.outputs[n])
              /\ done.state.operations # state.operations =>
                    /\ CauseAdmitted(done.cause, state.emitted, done.state.emitted)
                    /\ \A t \in Stretches :
                          t[3] = state /\ Len(t[2]) < MaxCommands =>
                              <<t[1], Append(t[2], done.cause), done.state>> \in Stretches
=============================================================================
