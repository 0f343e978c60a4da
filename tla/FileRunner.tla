----------------------------- MODULE FileRunner ------------------------------
(***************************************************************************)
(* run_file_journal: processes that feed one staged file into one journal. *)
(* The journal is what PartitionedJournal establishes of it: a log of      *)
(* receipts, appended by a compare-and-set of the generation, which other  *)
(* processes read and append to between any two calls.  The identifier of  *)
(* a request is the hash of its content, so its content stands for it.     *)
(***************************************************************************)
EXTENDS Integers, Sequences, FiniteSets, FiniteSetsExt, SequencesExt

CONSTANTS
    Runner,      \* the processes that call run_file_journal
    Weight,      \* the staged file: the size of each of its records
    InputLimit,  \* limits.max_input_bytes
    Cap,         \* max_new_inputs of each runner's calls
    BatchSize,   \* batch_size of each runner's calls
    MaxFaults    \* bound on crashes, interrupts, failed and unacknowledged calls

ASSUME RunnerAssumption ==
    /\ Weight \in Seq(Nat \ {0})
    /\ InputLimit \in Nat
    /\ Cap \in [Runner -> Nat]
    /\ BatchSize \in [Runner -> Nat \ {0}]
    /\ MaxFaults \in Nat

VARIABLES
    log,        \* the journal's receipts; the generation is their number
    pc,         \* where each call is
    request,    \* the request the call is applying
    processed,  \* the records the call counts against max_new_inputs
    point,      \* the generation of the recovery point the call returned
    answer,     \* how the last call ended
    published,  \* history: the generations the call itself published
    from,       \* history: the source position the call started at
    faults

runnerVars == <<log, pc, request, processed, point, answer, published, from, faults>>

-----------------------------------------------------------------------------

RecordCount == Len(Weight)

NoRequest == [generation |-> 0, cause |-> "none", position |-> 0, count |-> 0]

Generation == Len(log)

PositionAt(g) == IF g = 0 THEN 0 ELSE log[g].position + log[g].count

ClosedAt(g) == g > 0 /\ log[g].cause = "eof"

HasReceipt(req) == Contains(log, req)

\* The loop drops the last record of a batch until the wave is admitted.
Admissible(position, n) ==
    MapThenSumSet(LAMBDA i : Weight[i], position + 1 .. position + n) <= InputLimit

LongestAdmissible(position, most) == Max({0} \cup {n \in 1 .. most : Admissible(position, n)})

\* Deviation: a batch that is not admitted is not shortened.
BatchAllOrNothing(r, position, done) ==
    LET most == Min({BatchSize[r], Cap[r] - done, RecordCount - position})
    IN  IF Admissible(position, most) THEN most ELSE 0

Batch(r, position, done) ==
    LongestAdmissible(position, Min({BatchSize[r], Cap[r] - done, RecordCount - position}))

Init ==
    /\ log = <<>>
    /\ pc = [r \in Runner |-> "idle"]
    /\ request = [r \in Runner |-> NoRequest]
    /\ processed = [r \in Runner |-> 0]
    /\ point = [r \in Runner |-> 0]
    /\ answer = [r \in Runner |-> "none"]
    /\ published = [r \in Runner |-> {}]
    /\ from = [r \in Runner |-> 0]
    /\ faults = 0

Goto(r, label) == pc' = [pc EXCEPT ![r] = label]

\* The call ends; what it answers is the point it read last.
End(r, how) ==
    /\ Goto(r, "idle")
    /\ request' = [request EXCEPT ![r] = NoRequest]
    /\ answer' = [answer EXCEPT ![r] = how]
    /\ point' = [point EXCEPT ![r] = Generation]

Apply(r, req) ==
    /\ Goto(r, "lookup")
    /\ request' = [request EXCEPT ![r] = req]
    /\ UNCHANGED <<answer, point>>

(***************************************************************************)
(* One turn of the loop, at the current generation: a wave, EOF with       *)
(* capacity to spare, or the end.  A record no wave admits raises.         *)
(***************************************************************************)
Turn(r, done) ==
    LET position == PositionAt(Generation)
        count    == Batch(r, position, done)
        Ask(cause, n) == Apply(r, [generation |-> Generation, cause |-> cause,
                                   position |-> position, count |-> n])
    IN  CASE done < Cap[r] /\ position < RecordCount /\ count > 0 -> Ask("wave", count)
          [] done < Cap[r] /\ position < RecordCount /\ count = 0 -> End(r, "raised")
          [] done < Cap[r] /\ position = RecordCount -> Ask("eof", 0)
          [] OTHER -> End(r, "returned")

\* A call begins: verify the blob, read the latest point, open a session.
Start(r) ==
    /\ pc[r] = "idle"
    /\ processed' = [processed EXCEPT ![r] = 0]
    /\ published' = [published EXCEPT ![r] = {}]
    /\ from' = [from EXCEPT ![r] = PositionAt(Generation)]
    /\ IF ClosedAt(Generation) \/ Cap[r] = 0 THEN End(r, "returned") ELSE Turn(r, 0)
    /\ UNCHANGED <<log, faults>>

(***************************************************************************)
(* session.apply: a snapshot, the work, and the publication.               *)
(***************************************************************************)
Lookup(r) ==
    LET req == request[r] IN
    /\ pc[r] = "lookup"
    /\ Goto(r, CASE HasReceipt(req) -> "confirm"
                 [] ~ HasReceipt(req) /\ Generation # req.generation -> "inspect"
                 \* EOF of a closed source is a no-op
                 [] ~ HasReceipt(req) /\ Generation = req.generation ->
                        IF ClosedAt(Generation) THEN "confirm" ELSE "commit")
    /\ UNCHANGED <<log, request, processed, point, answer, published, from, faults>>

Publish(r) ==
    /\ log' = Append(log, request[r])
    /\ published' = [published EXCEPT ![r] = @ \cup {Generation + 1}]

Commit(r) ==
    /\ pc[r] = "commit"
    /\ IF HasReceipt(request[r])
         THEN Goto(r, "confirm") /\ UNCHANGED <<log, published>>
       ELSE IF Generation # request[r].generation
         THEN Goto(r, "inspect") /\ UNCHANGED <<log, published>>
       ELSE Goto(r, "confirm") /\ Publish(r)
    /\ UNCHANGED <<request, processed, point, answer, from, faults>>

\* Publication succeeds and apply raises nevertheless.
CommitUnacknowledged(r) ==
    /\ pc[r] = "commit" /\ faults < MaxFaults
    /\ ~ HasReceipt(request[r]) /\ Generation = request[r].generation
    /\ Publish(r)
    /\ Goto(r, "inspect")
    /\ faults' = faults + 1
    /\ UNCHANGED <<request, processed, point, answer, from>>

\* A worker, a deadline or the store fails before publication.
ApplyFails(r) ==
    /\ pc[r] \in {"lookup", "commit"} /\ faults < MaxFaults
    /\ Goto(r, "inspect")
    /\ faults' = faults + 1
    /\ UNCHANGED <<log, request, processed, point, answer, published, from>>

\* Deviation: an exception is always the caller's.
InspectNothing(r) ==
    /\ pc[r] = "inspect"
    /\ End(r, "raised")
    /\ UNCHANGED <<log, processed, published, from, faults>>

\* After an exception: a retained receipt turns it into a return.
Inspect(r) ==
    /\ pc[r] = "inspect"
    /\ End(r, IF HasReceipt(request[r]) THEN "reconciled" ELSE "raised")
    /\ UNCHANGED <<log, processed, published, from, faults>>

\* Deviation: the loop goes on from wherever the journal is.
ConfirmAnyPosition(r) ==
    LET req == request[r] IN
    /\ pc[r] = "confirm"
    /\ processed' = [processed EXCEPT ![r] = @ + req.count]
    /\ IF req.cause = "eof" THEN End(r, "returned") ELSE Turn(r, processed[r] + req.count)
    /\ UNCHANGED <<log, published, from, faults>>

\* After a receipt: the latest point must be the one the request led to.
Confirm(r) ==
    LET req == request[r] IN
    /\ pc[r] = "confirm"
    /\ IF req.cause = "eof"
         THEN /\ End(r, IF ClosedAt(Generation) THEN "returned" ELSE "raised")
              /\ UNCHANGED processed
       ELSE IF PositionAt(Generation) # req.position + req.count
         THEN End(r, "raised") /\ UNCHANGED processed
       ELSE /\ processed' = [processed EXCEPT ![r] = @ + req.count]
            /\ Turn(r, processed[r] + req.count)
    /\ UNCHANGED <<log, published, from, faults>>

\* The process dies, is interrupted, or cannot read the journal or close
\* its session.
Stop(r) ==
    /\ pc[r] # "idle" /\ faults < MaxFaults
    /\ End(r, "raised")
    /\ faults' = faults + 1
    /\ UNCHANGED <<log, processed, published, from>>

Continue(r) == Lookup(r) \/ Commit(r) \/ Inspect(r) \/ Confirm(r)

RunnerStep(r) == Start(r) \/ Continue(r) \/ CommitUnacknowledged(r) \/ ApplyFails(r) \/ Stop(r)

-----------------------------------------------------------------------------

Request ==
    [generation : Nat, cause : {"none", "wave", "eof"}, position : Nat, count : Nat]

\* Every variable has its type, and a call under way has a request.
TypeOK ==
    /\ log \in Seq(Request)
    /\ pc \in [Runner -> {"idle", "lookup", "commit", "inspect", "confirm"}]
    /\ request \in [Runner -> Request]
    /\ \A r \in Runner : (request[r] = NoRequest) = (pc[r] = "idle")
    /\ processed \in [Runner -> Nat] /\ point \in [Runner -> Nat]
    /\ answer \in [Runner -> {"none", "returned", "reconciled", "raised"}]
    /\ published \in [Runner -> SUBSET Nat] /\ from \in [Runner -> Nat]
    /\ faults \in 0 .. MaxFaults

\* Every generation follows the one before it, in admitted waves; EOF is last
\* and only at the end of the file.
HoldsFilePrefix ==
    /\ \A g \in DOMAIN log :
          /\ log[g].generation = g - 1
          /\ log[g].position = PositionAt(g - 1)
          /\ log[g].cause = "wave" =>
                log[g].count > 0 /\ Admissible(log[g].position, log[g].count)
          /\ log[g].cause = "eof" =>
                log[g].count = 0 /\ log[g].position = RecordCount /\ g = Len(log)
    /\ PositionAt(Generation) <= RecordCount

\* What a call publishes lies within its cap of records after the position it
\* started at, whoever published the others there; one that has nothing left of
\* its cap never decides that the source ended.
CapRespected ==
    \A r \in Runner : \A g \in published[r] :
        /\ from[r] <= log[g].position /\ PositionAt(g) <= from[r] + Cap[r]
        /\ log[g].cause = "eof" => PositionAt(g) < from[r] + Cap[r]

\* A call that returns normally has the file closed, or has its cap of records
\* after the position it started at.
ReturnsHold ==
    \A r \in Runner :
        answer[r] = "returned" /\ pc[r] = "idle" =>
            /\ \A g \in published[r] : g <= point[r]
            /\ ClosedAt(point[r]) \/ PositionAt(point[r]) = from[r] + Cap[r]

(***************************************************************************)
(* Whatever processes fed it, died and called again, the journal holds a   *)
(* prefix of the file: every record once, in order.  A call keeps its cap, *)
(* and what it answers is true: records that others publish meanwhile are  *)
(* neither skipped nor counted twice.                                      *)
(***************************************************************************)
JournalIsFilePrefix == TypeOK /\ HoldsFilePrefix /\ CapRespected /\ ReturnsHold

(***************************************************************************)
(* A publication whose reply was lost is not answered by an exception: the *)
(* receipt is found again, whatever was published after it.  Only another  *)
(* fault on the way can still raise.                                       *)
(***************************************************************************)
LostReplyIsReconciled ==
    [][\A r \in Runner :
          /\ pc[r] = "inspect" /\ pc'[r] = "idle" /\ faults' = faults
          /\ \E g \in published[r] : log[g] = request[r]
          => answer'[r] = "reconciled"]_runnerVars
=============================================================================
