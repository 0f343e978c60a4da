--------------------------- MODULE FilePublication ---------------------------
(***************************************************************************)
(* materialize_file: processes that publish the output prefix of their     *)
(* journal as one file, while runners feed that journal.  Publishers of a  *)
(* target take turns through an advisory lock, which the operating system  *)
(* frees when its holder dies; the file is replaced as a whole.            *)
(*                                                                         *)
(* A file is identified by its header: the journal, the anchored           *)
(* generation and the number of rows, which FileIsPrefix shows to be those *)
(* of that generation.  The temporary file behind a replacement, and what  *)
(* a crash leaves of it, is not read by anybody and not modelled.          *)
(***************************************************************************)
EXTENDS FileRunner

CONSTANTS
    Publisher,  \* the processes that call materialize_file on the target
    Foreign,    \* those of them that publish another journal
    RowsUpTo,   \* the rows that the first n records of the file come to
    MaxStops,   \* bound on crashes and failures of publishers
    Crews       \* who takes part: [runners, publishers, faults], one of which
                \* is chosen at the start; faults bounds those of the runners

Free == 0

ASSUME PublicationAssumption ==
    /\ Free \notin Publisher /\ Foreign \subseteq Publisher
    /\ RowsUpTo \in [0 .. Len(Weight) -> Nat]
    /\ \A m, n \in 0 .. Len(Weight) : m <= n => RowsUpTo[m] <= RowsUpTo[n]
    /\ MaxStops \in Nat
    /\ \A c \in Crews : /\ c.runners \subseteq Runner /\ c.publishers \subseteq Publisher
                         /\ c.faults \in 0 .. MaxFaults

VARIABLES
    crew,
    at,        \* where each call is
    cursor,    \* the journal prefix the call captured
    file,      \* the header of the published file
    holder,    \* who holds the publication lock
    outcome,   \* how the last call ended
    stops

sinkVars == <<at, cursor, file, holder, outcome, stops>>

allVars == <<log, pc, request, processed, point, answer, published, from, faults,
             crew, at, cursor, file, holder, outcome, stops>>

-----------------------------------------------------------------------------

NoFile == [journal |-> "none", anchor |-> 0, stop |-> 0]

StopAt(g) == RowsUpTo[PositionAt(g)]

\* The prefix an output_cursor() of the publisher's journal captures now; the
\* other journal is a finished one with a single row.
Captured(p) ==
    IF p \in Foreign THEN [journal |-> "foreign", anchor |-> 1, stop |-> 1]
                     ELSE [journal |-> "ours", anchor |-> Generation, stop |-> StopAt(Generation)]

SinkInit ==
    /\ at = [p \in Publisher |-> "idle"]
    /\ cursor = [p \in Publisher |-> NoFile]
    /\ file = NoFile
    /\ holder = Free
    /\ outcome = [p \in Publisher |-> "none"]
    /\ stops = 0

Move(p, label) == at' = [at EXCEPT ![p] = label]

\* The call ends, and its lock with it.
Leave(p, how) ==
    /\ Move(p, "idle")
    /\ outcome' = [outcome EXCEPT ![p] = how]
    /\ holder' = IF holder = p THEN Free ELSE holder

Begin(p) ==
    /\ at[p] = "idle"
    /\ Move(p, "locking")
    /\ UNCHANGED <<cursor, file, holder, outcome, stops>>

\* Deviation: the lock is taken whoever holds it.
LockShared(p) ==
    /\ at[p] = "locking"
    /\ holder' = p
    /\ Move(p, "capture")
    /\ UNCHANGED <<cursor, file, outcome, stops>>

Lock(p) ==
    /\ at[p] = "locking" /\ holder = Free
    /\ holder' = p
    /\ Move(p, "capture")
    /\ UNCHANGED <<cursor, file, outcome, stops>>

\* Deviation: a publisher waits for the lock without a deadline.
LockNeverTimesOut(p) == FALSE /\ UNCHANGED sinkVars

\* The deadline passed while somebody else held the lock.
LockTimesOut(p) ==
    /\ at[p] = "locking" /\ holder # Free
    /\ Leave(p, "raised")
    /\ UNCHANGED <<cursor, file, stops>>

\* latest() and output_cursor().
CapturePrefix(p) ==
    /\ at[p] = "capture"
    /\ cursor' = [cursor EXCEPT ![p] = Captured(p)]
    /\ Move(p, "inspect")
    /\ UNCHANGED <<file, holder, outcome, stops>>

\* Deviation: the identity of the previous file is not verified.
PreviousOutputOfAnyJournal(p) ==
    IF file # NoFile /\ file.stop = cursor[p].stop THEN "kept" ELSE "replace"

\* What the previous file allows: a file of another journal, or one ahead of
\* the captured prefix, is refused; one of the same rows is kept as it is.
PreviousOutput(p) ==
    CASE file = NoFile -> "replace"
      [] file # NoFile /\ file.journal # cursor[p].journal -> "refused"
      [] file.journal = cursor[p].journal /\ file.stop > cursor[p].stop -> "refused"
      [] file.journal = cursor[p].journal /\ file.stop = cursor[p].stop -> "kept"
      [] file.journal = cursor[p].journal /\ file.stop < cursor[p].stop -> "replace"

InspectPrevious(p) ==
    /\ at[p] = "inspect"
    /\ CASE PreviousOutput(p) = "refused" -> Leave(p, "raised")
         [] PreviousOutput(p) = "kept" -> Leave(p, "returned")
         [] PreviousOutput(p) = "replace" -> Move(p, "replace") /\ UNCHANGED <<holder, outcome>>
    /\ UNCHANGED <<cursor, file, stops>>

\* os.replace of the complete, synced temporary file.
Replace(p) ==
    /\ at[p] = "replace"
    /\ file' = cursor[p]
    /\ Move(p, "release")
    /\ UNCHANGED <<cursor, holder, outcome, stops>>

Release(p) ==
    /\ at[p] = "release"
    /\ Leave(p, "returned")
    /\ UNCHANGED <<cursor, file, stops>>

\* The process dies, or anything it does raises.
StopPublisher(p) ==
    /\ at[p] # "idle" /\ stops < MaxStops
    /\ Leave(p, "raised")
    /\ stops' = stops + 1
    /\ UNCHANGED <<cursor, file>>

GoOn(p) ==
    \/ Lock(p) \/ LockTimesOut(p) \/ CapturePrefix(p)
    \/ InspectPrevious(p) \/ Replace(p) \/ Release(p)

PublisherStep(p) == Begin(p) \/ GoOn(p) \/ StopPublisher(p)

PublicationInit == Init /\ SinkInit /\ crew \in Crews

ByRunner(r, Step(_)) ==
    /\ r \in crew.runners /\ Step(r) /\ faults' <= crew.faults
    /\ UNCHANGED <<crew, sinkVars>>

ByPublisher(p, Step(_)) ==
    /\ p \in crew.publishers /\ Step(p)
    /\ UNCHANGED <<crew, runnerVars>>

PublicationNext ==
    \/ \E r \in Runner : ByRunner(r, RunnerStep)
    \/ \E p \in Publisher : ByPublisher(p, PublisherStep)

PublicationSpec == PublicationInit /\ [][PublicationNext]_allVars

\* A call that is not interrupted goes on, whatever the other processes do; a
\* publisher of another program may stay where it is for ever, with the lock or
\* without.
PublicationFairness ==
    /\ \A r \in Runner : WF_allVars(ByRunner(r, Continue))
    /\ \A p \in Publisher \ Foreign : WF_allVars(ByPublisher(p, GoOn))

CallsGoOn == PublicationSpec /\ PublicationFairness

\* Runners and publishers are called again, and no other journal's are.
CalledForEver ==
    /\ [](\A p \in Foreign : at[p] = "idle")
    /\ \A r \in Runner : WF_allVars(ByRunner(r, Start))
    /\ \A p \in Publisher \ Foreign : WF_allVars(ByPublisher(p, Begin))

-----------------------------------------------------------------------------

\* The file holds exactly the rows of one retained generation.
NamesGeneration ==
    file.journal = "ours" => /\ file.anchor \in 0 .. Generation
                             /\ file.stop = StopAt(file.anchor)

\* No publisher of a journal finds its file ahead of what it captured: the
\* refusal in the code is for files that other programs wrote.
NeverAhead ==
    \A p \in Publisher : at[p] = "inspect" /\ file.journal = cursor[p].journal =>
        file.stop <= cursor[p].stop

(***************************************************************************)
(* The file is never ahead of the journal it names, and a call that        *)
(* returned has its captured rows in it, also after later calls of its own *)
(* or of others that failed at any point; no publisher of the same journal *)
(* ever finds rows there that it must not replace.                         *)
(***************************************************************************)
FileIsPrefix ==
    /\ NamesGeneration /\ NeverAhead
    /\ \A p \in Publisher : outcome[p] = "returned" /\ at[p] = "idle" =>
          file.journal = cursor[p].journal /\ file.stop >= cursor[p].stop

(***************************************************************************)
(* Whoever publishes, in whatever order and with whatever crashes, the file*)
(* only moves forward, and never from one journal to another.              *)
(***************************************************************************)
FileOnlyMovesForward ==
    [][file # NoFile => /\ file'.journal = file.journal
                        /\ file'.anchor >= file.anchor
                        /\ file'.stop > file.stop]_file

(***************************************************************************)
(* Every call of a runner or a publisher ends, whatever other processes do *)
(* and also while another process keeps the lock for ever.                 *)
(***************************************************************************)
CallsEnd ==
    /\ \A r \in Runner : pc[r] # "idle" ~> pc[r] = "idle"
    /\ \A p \in Publisher \ Foreign : at[p] # "idle" ~> at[p] = "idle"

(***************************************************************************)
(* If the owners call again, the whole file is processed and closed,       *)
(* however many competing calls and faults that takes, and publishers end  *)
(* with every row of it: conflicts never keep all the callers from         *)
(* progress.                                                               *)
(***************************************************************************)
FileCatchesUp ==
    CalledForEver =>
        <>(/\ PositionAt(Generation) = RecordCount /\ ClosedAt(Generation)
           /\ crew.publishers # {} =>
                 /\ file.journal = "ours"
                 /\ file.stop = RowsUpTo[RecordCount])
=============================================================================
