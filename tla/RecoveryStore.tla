---------------------------- MODULE RecoveryStore ----------------------------
(***************************************************************************)
(* resume_events over a RecoveryStore: processes that replay a finite      *)
(* source through an aligner and commit, in one transaction each time, the *)
(* source position, the aligner's checkpoint and the windows closed since. *)
(* Any of them may die, or lose the reply of a commit, and be called again.*)
(*                                                                         *)
(* A source stands for its hash, a configuration for its digest.  SQLite   *)
(* makes a transaction atomic; checksums and schemas are left out.         *)
(***************************************************************************)
EXTENDS Alignment

CONSTANTS
    Resumer,     \* the processes that call resume_events on the database
    Tasks,       \* what each is called with, chosen at the start: functions
                 \* from Resumer to [config, source, batchSizes, allowances, faults];
                 \* batch_size and max_new_events differ from call to call,
                 \* faults bounds crashes, failed commits and lost replies
    MaxIdle      \* bounds the generations: a call for no event begins below it

\* What the configuration and resume_events validate of their arguments.
TasksAdmitted(tasks) ==
    \A r \in Resumer :
        /\ ConfigAdmitted(tasks[r].config)
        /\ tasks[r].source \in Seq(ToSet(tasks[r].source))
        /\ tasks[r].batchSizes \subseteq Nat \ {0}
        /\ tasks[r].allowances \subseteq Nat
        /\ tasks[r].faults \in Nat

VARIABLES
    task,    \* the configuration and the source of each process
    point,   \* the stored recovery point
    stored,  \* the stored windows
    pc,      \* where each call is
    run,     \* the local state of each call
    answer,  \* how each process' last call ended
    faults

vars == <<task, point, stored, pc, run, answer, faults>>

-----------------------------------------------------------------------------

NothingStored == [generation |-> 0, position |-> 0]

NextIndexOf(p) == IF p = NothingStored THEN 0 ELSE p.checkpoint.nextIndex

ClosedPoint(p) == p # NothingStored /\ p.checkpoint.closed

NotRunning == [position |-> 0]

StoreInitOf(tasks) ==
    /\ task = tasks
    /\ point = NothingStored
    /\ stored = <<>>
    /\ pc = [r \in Resumer |-> "idle"]
    /\ run = [r \in Resumer |-> NotRunning]
    /\ answer = [r \in Resumer |-> NothingStored]
    /\ faults = [r \in Resumer |-> 0]

StoreInit == \E tasks \in Tasks : StoreInitOf(tasks)

Goto(r, label) == pc' = [pc EXCEPT ![r] = label]

\* The call ends: with a point it returns, without one it raises.
End(r, result) ==
    /\ Goto(r, "idle")
    /\ run' = [run EXCEPT ![r] = NotRunning]
    /\ answer' = [answer EXCEPT ![r] = result]

Source(r) == task[r].source

Begun(r, aligner, position, batch, most) ==
    [loaded |-> point, aligner |-> aligner, position |-> position,
     generation |-> point.generation, batch |-> batch,
     stop |-> IF position + most < Len(Source(r)) THEN position + most ELSE Len(Source(r)),
     pending |-> <<>>, since |-> 0]

\* A point of another source, or of a longer one, is refused.
PointIsOurs(r) ==
    /\ point.source = Source(r)
    /\ point.position <= Len(Source(r))
    /\ AlignerRestoreAdmitted(task[r].config, point.checkpoint)

\* resume_events begins: load the point and restore the aligner from it.  A call
\* may ask for no event, and its commit is then a generation like any other.
Resume(r) ==
    /\ pc[r] = "idle"
    /\ \E batch \in task[r].batchSizes, most \in task[r].allowances :
       /\ most = 0 => point.generation < MaxIdle
       /\ IF point = NothingStored
            THEN /\ run' = [run EXCEPT ![r] = Begun(r, NewAligner, 0, batch, most)]
                 /\ Goto(r, "replay")
                 /\ UNCHANGED answer
          ELSE IF PointIsOurs(r)
            THEN /\ run' = [run EXCEPT ![r] = Begun(r, AlignerRestored(task[r].config, point.checkpoint),
                                                    point.position, batch, most)]
                 /\ Goto(r, "verify")
                 /\ UNCHANGED answer
          ELSE End(r, NothingStored)
    /\ UNCHANGED <<task, point, stored, faults>>

\* Every stored window is read, in a transaction of its own, and must be there
\* up to the next index of the point stored by then.
VerifyOutputs(r) ==
    /\ pc[r] = "verify"
    /\ IF \/ Len(stored) # NextIndexOf(point)
          \/ \E n \in DOMAIN stored : stored[n].index # n - 1
         THEN End(r, NothingStored)
       ELSE IF ClosedPoint(run[r].loaded)
         THEN End(r, run[r].loaded)
       ELSE Goto(r, "replay") /\ UNCHANGED <<run, answer>>
    /\ UNCHANGED <<task, point, stored, faults>>

\* Control passes to a commit, for which the aligner takes a checkpoint.
Checkpointed(r, state) ==
    IF \E p \in {AlignerCheckpoint(task[r].config, state.aligner)} : CheckpointAdmitted(p)
      THEN /\ run' = [run EXCEPT ![r] = state]
           /\ Goto(r, "commit")
           /\ UNCHANGED answer
      ELSE End(r, NothingStored)

\* One event of the source; a full batch is committed unless the call is done.
Replay(r) ==
    /\ pc[r] = "replay" /\ run[r].position < run[r].stop
    /\ \E result \in {Ingest(task[r].config, run[r].aligner, Source(r)[run[r].position + 1])} :
       \E state \in {[run[r] EXCEPT !.aligner = result.aligner, !.position = @ + 1,
                                    !.pending = @ \o result.windows, !.since = @ + 1]} :
         IF ~ result.ok THEN End(r, NothingStored)
         ELSE IF state.since = state.batch /\ state.position < state.stop
           THEN Checkpointed(r, state)
         ELSE run' = [run EXCEPT ![r] = state] /\ UNCHANGED <<pc, answer>>
    /\ UNCHANGED <<task, point, stored, faults>>

\* Deviation: every call ends with a flush, also within the source.
FinishWithFlush(r) ==
    /\ pc[r] = "replay" /\ run[r].position = run[r].stop
    /\ \E result \in {Flush(task[r].config, run[r].aligner)} :
       \E state \in {[run[r] EXCEPT !.aligner = result.aligner, !.pending = @ \o result.windows]} :
         IF result.ok THEN Checkpointed(r, state) ELSE End(r, NothingStored)
    /\ UNCHANGED <<task, point, stored, faults>>

\* The last event of the call was replayed; the end of the source is flushed.
Finish(r) ==
    /\ pc[r] = "replay" /\ run[r].position = run[r].stop
    /\ \E result \in {IF run[r].position = Len(Source(r))
                         THEN Flush(task[r].config, run[r].aligner)
                         ELSE [ok |-> TRUE, aligner |-> run[r].aligner, windows |-> <<>>]} :
       \E state \in {[run[r] EXCEPT !.aligner = result.aligner, !.pending = @ \o result.windows]} :
         IF result.ok THEN Checkpointed(r, state) ELSE End(r, NothingStored)
    /\ UNCHANGED <<task, point, stored, faults>>

-----------------------------------------------------------------------------

Committed(r) ==
    [generation |-> run[r].generation + 1, source |-> Source(r), position |-> run[r].position,
     checkpoint |-> AlignerCheckpoint(task[r].config, run[r].aligner)]

\* Deviation: the generation the call started from is not compared.
CommitAdmittedWithoutCompare(r) ==
    LET new == Committed(r) IN
    /\ new.checkpoint.nextIndex >= NextIndexOf(point)
    /\ point # NothingStored =>
          /\ point.source = new.source /\ point.position <= new.position
          /\ point.checkpoint.config = new.checkpoint.config
          /\ ~ point.checkpoint.closed
    /\ [n \in DOMAIN run[r].pending |-> run[r].pending[n].index] =
           [n \in 1 .. new.checkpoint.nextIndex - NextIndexOf(point) |-> NextIndexOf(point) + n - 1]

\* What RecoveryStore.commit compares with the stored point.
CommitAdmitted(r) ==
    LET new == Committed(r) IN
    /\ point.generation = run[r].generation
    /\ new.checkpoint.nextIndex >= NextIndexOf(point)
    /\ point # NothingStored =>
          /\ point.source = new.source /\ point.position <= new.position
          /\ point.checkpoint.config = new.checkpoint.config
          /\ ~ point.checkpoint.closed
    /\ [n \in DOMAIN run[r].pending |-> run[r].pending[n].index] =
           [n \in 1 .. new.checkpoint.nextIndex - NextIndexOf(point) |-> NextIndexOf(point) + n - 1]

Store(r) ==
    /\ point' = Committed(r)
    /\ stored' = stored \o run[r].pending

\* One commit, and the loop or the call goes on from it.
StoreCommit(r) ==
    /\ pc[r] = "commit"
    /\ IF ~ CommitAdmitted(r) THEN End(r, NothingStored) /\ UNCHANGED <<point, stored>>
       ELSE /\ Store(r)
            /\ IF run[r].position = run[r].stop THEN End(r, Committed(r))
               ELSE /\ run' = [run EXCEPT ![r].generation = @ + 1, ![r].since = 0,
                                          ![r].pending = <<>>]
                    /\ Goto(r, "replay")
                    /\ UNCHANGED answer
    /\ UNCHANGED <<task, faults>>

\* The transaction is committed and the process does not learn of it.
StoreCommitUnacknowledged(r) ==
    /\ pc[r] = "commit" /\ CommitAdmitted(r) /\ faults[r] < task[r].faults
    /\ Store(r)
    /\ End(r, NothingStored)
    /\ faults' = [faults EXCEPT ![r] = @ + 1]
    /\ UNCHANGED task

\* The process dies, or the database fails it before anything is committed.
Stop(r) ==
    /\ pc[r] # "idle" /\ faults[r] < task[r].faults
    /\ End(r, NothingStored)
    /\ faults' = [faults EXCEPT ![r] = @ + 1]
    /\ UNCHANGED <<task, point, stored>>

Continue(r) == VerifyOutputs(r) \/ Replay(r) \/ Finish(r) \/ StoreCommit(r)

StoreNext == \E r \in Resumer : Resume(r) \/ Continue(r) \/ StoreCommitUnacknowledged(r) \/ Stop(r)

\* Calls go on, and every process is called again.
StoreFairness == \A r \in Resumer : WF_vars(Continue(r)) /\ WF_vars(Resume(r))

StoreSpec == StoreInit /\ [][StoreNext]_vars /\ StoreFairness

-----------------------------------------------------------------------------

\* One aligner on the first n events of a source, without a checkpoint.
Uninterrupted(c, source, n) ==
    LET added(whole, result) ==
            [ok |-> whole.ok /\ result.ok, aligner |-> result.aligner,
             windows |-> whole.windows \o result.windows]
        step(whole, e) == added(whole, Ingest(c, whole.aligner, e))
        upTo[p \in 0 .. Len(source)] ==
            IF p = 0 THEN [ok |-> TRUE, aligner |-> NewAligner, windows |-> <<>>]
            ELSE step(upTo[p - 1], source[p])
    IN  upTo[n]

\* The aligners that calls may have in their hands after the first n events:
\* whatever was ingested by them, and was restored from a checkpoint of them.
Held(c, source, n) ==
    LET Restarted(held) == held \cup {AlignerRestored(c, AlignerCheckpoint(c, a)) : a \in held}
        upTo[p \in 0 .. Len(source)] ==
            IF p = 0 THEN Restarted({NewAligner})
            ELSE Restarted({Ingest(c, a, source[p]).aligner : a \in upTo[p - 1]})
    IN  upTo[n]

Listed(windows) == windows \in Seq(ToSet(windows))

\* What the store relies on: it cannot be seen from an aligner's windows and
\* checkpoints whether it was restored.
RestoreIsInvisible(c, source) ==
    \A n \in 0 .. Len(source) : \E whole \in {Uninterrupted(c, source, n)} : whole.ok =>
        \A a \in Held(c, source, n) :
            /\ ~ a.closed
            /\ AlignerCheckpoint(c, a) = AlignerCheckpoint(c, whole.aligner)
            /\ n < Len(source) =>
                  \E x \in {Ingest(c, a, source[n + 1])} :
                  \E y \in {Ingest(c, whole.aligner, source[n + 1])} :
                     x.ok = y.ok /\ x.windows = y.windows /\ Listed(x.windows)
            /\ n = Len(source) =>
                  \E x \in {Flush(c, a)} : \E y \in {Flush(c, whole.aligner)} :
                     /\ x.ok = y.ok /\ x.windows = y.windows /\ Listed(x.windows)
                     /\ AlignerCheckpoint(c, x.aligner) = AlignerCheckpoint(c, y.aligner)
                     /\ x.ok => x.aligner.closed

\* The windows closed by then are numbered from zero, and are those of the arrivals.
WindowsAreExact(c, arrivals, aligner, windows) ==
    /\ Len(windows) = aligner.nextIndex
    /\ \A n \in DOMAIN windows : windows[n].index = n - 1 /\ IsWindow(c, arrivals, windows[n])

\* An aligner that is restored at will, and not interrupted otherwise, agrees
\* with its arrivals, and so do its windows.
AlignerIsExact(c, source) ==
    \A n \in 0 .. Len(source) : \E whole \in {Uninterrupted(c, source, n)} : whole.ok =>
        \E arrivals \in {Arrivals(c, source, n)} :
            /\ WindowsAreExact(c, arrivals, whole.aligner, whole.windows)
            /\ \A a \in Held(c, source, n) : Agrees(c, a, arrivals)
            /\ n = Len(source) => \E last \in {Flush(c, whole.aligner)} : last.ok =>
                  /\ WindowsAreExact(c, arrivals, last.aligner, whole.windows \o last.windows)
                  /\ Agrees(c, AlignerRestored(c, AlignerCheckpoint(c, last.aligner)), arrivals)
                  /\ \A a \in Held(c, source, n) : Agrees(c, Flush(c, a).aligner, arrivals)

\* An aligner in the hands of a call agrees with its arrivals.
RunsAreExact ==
    \A r \in Resumer : pc[r] \in {"verify", "replay", "commit"} =>
        \E arrivals \in {Arrivals(task[r].config, Source(r), run[r].position)} :
            /\ Agrees(task[r].config, run[r].aligner, arrivals)
            /\ \A n \in DOMAIN run[r].pending :
                  IsWindow(task[r].config, arrivals, run[r].pending[n])

\* What is stored is what an uninterrupted call would have stored there.
StoreIsExact ==
    /\ point = NothingStored => stored = <<>>
    /\ point # NothingStored =>
          \E arrivals \in {Arrivals(point.checkpoint.config, point.source, point.position)} :
            /\ Agrees(point.checkpoint.config, AlignerRestored(point.checkpoint.config, point.checkpoint),
                      arrivals)
            /\ Len(stored) = point.checkpoint.nextIndex
            /\ \A n \in DOMAIN stored :
                  stored[n].index = n - 1 /\ IsWindow(point.checkpoint.config, arrivals, stored[n])
            /\ point.checkpoint.closed => point.position = Len(point.source)
    /\ \A r \in Resumer : answer[r] # NothingStored =>
          /\ answer[r].generation <= point.generation
          /\ answer[r].position <= point.position
          /\ ClosedPoint(answer[r]) => point = answer[r]

(***************************************************************************)
(* An aligner in the hands of a call, restored however often and under any *)
(* retention policy, agrees with its arrivals: next window, maxima, fates, *)
(* reports, and the windows it has closed since the last commit.  And what *)
(* is stored, by whom and with whatever failures, is what an uninterrupted *)
(* call would have stored at that position: every closed window, once and  *)
(* in order, the state to go on from, and never the point of a call that   *)
(* was answered otherwise.                                                 *)
(***************************************************************************)
AlignmentIsExact == RunsAreExact /\ StoreIsExact

\* The call that commits was asked for no event.
CommitsNoEvent(r) == pc[r] = "commit" /\ run[r].stop = run[r].loaded.position

\* The state of the aligner is stored again, or its first state for the first time.
SameState ==
    /\ stored' = stored
    /\ IF point = NothingStored
         THEN \E r \in Resumer : point'.checkpoint = AlignerCheckpoint(task[r].config, NewAligner)
         ELSE point'.checkpoint = point.checkpoint

(***************************************************************************)
(* Whatever processes race, die or lose replies: a commit is one           *)
(* generation of one source, it never moves back, it only adds windows,    *)
(* and nothing follows the closing one.  One that neither moves on nor     *)
(* closes the source is that of a call for no event (max_new_events = 0):  *)
(* it stores again the state it found, restored and checkpointed since.    *)
(***************************************************************************)
StoreOnlyAdvances ==
    [][/\ ~ ClosedPoint(point)
       /\ point'.generation = point.generation + 1
       /\ point'.position >= point.position
       /\ \/ point'.position > point.position
          \/ point'.checkpoint.closed
          \/ SameState /\ \E r \in Resumer : CommitsNoEvent(r)
       /\ point # NothingStored => point'.source = point.source
       /\ SubSeq(stored', 1, Len(stored)) = stored]_<<point, stored>>

\* An uninterrupted aligner refuses an event of the source or its end, or it has
\* what no checkpoint admits: an identifier to report twice, which a released one
\* may be when it comes again, or more streams than the limit.
SourceRefused(c, source) ==
    \E whole \in {Uninterrupted(c, source, Len(source))} :
    \E ended \in {Flush(c, whole.aligner)} :
        \/ ~ whole.ok \/ ~ ended.ok
        \/ Cardinality(DOMAIN ended.aligner.maxSeen) > c.maxStreams
        \/ \E ids \in {ended.aligner.dropped, ended.aligner.acceptedLate, UnassignedIds(ended.aligner)} :
              ~ Labels(ids)

\* Nobody's source is refused, and whoever is called is also called for events.
Finishable == {tasks \in Tasks : \A r \in Resumer :
                                    /\ ~ SourceRefused(tasks[r].config, tasks[r].source)
                                    /\ tasks[r].allowances # {0}}

(***************************************************************************)
(* Called again and again, and for no event only so often, the processes   *)
(* finish every source of which an uninterrupted aligner refuses neither   *)
(* an event nor the end, and that has no identifier to report twice and no *)
(* more streams than allowed, which checkpoint() refuses for good: nothing *)
(* else, be it a conflict, a checkpoint, a restore or a verification,      *)
(* keeps refusing the call that would go on.                               *)
(***************************************************************************)
ResumeCompletes == task \in Finishable => <>ClosedPoint(point)
=============================================================================
