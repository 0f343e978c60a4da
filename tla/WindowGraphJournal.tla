-------------------------- MODULE WindowGraphJournal --------------------------
(***************************************************************************)
(* The journal of a window graph: the operation journal whose runtime is   *)
(* one WindowGraphRuntime and whose commands are its inputs, watermarks,   *)
(* end and drains.  Only drains have outputs.                              *)
(***************************************************************************)
EXTENDS WindowGraph

CONSTANTS
    Flow,   \* the graph the journal was created for
    Session, ThisJournal, Submitted, None, MaxHistory, MaxCommands,
    MaxBatchOutputs, MetadataRows, CursorStarts, PageRows, PageBytes

VARIABLES head, commits, operations, outputs, pc, request, before, plan, answer,
          cursor, taken

ASSUME WindowJournalAssumption ==
    /\ Flow \in WindowGraphs
    /\ MaxHistory \in Nat /\ MaxCommands \in Nat /\ MaxBatchOutputs \in Nat
    /\ MaxCommands <= MetadataRows

(***************************************************************************)
(* The commands.                                                           *)
(***************************************************************************)
WindowInput(position, time, key) ==
    [cause |-> "process", position |-> position, time |-> time,
     record |-> Record(position + 1, key)]

WindowWatermark(time, position) ==
    [cause |-> "watermark", position |-> position, time |-> time]

WindowFinish(position) == [cause |-> "finish", position |-> position]

WindowDrain(maxWindows) == [cause |-> "drain", max |-> maxWindows]

WindowRequestAdmitted(r) ==
    /\ r.expected \in 0 .. MaxHistory
    /\ Len(r.commands) <= MaxCommands
    /\ \A i \in DOMAIN r.commands :
          LET c == r.commands[i]
          IN  /\ c.cause \in {"process", "watermark", "finish", "drain"}
              /\ IF c.cause = "drain" THEN c.max >= 1 ELSE c.position \in Nat

ASSUME WindowRequestAssumption == \A r \in Submitted : WindowRequestAdmitted(r)

\* Whether a command that succeeds will be recorded, told before it is run.
Effective(state, c) ==
    CASE c.cause = "process"   -> TRUE
      [] c.cause = "watermark" -> c.time # state.window.watermark
      [] c.cause = "finish"    -> ~ state.window.finished
      [] c.cause = "drain"     -> Pending(Flow.spec, state.window) # {}

RuntimeCall(state, c) ==
    CASE c.cause = "process"   ->
            ProcessInput(Flow, state, c.position, Process(Flow, state, c.time, c.record))
      [] c.cause = "watermark" -> AdvanceWatermark(Flow, state, c.time, c.position)
      [] c.cause = "finish"    -> Finish(Flow, state, c.position)
      [] c.cause = "drain"     ->
            DrainWindows(Flow, state, Drain(Flow, state, DrainCount(Flow, state, c.max)))

\* No callback runs for a command there is no room to record.
WindowPerform(state, c) ==
    LET full   == Effective(state, c) /\ state.operations >= MaxHistory
        called == IF full THEN Raised(state) ELSE RuntimeCall(state, c)
        cause  == IF c.cause # "drain" THEN c
                  ELSE c @@ [drained |-> called.state.window.emitted - state.window.emitted]
    IN  called @@ [cause |-> cause]

WindowRestores(state) == CheckpointAdmitted(Flow, state) /\ Measured(state) = state

\* What a receipt says of the progress between two heads.
WindowAdvances(b, a) ==
    /\ b.position <= a.position /\ b.watermarks <= a.watermarks /\ b.drains <= a.drains
    /\ b.window.finished => a.window.finished
    /\ b.window.watermark <= a.window.watermark
    /\ a.operations - b.operations =
          (a.position - b.position) + (a.watermarks - b.watermarks) + (a.drains - b.drains)
              + (IF a.window.finished # b.window.finished THEN 1 ELSE 0)

\* Only a drain has outputs, and it retires windows.
WindowCauseAdmitted(cause, start, stop) ==
    IF cause.cause = "drain" THEN cause.drained \in 1 .. cause.max ELSE start = stop

\* One operation, replayed on the progress it must have started from.
Replayed(acc, cause) ==
    CASE cause.cause = "process" ->
            [acc EXCEPT !.ok = @ /\ ~ acc.finished /\ cause.position = acc.position,
                        !.position = @ + 1]
      [] cause.cause = "watermark" ->
            [acc EXCEPT !.ok = @ /\ ~ acc.finished /\ cause.position = acc.position
                                 /\ cause.time > acc.watermark,
                        !.watermark = cause.time, !.watermarks = @ + 1]
      [] cause.cause = "finish" ->
            [acc EXCEPT !.ok = @ /\ ~ acc.finished /\ cause.position = acc.position,
                        !.finished = TRUE]
      [] cause.cause = "drain" -> [acc EXCEPT !.drains = @ + 1]

Progress(state) ==
    [ok |-> TRUE, position |-> state.position, finished |-> state.window.finished,
     watermark |-> state.window.watermark, watermarks |-> state.watermarks,
     drains |-> state.drains]

WindowReproduces(b, causes, a) == FoldLeft(Replayed, Progress(b), causes) = Progress(a)

WindowFollows(x, y) == TRUE

WindowOutputSize(output) == 1

Journal ==
    INSTANCE OperationJournal WITH
        InitialState <- EmptyWindowGraph(Flow), Perform <- WindowPerform,
        Restores <- WindowRestores, Advances <- WindowAdvances,
        CauseAdmitted <- WindowCauseAdmitted, Reproduces <- WindowReproduces,
        Follows <- WindowFollows, OutputSize <- WindowOutputSize

(***************************************************************************)
(* What the journal verifies and its handlers are those of the operation   *)
(* journal.                                                                *)
(***************************************************************************)
LatestAdmitted == Journal!LatestAdmitted
ReceiptAdmitted(receipt) == Journal!ReceiptAdmitted(receipt)
CommitVerified(g) == Journal!CommitVerified(g)

Init == Journal!Init

Apply(s, r) == Journal!Apply(s, r)
Run(s) == Journal!Run(s)
Observe(s) == Journal!Observe(s)
Publish(s) == Journal!Publish(s)
Fail(s) == Journal!Fail(s)
OutputCursor(start) == Journal!OutputCursor(start)
ReadOutputs(limit, bytes) == Journal!ReadOutputs(limit, bytes)

Next ==
    \/ \E s \in Session, r \in Submitted : Apply(s, r)
    \/ \E s \in Session : Run(s) \/ Observe(s) \/ Publish(s) \/ Fail(s)
    \/ \E start \in CursorStarts : OutputCursor(start)
    \/ \E limit \in PageRows, bytes \in PageBytes : ReadOutputs(limit, bytes)
    \/ Journal!Discard

Spec == Init /\ [][Next]_(Journal!vars)

-----------------------------------------------------------------------------

\* The runtime does to every head what the journal foretold before calling it.
EffectsAreForetold ==
    \A r \in Submitted : \A i \in DOMAIN r.commands :
        LET called == RuntimeCall(head.state, r.commands[i])
        IN  called.ok => Effective(head.state, r.commands[i])
                            = (called.state.operations # head.state.operations)

(***************************************************************************)
(* The journal of a window graph is sound: every checkpoint it stored      *)
(* restores the graph, with counters of edges, windows and operations that *)
(* agree; its operations replay positions, watermarks and end; and no      *)
(* command is recorded that was foretold to have no effect.                *)
(***************************************************************************)
JournalSound ==
    /\ LatestAdmitted
    /\ \A g \in DOMAIN commits : CommitVerified(g)
    /\ Journal!PublishedOnce
    /\ \A s \in Session : pc[s] = "publish" => ReceiptAdmitted(plan[s].receipt)
    /\ EffectsAreForetold

\* The graph without its limits.
Lifted == [Flow EXCEPT !.limits = [field \in DOMAIN @ |-> MaxCount]]

Eagerly(acc, called) ==
    [state |-> called.state, outputs |-> acc.outputs \o called.outputs]

\* The operations of the journal on the lifted graph, its drains replaced: each
\* row is drained alone, as soon as it is eligible.
EagerRun ==
    LET drained(acc, i) == Eagerly(acc, DrainWindows(Lifted, acc.state, Drain(Lifted, acc.state, 1)))
        redone(acc, op) ==
            LET c == op.cause
                call ==
                    CASE c.cause = "process" ->
                            ProcessInput(Lifted, acc.state, c.position,
                                         Process(Lifted, acc.state, c.time, c.record))
                      [] c.cause = "watermark" ->
                            AdvanceWatermark(Lifted, acc.state, c.time, c.position)
                      [] c.cause = "finish" -> Finish(Lifted, acc.state, c.position)
                      [] c.cause = "drain" -> Unchanged(acc.state)
                after == Eagerly(acc, call)
            IN  FoldLeft(drained, after,
                         SetToSeq(Pending(Flow.spec, after.state.window)))
    IN  FoldLeft(redone, [state |-> EmptyWindowGraph(Flow), outputs |-> <<>>], operations)

(***************************************************************************)
(* How drains cut the windows is invisible: the outputs are those of the   *)
(* eager run so far, and all of them, with the state of every step, when   *)
(* no window is pending; whatever the drains asked for, in whichever       *)
(* requests they came, wherever the end of the source fell among them.     *)
(***************************************************************************)
DrainsAreInvisible ==
    LET eager     == EagerRun
        published == [i \in DOMAIN outputs |-> outputs[i].output]
    IN  /\ IsPrefix(published, eager.outputs)
        /\ Pending(Flow.spec, head.state.window) = {} =>
              /\ published = eager.outputs
              /\ head.state.ordinary = eager.state.ordinary
              /\ head.state.window = eager.state.window
              /\ head.state.counts = eager.state.counts

\* The graph's state and outputs are those of its requests, one at a time.
LogSpec == Journal!LogSpec
=============================================================================
