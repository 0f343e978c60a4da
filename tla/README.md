# Verification of stream-quilt

stream-quilt is a Python library of bounded, checkpointable stream runtimes: keyed dataflows,
windows, joins and multi-source graphs in one process, a keyed flow sharded over spawned worker
processes, and SQLite journals that make their progress durable. This directory holds TLA+ models
of its core, the TLC configurations that check them on small instances, and machine-checked proofs
about its journals and their readers, its worker pool, its window folds and keyed joins, its file
runners and publishers and its pull helpers. Paths below are relative to `src/src/stream_quilt/`; `PROJECT.json` maps every definition to
the lines it models.

Contents: [The system](#the-system) · [Modules](#the-modules) · [Runs](#what-the-runs-show) ·
[Bounds](#bounds) · [Fairness](#fairness) · [Proofs](#proofs) · [Limits](#what-is-not-shown) ·
[Plan](#plan) · [Running](#running-it)

## The system

### Inventory

| Part | Files | State | Operations |
|---|---|---|---|
| Partitioned flow journal | `partitioned_journal.py`, `..._types.py` | SQLite: one head, receipts by generation, output rows | `latest`, `request`, `session().apply`, `output_cursor`, `read_outputs` |
| Local partitioned flow | `partitioned_flow.py`, `partitioned_checkpoint.py` | published checkpoint (a shard per worker), phase, cancel event, lease | `process_batch`, `close_source`, `run`, `cancel`, `close` |
| Worker pool | `_local_worker.py` | processes, pipes, exchanges with their threads, what is still to be released | `start`, `execute`, `wait`, `check_alive`, `cleanup`; in the child `_main`, `_execute` |
| Window fold | `window_fold.py` | cells by window and key, watermark, counters | `process`, `advance_watermark`, `finish`, `drain`, checkpoint and restore |
| Ordered window fold | `ordered_window.py` | a buffer in front of a window fold | the same |
| Keyed join | `keyed_join.py` | values by key and side, ended sides, counters | `process`, `close`, `drain`, checkpoint and restore |
| Multi-source graph | `multi_graph.py`, `multi_checkpoint.py` | states of steps and joins, positions and ends of sources, delivery counts, totals | `process`, `close`, `drain`, checkpoint and restore |
| Linear and branching flows | `dataflow.py`, `branching.py` | states of stateful steps | `process`, `run`, checkpoint and restore |
| File connectors | `connectors/files.py` | a staged copy of a file; a published output file and its lock | `stage`, `run_file_journal`, `materialize_file` |
| Multi-source and window-graph journals | `multi_journal.py`, `window_journal.py` and their types | SQLite: head, receipts, operations, outputs | `apply`, `operation`, cursors and pages |
| Window graph | `window_graph.py`, `window_graph_checkpoint.py` | a window fold and the steps around it | `process`, `advance_watermark`, `finish`, `drain` |
| Flow and graph journals | `flow_journal.py`, `graph_journal.py` | SQLite: head and outputs | `advance`, `outputs` |
| Watermark aligner, recovery | `aligner.py`, `checkpoint.py`, `interval_index.py`, `partition.py`, `recovery.py` | open windows, tracked events, watermark; SQLite: state and windows | `ingest`, `flush`, `checkpoint`, `commit`, `resume_events` |
| Interval joins, sessions, clocks | `joins.py`, `sessions.py`, `clock.py` | none | pure functions over floating-point times |
| Models, input formats, presentation | `models.py`, `limits.py`, `errors.py`, `io.py`, `cloudevents.py`, `cli.py`, `report.py`, `benchmark.py`, `demo.py` | none | validation, parsing, output |

### How the parts interact

* A `PartitionedFlowSession` owns a `LocalPartitionedFlow`, which owns a pool. `apply` reads the head
  in one transaction, lets the pool compute a candidate wave **outside** any transaction, and
  publishes it in a second one that looks the request up again and compares the head. Sessions of
  different processes share only the database.
* The parent sends each participating worker one request and then polls; one short-lived I/O thread
  per exchange does the blocking send and receive. `cancel()` comes from any other thread and meets
  the owner at the publication lock.
* A pull helper (`LocalPartitionedFlow.run`) is a generator on the owner's thread. Its caller's code runs
  at every yield and inside the iterator it pulls from; a lease keeps that code off the source position.
* `MultiGraphJournal` and `WindowGraphJournal` apply requests of several commands to a detached runtime,
  outside any transaction, and publish like the partitioned journal. The flow and graph journals and
  the recovery store publish by comparing positions and keep no receipts: after a lost reply their
  callers read the head again and seek.
* `run_file_journal` drives a session with requests whose identifiers are derived from their content;
  `materialize_file` reads the same journal through a cursor and replaces a file under a lock. They
  run in any number of processes.
* The ordered window fold feeds a window fold; the multi-source graph stages joins and stateful
  steps together and replaces all of it at once. Those runtimes are sequential: what is hard in them
  is the long sequence of legal calls (watermarks, partial drains, ends, refusals, restores).

### What makes each part correct

* **Journal**: a request is published at most once; what is retained is admissible to its own readers
  and is never rewritten; every answer is true; nothing is published after a cancel; the journal is
  the one a serial, unsharded flow would have produced; every `apply` returns.
* **Operation journals**: a request takes effect whole, once, on the state the previous one left, or
  not at all; how a drain is cut into requests does not show in rows or state.
* **Stores without receipts**: what is committed is what one uninterrupted run over that prefix of the
  source would have committed, whoever raced, died or lost a reply; the source is finished.
* **Aligner**: the index, the release of identities and the checkpoints are invisible: windows and fates
  are those of an aligner that remembers every arrival.
* **Pull helper**: the lease is returned however the generator ends, and by nobody else; a yielded wave
  is committed before anything more is pulled; a cap is not the end of the source.
* **Readers**: the pages of a cursor are the prefix it captured, whatever is appended meanwhile.
* **Pool**: a published wave was computed to its end by each worker it addressed, no frame of another
  wave is read as its reply, no worker computes a wave twice, every call returns, and nothing of the
  operating system is left behind a close that says it succeeded.
* **Windows**: a row is the fold of exactly the inputs in its interval, emitted once, in order; late
  inputs never reach it; a finished runtime can always be drained to its end.
* **Joins**: rows are exactly the combinations the mode owes, when it owes them.
* **Graphs**: the end of a stream never overtakes its records; outputs of final joins do not depend on
  how the sources interleave; nothing reserved stays reserved.
* **Every runtime**: a checkpoint of any reachable state passes its own restore. Restores recompute
  counters, sizes and ends that the runtime only carries along, so this is the place where a drift of
  the carried values would be noticed, possibly long after it happened.
* **Files**: the journal is a prefix of the file; the published file is a prefix of the journal, moves
  forward only, and holds what every returned call had captured.

What can go wrong in each, at the line where it would, is the `hazards` list of `PROJECT.json`.

## The modules

| Module | Models | Built on |
|---|---|---|
| `Subsequence` | the elements of a sequence that are in a set, as a function of the prefix read | – |
| `PartitionedWave` | one wave as functions: routing, a worker's fold of its items, merging replies, the parent's verification of them, checkpoint admission | `Subsequence` |
| `SerialFlow` | **abstract**: an unsharded keyed flow that consumes its source in order | `Subsequence` |
| `PartitionedJournal` | the journal, its sessions, failures and crashes; refines `SerialFlow` | `PartitionedWave` |
| `PartitionedJournalReader` | cursors and pages | `PartitionedJournal` |
| `PartitionedJournalProofs` | a wave is serial; the inductive invariants of the journal and of its readers, the theorems, the refinement of `SerialFlow` | `PartitionedJournalReader`, `ProofLemmas` |
| `LocalWorkerPool`, `LocalWorkerPoolProofs` | owner, workers, pipes, I/O threads, canceller, cleanup; their theorems | –, `ProofLemmas` |
| `PullHelper` | generators that lease a session to a caller's iterator | – |
| `WindowFold`, `WindowFoldRuntime`, `WindowFoldProofs` | the fold's functions; the runtime and its history; its theorems | –; `Subsequence`; `ProofLemmas` |
| `OrderedWindowFold` | the buffer in front of a fold | `WindowFold` |
| `KeyedJoin`, `KeyedJoinRuntime`, `KeyedJoinProofs` | the join's functions; the runtime and its history; its theorems | –; `Subsequence`; `ProofLemmas` |
| `Dataflow`, `GraphWalk` | steps and the staged transaction of an operation; graphs and the walk through one | – |
| `MultiGraph`, `MultiGraphRuntime` | joins in a graph, ends, restore; the runtime and its history | `KeyedJoin`, `GraphWalk` |
| `WindowGraph` | a window in a graph, drains through the steps behind it, restore | `WindowFold`, `GraphWalk` |
| `OperationLog` | **abstract**: requests take effect whole, one at a time, each identifier once | – |
| `OperationJournal` | a journal of commands over any runtime, its sessions, failures, cursors and pages; refines `OperationLog` | – |
| `MultiGraphJournal`, `WindowGraphJournal` | the operation journal over each of the two graph runtimes | `OperationJournal` and `MultiGraph` or `WindowGraph` |
| `ProofLemmas` | what the proofs share: least naturals, the filter of a sequence, the sum of a function over a finite set | `Subsequence` |
| `OperationJournalProofs` | the operation journal's invariant, theorems and refinement; the proofs that its readers accept what it stores | `OperationJournal`, `ProofLemmas` |
| `FlowJournal` | owners and a consumer of a journal without receipts, over a linear or branching flow | `GraphWalk` |
| `WindowIntervalIndex`, `WatermarkAligner` | the dyadic index of open windows; the aligner, its retention and its checkpoint | `Binding` (naming a value) |
| `Alignment` | **abstract**: windows and fates when every arrival is remembered | `WatermarkAligner` |
| `RecoveryStore` | processes in `resume_events` over one store | `Alignment` |
| `RecoveryProofs` | the theorems about the two stores without receipts | `FlowJournal`, `RecoveryStore`, `ProofLemmas` |
| `FileRunner` | several processes in `run_file_journal` over one journal | – |
| `FilePublication` | several processes in `materialize_file`, beside the runners | `FileRunner` |
| `PullersProofs` | the theorems about pull helpers, file runners and publishers | `PullHelper`, `FilePublication`, `ProofLemmas` |
| `MC*` | the constants of a run; `MCWindowFolds`, `MCPullers` and `MCRecovery` hold the related models of one question, of which a behaviour uses one | the modules named there |

Within a module, a definition whose comment starts with *Deviation:* is a plausible bug in the
definition that follows it. No specification uses one; `PROJECT.json` lists, for each property, the
deviation that breaks it, to show that the property depends on the code.

### State and actions against the code

**PartitionedJournal.** `head`, `commits` and `outputs` are the three tables; `writer` is the session
that holds SQLite's RESERVED lock. Per session, `pc` is the place in `apply`
(`partitioned_journal.py:569-690`): `lookup` is the read transaction (`Lookup`: another journal's
request, a retained receipt, stale generation, position or closed source, or a snapshot in `before`),
`execute`/`hung`/`plan` the computation, `staged` the point between staging and the publication lock,
`begin` waits for BEGIN IMMEDIATE (`Admit` looks the request up and compares the head again),
`written` is after the inserts, `commit` after the last check that may still fail. `Commit` has every
outcome of a COMMIT that may raise although it took effect. `Fail`, `SqlFails`, `Crash`, `Cancel`,
`Close` and `Reopen` may happen wherever the code lets them. The journal is modelled by what its rows
mean: a receipt holds its request and both heads instead of their digests, the keyed state of a key is
the sequence of records its callbacks have seen (so that a lost, repeated, reordered or misrouted
record is visible in every later row), and store bytes are counted in receipts and rows.

**LocalWorkerPool.** `pc` is the place in the owner's call: `spawn` (`_Pool.start`), `enter` and
`dispatch` (`execute`), `poll`/`scan`/`alive`/`join` (`wait`, with the read of `exchange.done` and the
read of `is_alive()` in separate steps, as in lines 365 and 370), `accept`/`verified`/`admit`/`install`
(`_candidate_batch`, `_process_batch`), `loose`/`pipes`/`reap`/`settle`/`end` (`cleanup`). `proc`,
`toChild`, `toParent` and `exchange` are the worker, the two directions of its pipe and the thread on
it. `held`, `pipeClosed`, `procClosed` and `loose` are what the pool still owns. `faults` bounds the
calls into the operating system that are refused. A frame says which wave it answers; its rows are the
subject of `PartitionedWave`.

**WindowFold, KeyedJoin, MultiGraph.** The code's `_stage_*` functions compute a new state and a
result, and the runtime installs it; the models are operators `StageProcess`, `StageDrain`, ... with
the admission of limits beside them (`FoldAdmitted`, `ProcessAdmitted`, ...), and a `...Runtime`
module whose actions are the runtime's methods. A value is the number of the input it came from, so a
row shows exactly which inputs made it. Byte sizes are small weights, since limits only compare sums
of them. In `MultiGraph` an operation is a transaction record `tx` that carries staged states, the work
done, what is reserved for deliveries and the edges' mailboxes; a transaction that met an error keeps
`ok = FALSE` and is discarded (`Raises`), as the code's exception discards its staged copies.

**FileRunner, FilePublication.** `log` is the journal as the runner sees it: the requests in the order
they were published. A request stands for its content-derived identifier, so two processes that stage
the same wave at the same head have the same request. `Turn` picks the next wave or EOF
(`files.py:401-446`), `Lookup`/`Commit` are the two transactions of `apply`, `Inspect` what the
`except` branch does, `Confirm` the comparison of the new position. A publisher takes the lock,
captures a prefix, inspects the previous file, replaces it, releases; it may die anywhere.

**PullHelper.** `place` is where a generator is (`partitioned_flow.py:462-511`): inside `iter`, `next` or
`close` of its iterator, suspended, or at work. `OwnerRuns` says that the owner's other calls happen in
all of those places but the last, which is what the lock `_busy` and one owning thread come to;
`Operable` is the test of `_operation`. `Refuse` is a start before the `try` whose `finally` returns the
lease. A wave is one step here: what goes on inside it is `LocalWorkerPool`.

**OperationJournal.** The four tables are `head`, `commits`, `operations` and `outputs`; per session, `pc`
is the place in `apply`: `Apply` is the first transaction with its early answers, `Run` performs the
commands on a detached runtime, `Observe` is the second look of a request without effect, `Publish` the
comparison and the inserts, with each outcome of COMMIT. The runtime is a parameter: what a command
makes of a state, whether a state restores, and what the readers of a stored row demand of it.
`MultiGraphJournal` and `WindowGraphJournal` supply it, with each journal's own prediction of which
commands take effect, and the replay its readers perform (`JournalSound`). A digest is the document it is
the digest of. The two journals have the same protocol in two files; `map` names the lines of both.

**WindowGraph.** `Fold`s an input that walked the steps before the window, and takes rows out of it one
after the other, each on a walk of its own, until rows, work or bytes are used up (`DrainCap`).

**FlowJournal.** `place` of an owner: outside, holding the point that `latest()` returned, or between the
reading of the head, the slice outside any transaction and the publication. `known` is what the owner
believes of the head: `after` a lost reply it has to read again. A linear flow is a graph in a line; a
page of the consumer keeps its read transaction open, and a database that is not in WAL mode then refuses
a commit. Slices may raise; the joint limits on cells and bytes of several stateful nodes are wide.

**WatermarkAligner, Alignment, RecoveryStore.** Times are integer ticks, so that "the next representable
time" after an instant is the next tick. The aligner's open events are in the dyadic index, its
identities in a table from which a release takes those that no rule needs; `Alignment` remembers every
arrival and says what window rows and fates should be. `RecoveryStore` runs `resume_events`: read the
point, replay from its offset, commit by comparing generation and offset. Three behaviours a reader may
not expect are in the model as they are in the code: a call for no event (`max_new_events=0`, which
`tests/test_recovery.py:61` makes) commits a new generation with the position and state it found;
`checkpoint()` refuses (and with it the commit, for good) when an identifier that was released is sent and
dropped twice; and the limit on streams is enforced by the checkpoint, not by `ingest`.

## What the runs show

| Run | Question | Distinct states |
|---|---|---|
| `journal_safety` | Two sessions race, retry, fail, crash and cancel over three request identifiers and a store that fills up. The journal stays admissible to every one of its own checks, publishes each request once, keeps its history, never answers untruly, and implements `SerialFlow`. | 370,203 |
| `journal_reader` | A reader pages while two writers publish, hang and lose races. The cursor stays readable, its pages are the prefix, which ends between waves, paging ends, and every `apply` returns. | 79,104 |
| `pool_safety` | Two workers and their threads, two waves and one refusal or interrupt anywhere, cancellation at any time. | 4,387,414 |
| `pool_ends` | Every call returns although a worker hangs for ever; an owner that retries `close()` gets rid of everything. | 33,299 |
| `pool_child_reason` | *Violated*: see below. | – |
| `window_folds` | Three geometries (tumbling; hopping with a hop that does not divide the width; sampling with gaps) in arrival order and two in timestamp order, under every order of inputs, watermarks, finish and partial drains. | 221,512 |
| `keyed_join` | All nine modes under limits that four inputs reach, and larger products. | 50,118 |
| `multi_graph` | Four graphs: cascades of final joins and of eager joins with a branch, a merge and stateful steps; the same under limits that bind; a join fed twice by one source. | 14,522 |
| `multi_journal` | Two sessions race, retry, fail and lose replies over requests of one to five commands on a graph with a join, while a reader pages. | 21,659 |
| `window_journal` | The same over a graph with one window, with requests whose drains are cut in different places. | 25,797 |
| `recovery` | The recovery store: every source of four events from a small alphabet under three aligner configurations, races over selected sources, calls for no event, and sources whose checkpoint is refused. The flow journal: two owners with different slices and a consumer, over a linear flow, a branching graph, and a flow that meets a limit. | 180,210 |
| `pullers` | The runners: two processes with different caps and batch sizes and two faults, or one runner with two publishers, one of which may be another journal's and keep the lock for ever. The pull helpers: two of them, their caller, a canceller and two failures over one session and its successors. | 218,391 |

The properties are stated, with the behaviour of the code they are about, next to their definitions.
Those that took the most to get right:

* `JournalSound` (of both kinds of journal) includes the whole admission that the readers of the
  database perform, for every retained receipt. It is what makes the projected store size safe although
  it is measured in a snapshot: whoever publishes first makes the other's comparison fail. In the
  operation journals it includes the restore of every checkpoint and the replay of a commit's causes.
* `AnswersAreTrue`, `AnswerIsTrue` are about the caller: a receipt handed out is retained under the
  caller's own request (or is a no-op that was true of the head it names); a conflict or a validation
  error is never the answer to a request that *is* retained, even if it was published by another session
  while this one executed it.
* `SerialSpec` is a refinement: the requests of `commits` in order are the inputs of a serial flow, the
  output table is its rows. `LogSpec` is another: the receipts of an operation journal are the requests
  that took effect, each of them performed as a whole on the state the previous one left.
* `DrainsAreInvisible`: whatever limits cut the drains of a window graph, rows reach the steps behind the
  window in one order and leave them in one state.
* `JournalIsExact` compares everything that a flow journal has committed (position, state, rows) and
  what its consumer was given with one uninterrupted run over that prefix. `AlignmentIsExact` does the
  same for the recovery store (offset, state, windows), and compares the aligner with `Alignment`, its
  index with a scan and its checkpoint with itself restored; `RestoreIsInvisible` and `AlignerIsExact`, an
  assumption of `MCRecovery` that TLC evaluates for every task, say it of the aligner alone, restored at
  every event. `PrefixCompletes` says that owners who
  look again after each failure get to the end, of every source of which an uninterrupted aligner refuses
  neither an event nor the end, and that has no identifier to report twice and no stream too many
  (`SourceRefused`): these two the checkpoint refuses for good, and they are the only ones.
* `SourceIsPrefix` joins what the two pulling programs promise: `JournalIsFilePrefix` (with the caps and
  the returned points of competing calls) and `PullIsExact` (`LeaseIsExact`, `HolderMovesAlone`,
  `PulledInOrder`, `PullsOneWave`). `NothingIsLost` says it of single steps: a published wave is never
  reported as an exception because its reply was lost, and nothing is pulled ahead of a yield.
* `OutputsIgnoreInterleaving` compares the outputs of any history of a graph of final joins with those
  of one canonical run of the same records.
* `OnlyLimitsRefuse` would be violated by a record that meets a join side that has already ended, by a
  drain that cannot be delivered, or by a reservation that is never settled.

### A disagreement with the documentation

`docs/local-partitioned-flow.md:79-80` says that a control exception in a child is reported as
`control`. In `_Pool.wait` the loop reads `exchange.done` (line 365) and, if it is not set,
`process.is_alive()` (line 370). If the worker's frame arrives and the worker exits between these two
reads, the wave fails with `worker_died` although the report is there. `pool_child_reason` shows the
interleaving. The wave fails either way and nothing is published; only the reason is lost.

### Bounds

All bounds are constants of the `.cfg` files and `MC` modules.

* *Journal*: two sessions are enough for a race, and every session may close or crash and be reopened,
  so that there are arbitrarily many one after the other. Three identifiers let a session retry, reuse
  an identifier for another request, and lose to one it has not seen. `MaxHistory = 3` and
  `StoreBudget = 6` give up to three generations and reach the refusals of both. Requests cover every
  expected generation and start that a caller can have observed, and some it cannot. Two workers, two
  keys and records with one and two rows show misrouting, loss and reordering; the liveness run adds
  nothing but fairness and uses one wave and one identifier.
* *Reader*: up to three waves and an EOF; pages of one and of three rows. A page whose byte limit is below
  its first row is refused with the cursor as it was; the pages of the model admit one row.
* *Pool*: two workers, since the polling loop treats one worker relative to another (one done, one not;
  one dead, one alive); two waves, for the late answer of the first; one fault in the safety run, two
  in the liveness run with one worker, since a cleanup that fails may fail again.
* *Windows and joins*: two keys, timestamps chosen around window boundaries (negative ones included),
  limits tight enough to be reached by the inputs of a run: each of the state, row and batch limits is
  reached by some configuration.
* *Graphs*: four inputs from three sources, or five from two: enough for two values on both sides of
  each join of a cascade and for an end before, between and after them.
* *Operation journals*: two sessions; in `multi_journal` two identifiers that any request may use and one
  for a late one, in `window_journal` one identifier for each request, some with a second content or at
  several heads; requests of one to five commands that are effective as a whole, in part or not at all, so
  that several generations follow each other; one cursor, pages limited by rows, by bytes and by the
  operations they touch.
* *Recovery and flow journals*: sources of up to four events or records; the alphabet of events has
  instants and intervals in, between and across windows, two streams, late ones and one that overlaps
  many windows; the three configurations drop, accept and refuse late events, and retain as little as
  allowed. In the races each process may fail once, and one owner of a flow: whatever a second failure
  meets is a state that a call by another process meets. Calls for no event begin below generation
  `MaxIdle` = 2, since each of them is a generation and nothing else would bound these: on an empty store,
  after one another, after a batch, and against a call that is replaying. A flow is advanced in slices of one to three records; the third flow meets a limit.
* *Pullers*: a file of four records with one wave cut by size, caps that end a call before, at and after
  the end of the file, two faults; for the helpers a source of three records, one helper whose cap is
  larger and one whose cap ends inside the source or at its end, and two failures. Sessions follow each
  other without bound.

`journal_safety` uses the symmetry of sessions and of request identifiers; it checks no liveness.
`CHECK_DEADLOCK FALSE` appears in `window_folds`, whose owner may stop after the last input, and in
`multi_journal` and `window_journal`, whose callers may stop when every request has been answered; in the
other models there is always something left to call. `multi_journal` uses the symmetry of sessions and of
the two identifiers.

### Fairness

* `ApplyReturns`: weak fairness of the owner's own steps. Every wait of `apply` is bounded: by the wave
  deadline (`_Pool.check`) or by SQLite's busy timeout, after which a failure step is enabled. Nothing
  is assumed of callers, workers or other sessions.
* `PagingEnds`: weak fairness of the reader's next page, which admits one row; nothing of writers.
* `CallReturns`: weak fairness of the owner, of the clock (the deadline passes) and of threads whose
  system call can end; nothing of workers, which may hang with a full pipe. `CloseSucceeds` further
  assumes, as the premise `Retries`, that the owner calls `close()` (or the cleanup handle's `close`)
  again as long as it fails. Refusals of the operating system are bounded by `MaxFaults`.
* `EveryCallEnds`: weak fairness of a call's own steps, for processes that are not killed, and for a
  helper also of the iterator it is in, which is the caller's and not bounded by the code. `CallersCatchUp`
  has as its premise that callers call again (`CalledForEver`) and that the publisher of the other journal
  stays away, since one that keeps the lock makes every call time out.
* `PrefixCompletes`, recovery store: weak fairness of a process's own steps and of calling
  `resume_events` again; that a process is not called for no event only, and for no event only so often
  (`MaxIdle`): each such commit is a new generation, so that whoever makes them for ever can make every
  other call conflict for ever. Flow journal: weak fairness of an owner that reads, looks at the head and begins
  or commits, and of calling again; that it comes out of its callbacks again and again; for the
  consumer, that it opens pages, and strong fairness of its next row, which a commit may delay but not for
  ever. A page that is never closed would keep commits away: the code's callers must close it.
* `FoldsClose`, `EndsClosed`: the owner goes on draining. They show that no limit ever keeps a
  drain from making progress. In `multi_graph` the assumption is spelled out (`DrainingSpec`) and the
  property is stated for graphs whose limits are wide: a graph limit may refuse a drain for ever, as
  `docs/multi-source-graphs.md:125` says.

## Proofs

### The partitioned journal

`PartitionedJournalProofs` holds for any number of sessions, workers, keys, records and requests, for
any flow, routing, history bound and store budget. Assumptions: `WaveAssumption` (at least one worker,
routing and keys are functions, a batch limit of at least one) and `JournalAssumption` (requests are
well-formed and their positions within the history bound; this is what the request's constructor
validates). TLC evaluates both in every run of the module.

| Theorem | States |
|---|---|
| `TypeCorrect` | `[]TypeOK` |
| `Invariance` | `[]IInv`, the inductive invariant |
| `JournalAlwaysAdmitted`, `RequestsPublishedOnce`, `InsertsNeverCollide`, `OutputsAlwaysInReceipts`, together `JournalStaysSound` | `[]JournalSound` and its four parts |
| `HistoryAlwaysKept` | receipts and rows are only appended, nothing after EOF |
| `CancelledAreSilent` | nothing is published after `cancel()` returned |
| `ReceiptsAlwaysHold`, `RefusalsAlwaysHold`, together `AnswersStayTrue` | every answer is true |

The argument. None of the properties is inductive alone: what a session publishes was computed from a
snapshot it no longer holds, so the invariant has to say what a snapshot and a plan mean *after* the
journal moved on. `IInv` is `TypeOK` and

* `JournalInv`: the journal is admissible, and every retained receipt is `Computed`: executing its own
  request at its own before boundary gives its after boundary again;
* `SnapshotInv`: a session's snapshot is the head the journal had at that generation (`PointAt`), and
  the request was written for it; this survives publications of others because history is only
  appended;
* `PlanInv`: a plan is the request executed on the snapshot, and fits the store measured there;
* `AdmittedInv`: from the comparison in `Admit` to COMMIT the snapshot is the head, the identifier is
  not retained, the session holds the RESERVED lock and is not cancelled.

`InstallPreserves` is the heart: appending a plan that satisfies `PlanInv` and `AdmittedInv` keeps
`JournalInv`. `OwnKept` and `OthersKept` say what a session's own step and another session's step do to
its three invariants. That a refusal is always true (`RefusalsAlwaysHold`) needs `RetainedFits`: a
retained request can be neither stale nor after EOF nor too large, because the head it was published at
was not.

These proofs use nothing about what a wave computes except the verification the parent performs
(`BatchAdmitted`), so they hold for any worker, also for one that computes nonsense the parent cannot
detect. What a wave computes is the subject of the refinement.

### The journal as a serial flow

| Theorem | States |
|---|---|
| `WaveIsSerial` | the candidate batch of a wave is what one runtime computes from the whole batch |
| `JournalImplementsSerialFlow` | `SerialSpec`: the journal implements `SerialFlow` |

They hold for any number of workers, any routing of keys to them, any rows per record and any batch size,
from `WaveAssumption` (the constants have their types, and there is a worker) and `JournalAssumption`.

The argument for a wave. `Share` is what a worker is sent: the inputs of the keys routed to it.
`RepliesHold` follows the inputs one by one: a worker's reply to its share of the first `m` inputs has
the rows of exactly those inputs, in order, and for each of its keys the cell that one runtime would have
after `m` inputs. An input reaches one worker, so nothing is emitted twice; the cell of its key is with
that worker, so the row is the right one. `SerialRowsHold` says the same of the rows of one runtime. Both
are then the same *set* of rows in the one order that `RowBefore` allows: `PlacesAreIndexes` numbers the
rows of all replies by their place in the serial list, and `MergeIsRows` concludes that sorting finds it.

The argument for the journal. `SerialInv` is the refinement's invariant beside `IInv`: the head has
counted every retained input, and the cell of each key, at the shard it is routed to, holds the inputs of
that key. A publication extends the journal by one wave computed from the head (`IInv` has this at COMMIT),
so `WaveConsumes` applies `WaveIsSerial` to it and finds the abstract `Consume`; `EofCloses` finds
`CloseSource`; every other step leaves the three tables alone and is a stutter. Note that the sum of a
shard's counters plays no part: had a wave lost a record and the parent not noticed, `IInv` would still
hold and `SerialInv` would not.

The prover cannot instantiate an induction theorem, so the folds over data that these proofs follow
(`Filtered`, `WorkerExecute`) are recursive functions of the length of a prefix, and each induction is an
argument about the least length at which the claim would fail (`LeastNatural`).

### The readers of the journal

The last part of `PartitionedJournalProofs` holds for any number of readers beside any sessions, with any page
sizes. It rests on the theorems above and on `ReaderAssumption` (a page limit is a positive number).

| Theorem | States |
|---|---|
| `ReaderInvariance` | `[]ReaderInv`, the inductive invariant |
| `PagesStayPrefix` | `[]PagesArePrefix`: a page is never refused, and pages return the captured prefix |

The argument. A cursor keeps a generation, a digest and two positions, while the tables grow. `CursorInv`
and `PrefixInv` say what they still mean: the receipt is retained, its end is the cursor's stop, the
rows up to the stop are those of the generations up to the anchor, and no input has rows on both sides of
it. `CollectedInv` says that what was returned is a piece of that prefix. All of it is about history, which
`PrefixKept` shows to be only appended to. A page also compares neighbours, and the two may come from
different waves: `RowsFollow` is that any two neighbours in the table pass. Within a wave they do because
the parent verifies the order of what it merges (`BatchAdmitted`), and across a publication because the
new rows are of inputs after every old one and begin with ordinal 0.

### The worker pool

`LocalWorkerPoolProofs` holds for any number of workers, waves and refusals of the operating system
(`PoolAssumption`: there is a worker, and the bounds are naturals).

| Theorem | States |
|---|---|
| `Invariance` | `[]IInv`, the inductive invariant |
| `SessionStaysSound` | `[]SessionSound` |
| `NothingIsReplayed` | `NoReplayNoLateWave`: a worker takes up each wave at most once and in order, and nothing is published once the session is cancelled |

The argument. The owner, the workers, the I/O threads, the clock and the canceller interleave at every
step, so the invariant is a map of places: for each place of the owner, `Place` says where a worker and
its exchange may be. A worker is `Fresh` before it is spawned, `Quiet` while nothing was sent to it, and
`Busy` during an exchange, which is `Sent`, `Queued`, `Computing`, `Answered`, `Heard`, `Lost` or `Cut`.
After a failure the session makes no promise but to release everything: `CleanupInv` and
`ClosedIsReleased` say what each place of `cleanup` has got rid of. `WorkersInv` is what holds in all
phases: a worker has at most one request ahead of it, and never one it has already taken up
(`RequestIsNew`), which is why no failed wave can come back. `LinkStepKeeps` covers all steps of workers
and threads at once; the owner's steps change one exchange at a time and leave the others where they are
(`OthersStay`). `IInv` was checked with TLC on the instance of `pool_safety` before it was proved.

### The operation journal

`OperationJournalProofs` holds for any runtime, any number of sessions, any requests and limits. Its one
hypothesis, `RequestsAdmitted`, is that a request's commands are a finite sequence; TLC evaluates it for
the requests of both runs.

| Theorem | States |
|---|---|
| `Invariance` | `[]IInv`, the inductive invariant |
| `RequestsTakeEffectOnce` | no two receipts carry one identifier |
| `AnswersAreTrue` | `[]AnswerIsTrue`: receipts, conflicts and refusals are true when they are given |
| `ReceiptsFormOneChain` | receipts lead from the initial head to the current one, each from where the last ended |
| `JournalImplementsLog` | `LogSpec`: the journal implements `OperationLog` |

The argument. `IInv` is `CallTypes`, `JournalInv` (the receipts are a chain, and each is what performing
its request on its own before-head comes to), `PublishedOnce`, a `CallInv` for every session (the head it
started from is one that the journal had, and its plan is what performing its request there came to,
wherever the journal is by now), and `AnswerIsTrue`, which needs the others at the step that answers.
`InstallKeeps` is the heart: at the comparison the old head of the plan *is* the head. For the refinement
the journal's bookkeeping has to be the log's: the journal decides by counters that a command had an
effect, the log by the state. `RuntimeCounts(States)` says when the two agree: on a set of states
that contains the initial one and is closed under the commands, a command that is not counted leaves the
state as it is and has no outputs. It is a hypothesis of
the theorem, and `RuntimeCounted` in both MC modules has TLC evaluate it for the two real runtimes on the
closure of the states their commands reach. `RunIsPerformance` then shows, one command at a time, that
the two folds agree, and `InstallIsPublish` that the publishing step is the log's only step. For the
graph with a window nothing but these hypotheses is left to check, so `window_journal` does not check
`LogSpec` again; `multi_journal` does.

The second half of the module proves what depends on the runtime.

| Theorem | States |
|---|---|
| `JournalStaysSound` | `[]JournalSound`: the whole admission of the readers holds of what is stored |
| `PagesStayReadable` | `[]PagesArePrefix`: a cursor stays readable, page after page, whatever is published after it |

Its hypothesis `Runtime` adds two things to those above. `BoundsAdmitted` is what the constructors of a
request, a cursor and a page validate, and that the metadata of one receipt fits a page
(`_MAX_COMMANDS <= _PAGE_METADATA_ROWS`). `RuntimeExplains(States, Stretches)` says what a runtime has to
do with the checks its journal makes of stored rows: there is a set of *stretches*, from a state by a
list of causes to a state, which contains the empty ones and is closed under commands, and whatever is a
stretch advances and is reproduced; every state restores; a command counts its outputs, and they follow
each other. TLC evaluates it as `RuntimeExplained` for both real runtimes, on all states and stretches
that the commands of the runs reach. So the theorem separates the two questions: that the protocol
never mixes up whose operations belong to which receipt is proved for every history, and that the two
runtimes keep their part is checked on their reachable states.

The argument. `RowsInv` says that each receipt's operations are those its request performs on its own
before-head (`Retraced`), that every row belongs to a receipt and every output to a row
(`OperationCovered`, `OutputCovered`), and that heads only go forward. `RunExplained` goes through a
request one command at a time; `InstallKeepsRows` shows that a publication extends all four tables by one
explained run. From this follow the checks one by one: a receipt (`ReceiptAccepted`, `ChainAccepted`), its
operations and their replay (`CommitAccepted`), the head (`HeadAccepted`). For the pages, `CursorHolds`
anchors a cursor to a receipt, as for the readers above; a row before the stop belongs to a generation up
to the anchor because heads go forward (`RowAccepted`), and one row always fits (`SomePageFits`), because
the one receipt whose metadata it needs is no longer than a request.

### The pull helper

The first half of `PullersProofs` holds for any number of helpers, any source, caps, batch sizes, owners of iterators and
number of failures. Its hypothesis, `PullConstants`, is what `run` validates of its arguments; TLC
evaluates it for the constants of `pullers`.

| Theorem | States |
|---|---|
| `PullStaysExact` | `[]PullIsExact`, the helpers' part of `SourceIsPrefix` |
| `YieldsStayCommitted` | `YieldsAreCommitted`, the helpers' part of `NothingIsLost` |
| `PullsWithinBounds` | a helper takes at most its cap out of the source, and at most a batch ahead of what is published |

The argument. `PullIsExact` says that a helper's `values` are as many as were taken and not published; to
be inductive it has to say which (`HoldingInv`: exactly the records between the position and what the
source has handed out), that there is room for them in the cap and the batch, that a helper which saw the
end of its iterator saw the end of the source, and that one at a yield holds none. `LeaseIsExact` does the
rest: a step of the holder disturbs nobody else's part (`HolderKeeps`), the owner's own calls need the lease to be free
(`UnleasedKeeps`), and a helper that never started returns nothing (`NeverStartedKeeps`; with
`RefuseAndRelease` in its place this step fails). A helper that owns its iterator ends in two steps, so
`YieldsAreCommitted` needs `EndInv`: what will be reported was already true when the iterator's `close`
was entered, and `OthersRest` keeps it until that returns.

### The flow journal

The first half of `RecoveryProofs` holds for any graph of steps and branches, any source, any number of owners with
any slices, and any number of faults. Its hypothesis is `FlowsHold`: the limits are naturals, and every
flow satisfies `FlowAdmitted` (an owner's slices and a page are within the journal's limits) and
`RuntimeKept`. The latter is what the journal relies on from the runtime below it, on the states that the
serial run reaches: a checkpoint restores to the state it was taken of, and the rows of one record come
from nodes without consumers, in the order of the nodes. TLC evaluates both for every flow of the run
`recovery`, as an assumption of `MCRecovery`.

| Theorem | States |
|---|---|
| `FlowInvariance` | `[]FlowInv`, the inductive invariant |
| `JournalStaysExact` | `[]JournalIsExact` |
| `JournalAlwaysAdvances` | `JournalOnlyAdvances`: a commit is one generation, moves the source on and only adds rows |

The argument. The serial run (`Serially`) and a slice (`Sliced`) are functions of the number of records,
each defined from the one before (`SerialSteps`, `SliceRuns`). `SliceIsSerial` is the heart of the
computation: a slice that starts at a point of the serial run and raises nothing ends at another one, with
the rows in between. The heart of the protocol is that no lock is held while it is computed.
`Seen` says what a point read some time ago still means, whoever published since: it is a point of the
serial run, not after the head, and equal to the head if the generations are. `Planned` says that a
finished call leads from the point it read by the rows in between. So the comparison at the commit tells
that the point *is* the head, and `PublishedIsSerial` that the result is the head of the serial run.
`RowsAtHold` and `SerialHolds` show that every row of the serial run passes the reader's checks, and the
consumer's rows are the beginning of a table that is only appended to. `FlowInv` was checked with TLC
on the flows of `recovery` before it was proved.

### The recovery store

The second half of `RecoveryProofs` holds for any number of processes, any configurations and sources, any batches,
allowances (no event included) and faults, and any `MaxIdle`, under `RecoveryHolds`: the calls are admitted
(`TasksAdmitted`, what `resume_events` and the configuration validate), a restored aligner
cannot be told from one that was not (`RestoreIsInvisible`), and one aligner that nobody interrupts is right
about its arrivals (`AlignerIsExact`). The last two are about the sequential aligner alone, for one
configuration and one source: no process, commit, point or failure occurs in them. They are recursive in the
source, so they are not proved but evaluated by TLC, for every task of `recovery`, as an assumption of
`MCRecovery`.

| Theorem | States |
|---|---|
| `StoreInvariance` | `[]StoreInv`, the inductive invariant |
| `StoreStaysExact` | `[]AlignmentIsExact` |
| `StoreAlwaysAdvances` | `StoreOnlyAdvances`: a commit is one generation, moves on or closes the source, or is that of a call for no event and stores again the state it found; it only adds windows |

The argument. `Uninterrupted` is one aligner on the first events of a source, `Held` the set of aligners that
calls may have in their hands there: whatever was ingested and, at any event, taken to a checkpoint and back.
`WholeSteps` and `HeldSteps` give both one event at a time. `StoreInv` says that the stored point `Stands`,
which is to be one that the uninterrupted call would store, with the windows closed up to it, and that a call
in progress holds one of those aligners and the windows closed since it last committed (`Replaying`; after
the flush at the end, `Flushed`). No lock is held while a call replays, so `Placed` says what its generation
still means whoever has committed meanwhile: *if* it is that of the stored point, the call went on from that
point's position. `OneMore` is an event, `CommitStands` that what a call commits is a point that stands,
`CommitStores` that with the comparison of generations the windows are then those of the uninterrupted call,
and `OtherCallersStay` that a later point leaves the other calls and the answers what they are: none of them has the
new generation, and none was answered with a closing point, after which no commit is admitted. A call commits
the end of its source, or a part of it, and then it has some event since its last commit or was asked for none
(`Pausing`). In the last case the checkpoint of the restored aligner is the one it was restored from, since
both are the uninterrupted aligner's at that position, which gives `StoreAlwaysAdvances`. TLC checked `StoreInv`
over the races, idle calls and refused checkpoints of `recovery` before it was proved.

### The window fold

`WindowFoldProofs` holds for any keys, any configurations that `WindowFold.__post_init__` and its limits
admit (`WindowAssumption`, which TLC evaluates for the arrival-ordered ones of `window_folds`), any
timestamps, late or not, and any drain sizes.

| Theorem | States |
|---|---|
| `FoldInvariance` | `[]FoldInv`, the inductive invariant |
| `WindowsStayExact` | `[]WindowsExact`: rows and cells hold what they owe, once, in order, whatever was drained when |
| `CountersStayTrue` | `[]CountInv`, the inductive invariant of the counters |
| `CheckpointsAlwaysRestore` | `[]CheckpointRestores`: every reachable state passes its own restore and comes back the same |

The argument. `Geometry` is the arithmetic: the indices first .. last, computed by rounding two divisions
down, are exactly the windows whose interval holds the timestamp, so that an input contributes to a window
if and only if the window's row owes it (`ContributionsNext`). `WindowsExact` is nearly inductive. What it
lacks is that whatever was emitted has *passed*: the runtime is finished, or the window ended at the
watermark. An input that is folded is not behind the watermark, so it lies in no emitted window
(`FoldStep`), and a cell that it creates is created for the first time: were it not, the earlier
contribution would be retained or emitted. For a drain, the identities of a finite set have the ranks
0, 1, ... in the order of windows and keys (`RankOrders`, `RankReached`), which gives the rows one by one
(`DrainedAre`), and what a drain selects precedes what it leaves, whether that is pending or not yet
(`SelectedFirst`). TLC checked `FoldInv` and `CountInv`, below, over the arrival-ordered states of `window_folds`
before they were proved.

The restore demands of a checkpoint a dozen equations and bounds between counters that the runtime only
carries along; `CountInv` says that they hold. An input lies in at least `Low` and at most `High` windows,
the two roundings of width over hop (`LowAndHigh`, `MembersCounted`), so the updates lie between so many
times the folds, and where windows leave no gaps no input falls into one. A fold changes the cells of one
key: `FoldedSums` splits the sums of counts and of sizes over the cells into those that stay, those that grow
and those that are new. So the updates grow by the number of windows, and the size carried along, which the
code adjusts by the difference of the touched cells, remains the one measured. A drain takes with every row
between one contribution and as many as there were folds, since no cell's count exceeds these
(`CountDrain`). The limits on keys, windows and bytes are established where a fold is admitted, and kept by
everything else, which only removes cells.

### The keyed join

`KeyedJoinProofs` holds for any keys, at least two sides of any weights, any configurations that `KeyedJoin`
and `JoinLimits` admit (`JoinAssumption`, which TLC evaluates for those of `keyed_join`), any drain sizes
and any order of inputs, ends and drains.

| Theorem | States |
|---|---|
| `JoinStaysExact` | `[]JoinExact`: each emission holds every combination of what was owed once, when it is due |
| `CountsStayTrue` | `[]CountInv`, the inductive invariant of the counters |
| `JoinCheckpointsRestore` | `[]CheckpointRestores`: every reachable state passes its own restore and comes back the same |
| `DrainsTakeKeys` | in a draining state every drain selects at least one key, for any limits |

The argument. Row number n of a key takes from each side the value at a digit of n in the mixed base of the
sides' lengths. `DigitsReach` and `DigitsDiffer` say that n counts through all combinations of digits, each of
them once, from which `RowsArePicked`: the rows are the combinations of what the sides offer, none twice
where no side repeats a value. What is owed is a filter of the whole history (`View`), so the other half says
how it changes by one input: `ViewGrows` shows that inserting into the cell of the input's key, and into no
other, keeps cell and view equal, for all three ways of inserting, and `MatchGrows` that a match makes the key
start anew. `JoinInv` adds to `JoinExact` that while the join is open a key without a cell is owed nothing, that
all that was emitted by a final join precedes all that it retains, and that only a final join drains. For a
drain, `SelectedFirst` shows that what fits a batch is an initial run of the keys, because the sums of rows and
bytes only grow, and `InOrderSorts` that a finite set of keys is emitted in order, each key once. TLC checked
`JoinInv` and `CountInv`, below, over the states of `keyed_join` before they were proved.

The restore of a join demands more than it can see: a checkpoint has the inputs per side, the rows emitted and
the cells, and from_checkpoint derives from these what must have been consumed. `CountInv` says that its
bounds hold, by relating them to what the checkpoint does not have, the number of emissions of a final join
(`DrainedTrue`). An input changes the cell of one key, so every sum over the cells changes by that cell's
difference (`CellReplaced`); an input that completes a key consumes at least one value of every side and
emits at most a key's rows, hence the bound by the side that consumed least (`EmittedTrue`). A drain takes of
each key at least one row and at most a key's, and of each side no more values than rows, since a side is
never longer than the product of all (`RowCountTyped`, `DrainMeasures`). The sum of what was consumed over
the sides is the inputs without the values retained, by summing the lengths of the cells once by key and
once by side (`SumsExchange`, `ConsumedSum`); that is what bounds the rows of a final product join.

That a drain is never in vain is the safety half of `EndsClosed`: `DrainSelects` shows that the least key fits
every batch by itself, as its cell was admitted within `rowsPerKey`, which the configuration keeps below
`rowsPerBatch`, and within `batchBytes`. That the drains do come, and end, is left to TLC.

### Runners and publishers

The second half of `PullersProofs` holds for any number of processes, any file, caps, batch
sizes and limits, any rows per record, and any number of faults. Its assumptions, `RunnerAssumption` and
`PublicationAssumption` (the arguments have the types that the functions validate, and a longer prefix of
the file has at least as many rows), are evaluated by TLC in `pullers`.

| Theorem | States |
|---|---|
| `JournalStaysFilePrefix` | `[]JournalIsFilePrefix`, the runners' part of `SourceIsPrefix` |
| `LostRepliesAreReconciled` | `LostReplyIsReconciled`, the runners' part of `NothingIsLost` |
| `FileStaysPrefix` | `[]FileIsPrefix` |
| `FileMovesForward` | `FileOnlyMovesForward` |

The argument. `RunnerInv` says of every call under way what its request meant when it was made
(`WellAsked`): the journal was at that position then, the position is the call's start plus what it has
counted, and the wave fits both the file and what is left of the cap. Others may append at any time, but
what was recorded of a generation stays (`HistorySurvives`), so a request goes on meaning that.
`PublishKeeps` is the heart: at the comparison the generation *is* the one of the request, so the receipt
goes on where the journal ends, and it cannot follow EOF because `Lookup` found none. The cap is stated as
an interval: what a call publishes lies within its cap after its start.

For the file, `SinkInv` says that the lock is held by exactly the publisher between capture and release,
so that what it found before replacing is still there; that every captured or published header is that of
a retained generation (`HeaderIsTrue`, which growth of the journal does not change, by `HeaderSurvives`);
and that the file's generation is not after the one its holder captured. With `StopsGrow` this gives that
no publisher ever finds its own journal's file ahead of it (`PreviousIsBehind`).

### What remains with TLC

That the two graph runtimes satisfy `RuntimeExplains`, that the flow's runtime satisfies `RuntimeKept`
and the aligner `RestoreIsInvisible` and `AlignerIsExact`, which are about their own restores, walks and
replays; `DrainsAreInvisible`; all liveness, which needs fairness and ENABLED; and every property of the
ordered window fold and the multi-source graphs.

## What is not shown

* Not modelled, `PROJECT.json` gives the reason for each: interval joins, sessions and clocks, which are
  functions over floating-point times; `align_events` and `detect_gaps`, which are functions of a finished
  list, and the label partitions; staging a file, which is file I/O on a private copy; the `run()` helpers
  of the sequential runtimes, generators over `process` without a lease; input formats, command line,
  reports, benchmark and demo.
* In `FlowJournal`, the codecs and checksums of documents, and the limits that several stateful nodes
  share on cells and bytes (they are checked in `MultiGraph` and `WindowGraph`).
* That a failed operation of a multi-source graph leaves the graph alone is by construction, in the code
  (a walk works on copies, and one assignment at its end replaces the state) as in `MultiGraph`: no run
  tests it.
* In the aligner, the affine drift of a stream's clock: a stream has an offset only.
* Out of scope: wire formats, canonical JSON and digests (a digest is the document it is the digest
  of; that two documents never share one is assumed), floating-point arithmetic, validation of
  arguments, file-system permissions; callbacks are the user's and are modelled as
  functions without side effects.
* SQLite is assumed to give serialisable transactions, atomic durable commits, and at most one holder
  of the RESERVED lock. `os.replace` is assumed to be atomic.
* Byte budgets are counted in units, so a property about a budget shows that the code compares the
  right sums at the right time, not that its formula for a size in bytes is right.

## Plan

What is left, in this order:

1. *More proofs*: a walk of a graph delivers in the order of the nodes, which is the second half of
   `RuntimeKept`; what `KeyedJoinProofs` shows of one join carried over to the joins of a graph.
2. *More of the aligner*: `align_events` and `detect_gaps` against `Alignment`; the drift of clocks as a
   piecewise map of ticks.
3. *Sessions and interval joins* over integer ticks, as operators compared with reference definitions.

## Running it

    tlc -workers 2 -config MCJournalSafety.cfg MCPartitionedJournal
    tlapm PartitionedJournalProofs.tla

`runs` in `PROJECT.json` pairs each configuration with its module.
