--------------------------- MODULE LocalWorkerPool ---------------------------
(***************************************************************************)
(* One LocalPartitionedFlow: its owner thread, the spawned worker          *)
(* processes with a duplex pipe each, the I/O thread of every exchange on  *)
(* a pipe, and a thread that may cancel the session.                       *)
(*                                                                         *)
(* A wave dispatches one request to each participating worker and then     *)
(* polls their exchanges until all are done, one is broken, a worker is    *)
(* dead, the deadline has passed or the session is cancelled.  Whatever    *)
(* ends a wave early fails the session and cleans the pool up.  What the   *)
(* workers compute is PartitionedWave's subject: here a wave is its        *)
(* number, and a frame says which wave it answers.                         *)
(*                                                                         *)
(* Workers reply, report an error, hang (take no step) or die at any time; *)
(* close(), kill(), Process.start() and Thread.start() may fail.           *)
(***************************************************************************)
EXTENDS Naturals, Sequences, FiniteSets

CONSTANTS
    Workers,    \* number of worker processes
    MaxWaves,   \* bound on the waves a session publishes
    MaxFaults   \* bound on refusals of the operating system and interrupts

ASSUME PoolAssumption ==
    /\ Workers \in Nat \ {0}
    /\ MaxWaves \in Nat
    /\ MaxFaults \in Nat

Worker == 0 .. Workers - 1

VARIABLES
    \* the session
    point,       \* waves of the published checkpoint
    eof,         \* the published checkpoint is source-closed
    phase,       \* starting, ready, failed, closing or closed
    built,       \* the constructor returned the session to its caller
    cancelled,   \* the cancel event
    \* the owner's call in progress
    pc,          \* where it is
    op,          \* start, wave, close or handle (LocalWorkerCleanup.close)
    active,      \* workers the wave addresses
    todo,        \* workers its current loop has still to visit
    waiting,     \* the polling loop has met an exchange that is not done
    expired,     \* the deadline of the call has passed
    errors,      \* the cleanup in progress has met an error
    failure,     \* the exception a start or a wave raises: reason and worker
    \* a worker: its process, the last wave it took up, a SIGKILL on its way
    proc, wave, doomed,
    toChild, toParent,   \* the two directions of its pipe
    exchange,    \* the exchange of its pipe and where the exchange's thread is
    \* what the pool owns
    held,        \* none, unstarted (a member without a process) or started
    pipeClosed, procClosed,
    loose,       \* _loose_pipes: pipe ends still to be closed
    faults       \* refusals met so far

session == <<point, eof, phase, built, cancelled>>
call == <<pc, op, active, todo, waiting, expired, errors, failure>>
child == <<proc, wave, doomed>>
pipe == <<toChild, toParent>>
owned == <<held, pipeClosed, procClosed, loose>>
vars == <<session, call, child, pipe, exchange, owned, faults>>

NoFailure == [reason |-> "none", worker |-> 0]

Frame == [kind : {"ready", "ok", "callback", "control", "contract"}, wave : Nat]
NoFrame == [kind |-> "none", wave |-> 0]
Broken == [kind |-> "broken", wave |-> 0]

\* An _Exchange and its thread; done is set when the thread is ending.
NoExchange == [stage |-> "none", payload |-> 0, result |-> NoFrame]
Receiving == [NoExchange EXCEPT !.stage = "recv"]

Sending(n) == [stage |-> "send", payload |-> n, result |-> NoFrame]
Unstarted == [NoExchange EXCEPT !.stage = "unstarted"]

Done(w) == exchange[w].stage \in {"ending", "dead"}
ThreadAlive(w) == exchange[w].stage \in {"send", "recv", "ending"}

Alive(w) == proc[w] \notin {"none", "dead"}

\* Nobody holds the worker's end of its pipe any more.
PeerGone(w) == proc[w] \in {"exit", "dead"} /\ <<w, "child">> \notin loose

Least(S) == CHOOSE w \in S : \A v \in S : w <= v

Init ==
    /\ point = 0 /\ eof = FALSE /\ phase = "starting" /\ built = FALSE
    /\ cancelled = FALSE
    /\ pc = "spawn" /\ op = "start" /\ active = Worker /\ todo = Worker
    /\ waiting = FALSE /\ expired = FALSE /\ errors = FALSE /\ failure = NoFailure
    /\ proc = [w \in Worker |-> "none"]
    /\ wave = [w \in Worker |-> 0]
    /\ doomed = [w \in Worker |-> FALSE]
    /\ toChild = [w \in Worker |-> <<>>]
    /\ toParent = [w \in Worker |-> <<>>]
    /\ exchange = [w \in Worker |-> NoExchange]
    /\ held = [w \in Worker |-> "none"]
    /\ pipeClosed = [w \in Worker |-> FALSE]
    /\ procClosed = [w \in Worker |-> FALSE]
    /\ loose = {}
    /\ faults = 0

-----------------------------------------------------------------------------
(***************************************************************************)
(* The owner's control flow.                                               *)
(***************************************************************************)

Fault(n) == faults + n <= MaxFaults /\ faults' = faults + n
NoFault == UNCHANGED faults

Goto(label, rest) ==
    /\ pc' = label
    /\ todo' = rest
    /\ UNCHANGED <<op, active, waiting, expired, errors, failure, session>>

\* The locals of a start or a wave are gone.
CallOver == active' = {} /\ todo' = {} /\ waiting' = FALSE /\ expired' = FALSE

\* Deviation: the exception keeps the session and its workers for a retry.
RaiseStayingReady(reason, w) ==
    /\ failure' = [reason |-> reason, worker |-> w]
    /\ pc' = "idle"
    /\ CallOver
    /\ UNCHANGED <<op, errors, session>>

\* Any exception of a start or of a wave fails the session; cleanup follows.
Raise(reason, w) ==
    /\ phase' = "failed"
    /\ failure' = [reason |-> reason, worker |-> w]
    /\ pc' = "loose"
    /\ errors' = FALSE
    /\ CallOver
    /\ UNCHANGED <<op, point, eof, built, cancelled>>

\* Deviation: the polling loop does not look at the clock.
MayContinueIgnoringDeadline == ~ cancelled

\* pool.check: the call may go on.
MayContinue == ~ cancelled /\ ~ expired

CheckFails == Raise(IF cancelled THEN "cancelled" ELSE "deadline", 0)

\* pool.check_alive.
Dead == {w \in Worker : procClosed[w] \/ ~ Alive(w)}

CheckAlive(next) ==
    IF ~ MayContinue THEN CheckFails
    ELSE IF Dead # {} THEN Raise("worker_died", Least(Dead))
    ELSE next

(***************************************************************************)
(* Startup.  One pipe, one process and one exchange per worker; each step  *)
(* of that may fail and leaves what was created so far to the cleanup.     *)
(***************************************************************************)
SpawnFails(w) ==
    \* the process object could not be built: the pool owns neither pipe end
    \/ /\ \E open \in SUBSET {<<w, "child">>, <<w, "parent">>} :
             loose' = loose \cup open /\ Fault(1 + Cardinality(open))
       /\ UNCHANGED <<proc, held, exchange>>
       /\ Raise("spawn", w)
    \* Process.start() raised, with or without a process
    \/ /\ \E born \in BOOLEAN :
             /\ held' = [held EXCEPT ![w] = IF born THEN "started" ELSE "unstarted"]
             /\ proc' = [proc EXCEPT ![w] = IF born THEN "boot" ELSE "none"]
       /\ \E open \in SUBSET {<<w, "child">>} :
             loose' = loose \cup open /\ Fault(1 + Cardinality(open))
       /\ UNCHANGED exchange
       /\ Raise("spawn", w)
    \* the worker's end could not be closed, or the thread not be started
    \/ /\ held' = [held EXCEPT ![w] = "started"]
       /\ proc' = [proc EXCEPT ![w] = "boot"]
       /\ \/ loose' = loose \cup {<<w, "child">>} /\ UNCHANGED exchange
          \/ exchange' = [exchange EXCEPT ![w] = Unstarted] /\ UNCHANGED loose
       /\ Fault(1)
       /\ Raise("cleanup", w)

Spawn ==
    LET w == Least(todo) IN
    /\ pc = "spawn"
    /\ UNCHANGED <<wave, doomed, pipe, pipeClosed, procClosed>>
    /\ \/ /\ ~ MayContinue
          /\ CheckFails
          /\ NoFault /\ UNCHANGED <<proc, exchange, held, loose>>
       \/ MayContinue /\ SpawnFails(w)
       \/ /\ MayContinue
          /\ held' = [held EXCEPT ![w] = "started"]
          /\ proc' = [proc EXCEPT ![w] = "boot"]
          /\ exchange' = [exchange EXCEPT ![w] = Receiving]
          /\ NoFault /\ UNCHANGED loose
          /\ Goto(IF todo = {w} THEN "poll" ELSE "spawn", todo \ {w})

(***************************************************************************)
(* A wave: process_batch with well-formed arguments, addressing some of    *)
(* the workers.  Every one of them is dispatched before any is awaited.    *)
(***************************************************************************)
StartWave ==
    /\ pc = "idle" /\ built /\ phase = "ready"
    /\ ~ eof /\ point < MaxWaves
    /\ \E A \in (SUBSET Worker) \ {{}} : active' = A /\ todo' = A
    /\ pc' = "enter"
    /\ op' = "wave"
    /\ expired' = FALSE
    /\ failure' = NoFailure
    /\ UNCHANGED <<session, waiting, errors, child, pipe, exchange, owned, faults>>

Enter ==
    /\ pc = "enter"
    /\ CheckAlive(Goto("dispatch", active))
    /\ UNCHANGED <<child, pipe, exchange, owned, faults>>

Dispatch ==
    LET w == Least(todo) IN
    /\ pc = "dispatch"
    /\ UNCHANGED <<child, pipe, owned>>
    /\ IF ~ MayContinue \/ ~ Alive(w)
         THEN /\ IF MayContinue THEN Raise("worker_died", w) ELSE CheckFails
              /\ NoFault /\ UNCHANGED exchange
         ELSE \/ /\ exchange' = [exchange EXCEPT ![w] = Unstarted]
                 /\ Fault(1)
                 /\ Raise("thread", w)
              \/ /\ exchange' = [exchange EXCEPT ![w] = Sending(point + 1)]
                 /\ NoFault
                 /\ IF todo = {w} THEN Goto("poll", {}) ELSE Goto("dispatch", todo \ {w})

(***************************************************************************)
(* pool.wait.  The loop reads an exchange's done event and, if it is not   *)
(* set, whether the process lives: two reads, in between which the worker  *)
(* and the exchange's thread move on.                                      *)
(***************************************************************************)
Poll ==
    /\ pc = "poll"
    /\ IF MayContinue
         THEN /\ pc' = "scan" /\ todo' = active /\ waiting' = FALSE
              /\ UNCHANGED <<op, active, expired, errors, failure, session>>
         ELSE CheckFails
    /\ UNCHANGED <<child, pipe, exchange, owned, faults>>

\* The loop goes on to the next worker, or starts again, or is complete.
Visited(w, pending) ==
    /\ waiting' = pending
    /\ IF todo # {w} THEN pc' = "scan" /\ todo' = todo \ {w}
       ELSE IF pending THEN pc' = "poll" /\ todo' = {}
       ELSE pc' = "join" /\ todo' = active
    /\ UNCHANGED <<op, active, expired, errors, failure, session>>

Scan ==
    LET w == Least(todo) IN
    /\ pc = "scan"
    /\ \/ /\ Done(w)
          /\ IF exchange[w].result = Broken THEN Raise("transport", w) ELSE Visited(w, waiting)
       \/ /\ ~ Done(w)
          /\ Goto("alive", todo)
    /\ UNCHANGED <<child, pipe, exchange, owned, faults>>

IsAlive ==
    LET w == Least(todo) IN
    /\ pc = "alive"
    /\ IF Alive(w) THEN Visited(w, TRUE) ELSE Raise("worker_died", w)
    /\ UNCHANGED <<child, pipe, exchange, owned, faults>>

\* Deviation: the finished thread is not joined.
JoinNothing ==
    /\ pc = "join"
    /\ Goto("accept", {})
    /\ UNCHANGED <<child, pipe, exchange, owned, faults>>

\* The thread is joined for what is left of the deadline.
Join ==
    LET w == Least(todo) IN
    /\ pc = "join"
    /\ IF exchange[w].result = NoFrame THEN Raise("transport_contract", w)
       ELSE \/ /\ ~ ThreadAlive(w)
               /\ IF todo = {w} THEN Goto("accept", {}) ELSE Goto("join", todo \ {w})
            \/ /\ ThreadAlive(w) /\ expired
               /\ Raise("transport_cleanup", w)
    /\ UNCHANGED <<child, pipe, exchange, owned, faults>>

(***************************************************************************)
(* The replies are verified in dispatch order.  A reply names its wave, an *)
(* error frame does not.                                                   *)
(***************************************************************************)
Expected(w) ==
    exchange[w].result = IF op = "start" THEN [kind |-> "ready", wave |-> 0]
                                         ELSE [kind |-> "ok", wave |-> point + 1]

Verdict(w) ==
    IF op = "start" THEN "startup_contract"
    ELSE IF exchange[w].result.kind \in {"callback", "control", "contract"}
         THEN exchange[w].result.kind
    ELSE "response_contract"

Accept ==
    LET unexpected == {w \in active : ~ Expected(w)} IN
    /\ pc = "accept"
    /\ IF ~ MayContinue THEN CheckFails
       ELSE IF unexpected # {}
         THEN Raise(Verdict(Least(unexpected)), Least(unexpected))
       ELSE IF op = "start"
         THEN /\ phase' = "ready" /\ built' = TRUE /\ pc' = "idle" /\ CallOver
              /\ UNCHANGED <<point, eof, cancelled, op, errors, failure>>
       ELSE \/ Goto("verified", {})
            \/ Raise("output_limit", 0)  \* admitted singly, but not together
    /\ UNCHANGED <<child, pipe, exchange, owned, faults>>

\* The end of _candidate_batch.
Verified ==
    /\ pc = "verified"
    /\ CheckAlive(Goto("admit", {}))
    /\ UNCHANGED <<child, pipe, exchange, owned, faults>>

\* The publication lock is taken, and under it the last check is made.
Admit ==
    /\ pc = "admit"
    /\ CheckAlive(Goto("install", {}))
    /\ UNCHANGED <<child, pipe, exchange, owned, faults>>

\* The wave is published; an interrupt may still hit the returning owner.
Install ==
    /\ pc = "install"
    /\ point' = point + 1
    /\ \/ /\ pc' = "idle"
          /\ NoFault
          /\ UNCHANGED <<phase, failure, errors>>
       \/ /\ pc' = "loose" /\ phase' = "failed" /\ errors' = FALSE
          /\ failure' = [reason |-> "interrupt", worker |-> 0]
          /\ Fault(1)
    /\ CallOver
    /\ UNCHANGED <<eof, built, cancelled, op, child, pipe, exchange, owned>>

\* A control exception reaches the owner inside a start or a wave.
Interrupt ==
    /\ pc \in {"spawn", "enter", "dispatch", "poll", "scan", "alive", "join",
               "accept", "verified", "admit"}
    /\ Raise("interrupt", 0)
    /\ Fault(1)
    /\ UNCHANGED <<child, pipe, exchange, owned>>

\* The deadline of a start or a wave passes.
Expire ==
    /\ pc \notin {"idle", "loose", "pipes", "reap", "settle", "end"}
    /\ ~ expired
    /\ expired' = TRUE
    /\ UNCHANGED <<session, pc, op, active, todo, waiting, errors, failure,
                   child, pipe, exchange, owned, faults>>

(***************************************************************************)
(* Calls that publish or request something in one step.                    *)
(***************************************************************************)
CloseSource ==
    /\ pc = "idle" /\ built /\ phase = "ready"
    /\ ~ cancelled
    /\ eof' = TRUE
    /\ UNCHANGED <<point, phase, built, cancelled, call, child, pipe, exchange,
                   owned, faults>>

Cancel ==
    /\ built
    /\ pc # "install"
    /\ cancelled' = TRUE
    /\ UNCHANGED <<point, eof, phase, built, call, child, pipe, exchange, owned, faults>>

-----------------------------------------------------------------------------
(***************************************************************************)
(* pool.cleanup: loose pipe ends, pipes, then every member in turn.  What  *)
(* fails is recorded and left for another close().                         *)
(***************************************************************************)

Cleaning(label, rest, failed) ==
    /\ pc' = label
    /\ todo' = rest
    /\ errors' = (errors \/ failed)
    /\ failure' = NoFailure  \* raised again at the end, never consulted
    /\ UNCHANGED <<op, active, waiting, expired, session>>

CloseLoose ==
    /\ pc = "loose"
    /\ \E open \in SUBSET loose :
          /\ loose' = open
          /\ Fault(Cardinality(open))
          /\ Cleaning("pipes", {}, open # {})
    /\ UNCHANGED <<child, pipe, exchange, held, pipeClosed, procClosed>>

Members == {w \in Worker : held[w] # "none"}

ClosePipes ==
    LET pending == {w \in Members : ~ pipeClosed[w]} IN
    /\ pc = "pipes"
    /\ \E open \in SUBSET pending :
          /\ pipeClosed' = [w \in Worker |-> pipeClosed[w] \/ w \in pending \ open]
          /\ Fault(Cardinality(open))
          /\ Cleaning(IF Members = {} THEN "end" ELSE "reap", Members, open # {})
    /\ UNCHANGED <<child, pipe, exchange, held, procClosed, loose>>

\* Deviation: cleanup does not escalate to a signal.
EscalateNever ==
    /\ pc = "reap"
    /\ Cleaning("settle", todo, FALSE)
    /\ NoFault
    /\ UNCHANGED <<child, pipe, exchange, owned>>

\* A live process is joined briefly, terminated, joined again and killed.
Escalate ==
    LET w == Least(todo) IN
    /\ pc = "reap"
    /\ IF held[w] = "started" /\ ~ procClosed[w] /\ Alive(w)
         THEN \/ /\ doomed' = [doomed EXCEPT ![w] = TRUE]
                 /\ NoFault /\ Cleaning("settle", todo, FALSE)
              \/ /\ Fault(1) /\ Cleaning("settle", todo, TRUE)
                 /\ UNCHANGED doomed
         ELSE NoFault /\ UNCHANGED doomed /\ Cleaning("settle", todo, FALSE)
    /\ UNCHANGED <<proc, wave, pipe, exchange, owned>>

(***************************************************************************)
(* The joins of the process and of the exchange's thread have ended, in    *)
(* time or not.  Joining a thread that was never started is an error, too. *)
(***************************************************************************)
Settle ==
    LET w == Least(todo)
        next == IF todo = {w} THEN "end" ELSE "reap"
        threadError == exchange[w].stage = "unstarted" \/ ThreadAlive(w)
    IN
    /\ pc = "settle"
    /\ exchange' = IF ThreadAlive(w) THEN exchange
                                     ELSE [exchange EXCEPT ![w] = NoExchange]
    /\ \/ /\ procClosed[w]
          /\ NoFault /\ UNCHANGED procClosed
          /\ Cleaning(next, todo \ {w}, threadError)
       \/ /\ ~ procClosed[w] /\ held[w] = "started" /\ Alive(w)
          /\ NoFault /\ UNCHANGED procClosed
          /\ Cleaning(next, todo \ {w}, TRUE)
       \/ /\ ~ procClosed[w] /\ ~ Alive(w)
          /\ \/ /\ procClosed' = [procClosed EXCEPT ![w] = TRUE]
                /\ NoFault
                /\ Cleaning(next, todo \ {w}, threadError)
             \/ /\ UNCHANGED procClosed
                /\ Fault(1)
                /\ Cleaning(next, todo \ {w}, TRUE)
    /\ UNCHANGED <<child, pipe, held, pipeClosed, loose>>

EndCleanup ==
    /\ pc = "end"
    /\ pc' = "idle"
    /\ phase' = IF op = "close" /\ ~ errors THEN "closed" ELSE phase
    /\ UNCHANGED <<point, eof, built, cancelled, op, active, todo, waiting,
                   expired, errors, failure, child, pipe, exchange, owned, faults>>

\* close() of a session, in any phase, as often as its owner likes.
Close ==
    /\ pc = "idle" /\ built
    /\ pc' = "loose" /\ op' = "close" /\ errors' = FALSE
    /\ phase' = "closing"
    /\ UNCHANGED <<point, eof, built, cancelled, active, todo, waiting, expired,
                   failure, child, pipe, exchange, owned, faults>>

\* LocalWorkerCleanup.close(), when the constructor has raised.
HandleClose ==
    /\ pc = "idle" /\ ~ built
    /\ pc' = "loose" /\ op' = "handle" /\ errors' = FALSE
    /\ UNCHANGED <<session, active, todo, waiting, expired, failure, child,
                   pipe, exchange, owned, faults>>

-----------------------------------------------------------------------------
(***************************************************************************)
(* A worker process.                                                       *)
(***************************************************************************)

\* A frame is written, unless the parent's end is closed: then it exits.
Write(w, frame, next) ==
    IF pipeClosed[w]
      THEN proc' = [proc EXCEPT ![w] = "exit"] /\ UNCHANGED toParent
      ELSE /\ proc' = [proc EXCEPT ![w] = next]
           /\ toParent' = [toParent EXCEPT ![w] = Append(@, frame)]

Boot(w) ==
    /\ proc[w] = "boot"
    /\ Write(w, [kind |-> "ready", wave |-> 0], "recv")
    /\ UNCHANGED <<session, call, wave, doomed, toChild, exchange, owned, faults>>

Receive(w) ==
    /\ proc[w] = "recv"
    /\ \/ /\ toChild[w] # <<>>
          /\ proc' = [proc EXCEPT ![w] = "work"]
          /\ wave' = [wave EXCEPT ![w] = Head(toChild[w])]
          /\ toChild' = [toChild EXCEPT ![w] = Tail(@)]
       \/ /\ toChild[w] = <<>> /\ pipeClosed[w]
          /\ proc' = [proc EXCEPT ![w] = "exit"]
          /\ UNCHANGED <<wave, toChild>>
    /\ UNCHANGED <<session, call, doomed, toParent, exchange, owned, faults>>

Reply(w) ==
    /\ proc[w] = "work"
    /\ \/ Write(w, [kind |-> "ok", wave |-> wave[w]], "recv")
       \/ \E reason \in {"callback", "control", "contract"} :
             Write(w, [kind |-> reason, wave |-> 0], "exit")
    /\ UNCHANGED <<session, call, wave, doomed, toChild, exchange, owned, faults>>

\* It exits, is killed, or dies of something else.
Die(w) ==
    /\ Alive(w)
    /\ proc' = [proc EXCEPT ![w] = "dead"]
    /\ toChild' = [toChild EXCEPT ![w] = <<>>]
    /\ UNCHANGED <<session, call, wave, doomed, toParent, exchange, owned, faults>>

(***************************************************************************)
(* The I/O thread of an exchange: send the request, receive one frame, set *)
(* done, end.  A large request waits for the worker to read it.            *)
(***************************************************************************)
ThreadSends(w) ==
    /\ exchange[w].stage = "send"
    /\ ~ pipeClosed[w] /\ ~ PeerGone(w)
    /\ toChild' = [toChild EXCEPT ![w] = Append(@, exchange[w].payload)]
    /\ exchange' = [exchange EXCEPT ![w].stage = "recv"]
    /\ UNCHANGED <<session, call, child, toParent, owned, faults>>

\* The exchange has its result; its thread is about to end.
Concluded(w, result) ==
    [exchange EXCEPT ![w] = [stage |-> "ending", payload |-> @.payload, result |-> result]]

ThreadReceives(w) ==
    /\ exchange[w].stage = "recv"
    /\ toParent[w] # <<>>
    /\ toParent' = [toParent EXCEPT ![w] = Tail(@)]
    /\ exchange' = Concluded(w, Head(toParent[w]))
    /\ UNCHANGED <<session, call, child, toChild, owned, faults>>

ThreadBreaks(w) ==
    /\ exchange' = Concluded(w, Broken)
    /\ UNCHANGED <<session, call, child, pipe, owned, faults>>

\* End of file or a broken pipe.
PeerLost(w) ==
    /\ \/ exchange[w].stage = "send"
       \/ exchange[w].stage = "recv" /\ toParent[w] = <<>>
    /\ PeerGone(w)
    /\ ThreadBreaks(w)

\* The owner closed the connection before the thread used it (a read that has
\* begun is not woken by that).
OwnEndClosed(w) ==
    /\ exchange[w].stage \in {"send", "recv"}
    /\ pipeClosed[w]
    /\ ThreadBreaks(w)

ThreadEnds(w) ==
    /\ exchange[w].stage = "ending"
    /\ exchange' = [exchange EXCEPT ![w].stage = "dead"]
    /\ UNCHANGED <<session, call, child, pipe, owned, faults>>

-----------------------------------------------------------------------------
OwnerStep ==
    \/ Spawn \/ Enter \/ Dispatch \/ Poll \/ Scan \/ IsAlive \/ Join \/ Accept
    \/ Verified \/ Admit \/ Install
    \/ CloseLoose \/ ClosePipes \/ Escalate \/ Settle \/ EndCleanup

WorkerStep(w) == Boot(w) \/ Receive(w) \/ Reply(w) \/ Die(w)

ThreadStep(w) ==
    \/ ThreadSends(w) \/ ThreadReceives(w) \/ PeerLost(w) \/ OwnEndClosed(w)
    \/ ThreadEnds(w)

Next ==
    \/ OwnerStep \/ Interrupt \/ Expire
    \/ StartWave \/ CloseSource \/ Cancel \/ Close \/ HandleClose
    \/ \E w \in Worker : WorkerStep(w) \/ ThreadStep(w)

Spec == Init /\ [][Next]_vars

(***************************************************************************)
(* The owner runs, time passes, a killed process dies, and a thread whose  *)
(* peer is gone or that is ending is scheduled.  Workers may hang, and     *)
(* send and receive may block, for ever.                                   *)
(***************************************************************************)
FairSpec ==
    /\ Spec
    /\ WF_vars(OwnerStep) /\ WF_vars(Expire)
    /\ \A w \in Worker :
          /\ WF_vars(Die(w) /\ doomed[w])
          /\ WF_vars(PeerLost(w)) /\ WF_vars(ThreadEnds(w))

\* An owner whose close() failed calls it again, and threads go on reading.
Retries ==
    /\ \A w \in Worker : WF_vars(ThreadReceives(w))
    /\ WF_vars(phase = "closing" /\ Close)
    /\ WF_vars(errors /\ HandleClose)

-----------------------------------------------------------------------------

Results == Frame \cup {NoFrame, Broken}

\* Every variable has its type, and an exchange and its thread belong to a
\* worker the pool has started.
TypeOK ==
    /\ point \in 0 .. MaxWaves /\ eof \in BOOLEAN /\ built \in BOOLEAN
    /\ phase \in {"starting", "ready", "failed", "closing", "closed"}
    /\ cancelled \in BOOLEAN
    /\ pc \in {"spawn", "enter", "dispatch", "poll", "scan", "alive", "join", "accept",
               "verified", "admit", "install", "loose", "pipes", "reap", "settle",
               "end", "idle"}
    /\ op \in {"start", "wave", "close", "handle"}
    /\ active \subseteq Worker /\ todo \subseteq Worker
    /\ waiting \in BOOLEAN /\ expired \in BOOLEAN /\ errors \in BOOLEAN
    /\ failure.worker \in Worker
    /\ proc \in [Worker -> {"none", "boot", "recv", "work", "exit", "dead"}]
    /\ wave \in [Worker -> 0 .. MaxWaves]
    /\ doomed \in [Worker -> BOOLEAN]
    /\ toChild \in [Worker -> Seq(1 .. MaxWaves)] /\ toParent \in [Worker -> Seq(Frame)]
    /\ exchange \in [Worker -> [stage : {"none", "unstarted", "send", "recv", "ending", "dead"},
                               payload : 0 .. MaxWaves, result : Results]]
    /\ held \in [Worker -> {"none", "unstarted", "started"}]
    /\ pipeClosed \in [Worker -> BOOLEAN] /\ procClosed \in [Worker -> BOOLEAN]
    /\ loose \subseteq Worker \X {"child", "parent"}
    /\ faults \in 0 .. MaxFaults
    /\ \A w \in Worker : exchange[w].stage # "none" => held[w] = "started"

(***************************************************************************)
(* Between calls a ready session's pipes are silent: no request or frame   *)
(* is in flight, no thread is on a pipe and no worker is executing.  The   *)
(* wave number alone could not tell a late answer from an answer to a      *)
(* wave retried at the same checkpoint.                                    *)
(***************************************************************************)
ReadyIsQuiet ==
    (built /\ phase = "ready" /\ pc = "idle") =>
        \A w \in Worker :
            /\ toChild[w] = <<>> /\ toParent[w] = <<>>
            /\ ~ ThreadAlive(w)
            /\ proc[w] \in {"recv", "dead"}
            /\ ~ pipeClosed[w] /\ ~ procClosed[w]

(***************************************************************************)
(* The defensive checks never fire: no exchange is missing or without a    *)
(* result when it is joined, no frame of another wave or another kind is   *)
(* ever read as a reply.                                                   *)
(***************************************************************************)
ContractsHold ==
    failure.reason \notin {"startup_contract", "transport_contract", "response_contract"}

(***************************************************************************)
(* A wave about to be published was computed to its end by every worker it *)
(* addressed, all of them have been heard, and no thread is left on a pipe.*)
(***************************************************************************)
PublishedWasComputed ==
    pc = "install" =>
        /\ \A w \in active : wave[w] = point + 1 /\ proc[w] \in {"recv", "dead"}
        /\ \A w \in Worker : ~ ThreadAlive(w) /\ toParent[w] = <<>> /\ toChild[w] = <<>>

Released ==
    /\ loose = {}
    /\ \A w \in Worker :
          /\ proc[w] \in {"none", "dead"}
          /\ ~ ThreadAlive(w)
          /\ held[w] # "none" => pipeClosed[w] /\ procClosed[w]

(***************************************************************************)
(* "OS refusal is reported, not represented as a successfully closed       *)
(* worker": a session that says it is closed, or a cleanup handle whose    *)
(* close() returned, owns no process, thread or pipe end any more.         *)
(***************************************************************************)
ClosedIsReleased ==
    (phase = "closed" \/ (pc = "idle" /\ op = "handle" /\ ~ errors)) => Released

(***************************************************************************)
(* A session is sound: its pipes are silent between calls, its defensive   *)
(* checks never fire, what it publishes was computed by all the workers    *)
(* concerned, and a close that succeeded left nothing behind.              *)
(***************************************************************************)
SessionSound ==
    TypeOK /\ ReadyIsQuiet /\ ContractsHold /\ PublishedWasComputed /\ ClosedIsReleased

TakesUpNewWave(w) == (proc[w] # "work" /\ proc'[w] = "work") => wave'[w] > wave[w]

CancelledIsSilent == (point' # point \/ eof' # eof) => ~ cancelled

(***************************************************************************)
(* "Workers are not silently retried": a worker takes up a wave at most    *)
(* once, in order, however the waves before it ended.  And no wave is      *)
(* published after cancel() returned.                                      *)
(***************************************************************************)
NoReplayNoLateWave == [][(\A w \in Worker : TakesUpNewWave(w)) /\ CancelledIsSilent]_vars

(***************************************************************************)
(* Every call returns, though workers hang and pipes stay blocked.         *)
(***************************************************************************)
CallReturns == pc # "idle" ~> pc = "idle"

(***************************************************************************)
(* An owner that keeps calling close() gets rid of everything, once the    *)
(* operating system stops refusing.                                        *)
(***************************************************************************)
CloseSucceeds == Retries => ((phase = "closing" \/ op = "handle") ~> Released)

(***************************************************************************)
(* The documentation's "a child control exception is reported as           *)
(* `control`": a worker reported dead had not reported an exception.       *)
(***************************************************************************)
ChildExceptionIsReported ==
    failure.reason = "worker_died" =>
        LET w == failure.worker
            reports == {toParent[w][i] : i \in DOMAIN toParent[w]} \cup {exchange[w].result}
        IN  \A frame \in reports : frame.kind # "control"
=============================================================================
