------------------------- MODULE LocalWorkerPoolProofs -------------------------
(***************************************************************************)
(* Proofs about LocalWorkerPool, for any number of workers, waves and      *)
(* refusals: a session is sound at every step, however workers, threads,   *)
(* the clock, cancel and failing system calls interleave with its owner.   *)
(***************************************************************************)
EXTENDS LocalWorkerPool, ProofLemmas, SequenceTheorems

StartPlaces == {"spawn", "poll", "scan", "alive", "join", "accept"}
WavePlaces == {"enter", "dispatch", "poll", "scan", "alive", "join", "accept",
               "verified", "admit", "install"}
CleanupPlaces == {"loose", "pipes", "reap", "settle", "end"}

-----------------------------------------------------------------------------
(***************************************************************************)
(* What holds of a worker and its pipe in every phase.                     *)
(***************************************************************************)

\* At most one request is on its way, in the pipe or with the thread, and its
\* wave is one the worker has not taken up.
RequestIsNew(w) ==
    /\ toChild[w] # <<>> =>
          \E n \in 1 .. MaxWaves : toChild[w] = <<n>> /\ wave[w] < n
    /\ exchange[w].stage = "send" =>
          toChild[w] = <<>> /\ wave[w] < exchange[w].payload

\* What the pool does not hold was not started; what it closed has ended.
MemberInv(w) ==
    /\ held[w] # "started" => proc[w] = "none" /\ exchange[w] = NoExchange
    /\ procClosed[w] => ~ Alive(w)

-----------------------------------------------------------------------------
(***************************************************************************)
(* The places of a worker while its session is not failed.                 *)
(***************************************************************************)

\* The number the current call sends, and the frame that answers it.
Called == IF op = "start" THEN 0 ELSE point + 1
Answer == IF op = "start" THEN [kind |-> "ready", wave |-> 0]
                          ELSE [kind |-> "ok", wave |-> point + 1]
Refusals == [kind : {"callback", "control", "contract"}, wave : {0}]

Open(w) == ~ pipeClosed[w] /\ ~ procClosed[w]
Empty(w) == toChild[w] = <<>> /\ toParent[w] = <<>>

\* Not yet spawned.
Fresh(w) ==
    /\ held[w] = "none" /\ proc[w] = "none" /\ wave[w] = 0
    /\ exchange[w] = NoExchange /\ Empty(w)

\* Nothing is on its pipe, and the thread of its last exchange has ended.
Silent(w) ==
    /\ held[w] = "started" /\ proc[w] \in {"recv", "dead"}
    /\ exchange[w].stage = "dead" /\ Empty(w)

Quiet(w) == Silent(w) /\ wave[w] <= point

\* A frame is what the worker answers, and where it is after answering.
Answers(w, frame) ==
    \/ frame = Answer /\ proc[w] \in {"recv", "dead"} /\ wave[w] = Called
    \/ /\ op = "wave" /\ proc[w] \in {"exit", "dead"}
       /\ frame \in Refusals

\* The current call's exchange is over, and what it has brought.
Heard(w) ==
    /\ held[w] = "started"
    /\ exchange[w].stage \in {"ending", "dead"} /\ Empty(w)
    /\ Answers(w, exchange[w].result)

\* The current call's request is with the thread, ...
Sent(w) ==
    /\ op = "wave" /\ exchange[w].stage = "send" /\ Empty(w)
    /\ proc[w] \in {"recv", "dead"} /\ wave[w] < Called

\* ... in the pipe, ...
Queued(w) ==
    /\ op = "wave" /\ exchange[w].stage = "recv"
    /\ toChild[w] = <<Called>> /\ toParent[w] = <<>>
    /\ proc[w] = "recv" /\ wave[w] < Called

\* ... being worked on, answered in the pipe, lost with its worker, ...
Computing(w) ==
    /\ exchange[w].stage = "recv" /\ Empty(w)
    /\ proc[w] = IF op = "start" THEN "boot" ELSE "work"
    /\ wave[w] = Called

Answered(w) ==
    /\ exchange[w].stage = "recv" /\ toChild[w] = <<>>
    /\ \E frame \in {Answer} \cup Refusals : toParent[w] = <<frame>> /\ Answers(w, frame)

Lost(w) == exchange[w].stage = "recv" /\ Empty(w) /\ proc[w] = "dead"

\* ... or known to be lost.
Cut(w) ==
    /\ exchange[w].stage \in {"ending", "dead"} /\ Empty(w)
    /\ exchange[w].result = Broken /\ proc[w] = "dead"

Busy(w) ==
    /\ held[w] = "started"
    /\ exchange[w].stage \in {"send", "recv"} =>
          exchange[w].payload = Called /\ exchange[w].result = NoFrame
    /\ \/ Sent(w) \/ Queued(w) \/ Computing(w) \/ Answered(w) \/ Lost(w)
       \/ Heard(w) \/ Cut(w)

\* A worker's place at each place of the owner.
Place(w) ==
    CASE pc = "spawn" -> IF w \in todo THEN Fresh(w) ELSE Busy(w)
      [] pc = "dispatch" -> IF w \in active \ todo THEN Busy(w) ELSE Quiet(w)
      [] pc \in {"poll", "scan", "alive"} ->
            /\ w \in active => Busy(w)
            /\ w \notin active => Quiet(w)
            /\ (pc # "poll" /\ ~ waiting /\ w \in active \ todo) => Heard(w)
      [] pc \in {"join", "accept"} ->
            /\ w \in active => Heard(w)
            /\ w \notin active => Quiet(w)
            /\ (w \in active /\ (pc = "join" => w \notin todo)) => exchange[w].stage = "dead"
      [] pc \in {"verified", "admit", "install"} ->
            IF w \in active THEN Silent(w) /\ wave[w] = point + 1 ELSE Quiet(w)
      [] OTHER -> Quiet(w)

\* A session that is starting or ready.
WorkingInv ==
    phase \in {"starting", "ready"} =>
        /\ loose = {}
        /\ \A w \in Worker : Open(w) /\ Place(w)

-----------------------------------------------------------------------------
(***************************************************************************)
(* The owner: which call it is in, what is left of its loop, and what a    *)
(* cleanup that has met no error has achieved so far.                      *)
(***************************************************************************)
ControlInv ==
    /\ phase = "starting" => pc \in StartPlaces /\ op = "start" /\ ~ built /\ active = Worker
    /\ phase = "ready" =>
          /\ built /\ pc \in WavePlaces \cup {"idle"}
          /\ pc # "idle" => op = "wave" /\ point < MaxWaves
    /\ phase = "failed" => pc \in CleanupPlaces \cup {"idle"} /\ op # "close"
    /\ phase = "closing" => pc \in CleanupPlaces \cup {"idle"} /\ op = "close" /\ built
    /\ phase = "closed" => pc = "idle" /\ built
    /\ op = "handle" => phase = "failed" /\ ~ built
    /\ pc = "install" => ~ cancelled
    /\ pc \in {"spawn", "dispatch", "scan", "alive", "join", "reap", "settle"} => todo # {}
    /\ pc \in {"dispatch", "scan", "alive", "join"} => todo \subseteq active
    /\ pc = "enter" => todo = active
    /\ pc \in WavePlaces => active # {}
    /\ pc \in {"reap", "settle"} => todo \subseteq Members

\* Nothing is left of a member that was settled without an error.
Settled(w) ==
    /\ pipeClosed[w] /\ procClosed[w]
    /\ exchange[w].stage \notin {"unstarted", "send", "recv", "ending"}

CleanupInv ==
    ~ errors =>
        /\ pc \in CleanupPlaces \ {"loose"} => loose = {}
        /\ pc \in {"reap", "settle", "end"} => \A w \in Members : pipeClosed[w]
        /\ pc \in {"reap", "settle"} => \A w \in Members \ todo : Settled(w)
        /\ pc = "end" => \A w \in Members : Settled(w)

WorkersInv == \A w \in Worker : RequestIsNew(w) /\ MemberInv(w)

IInv ==
    /\ TypeOK /\ ContractsHold /\ ControlInv /\ WorkersInv /\ WorkingInv
    /\ CleanupInv /\ ClosedIsReleased

-----------------------------------------------------------------------------
(***************************************************************************)
(* The type invariant in two halves: the owner's variables, and those of   *)
(* the workers, pipes, threads and the pool.                               *)
(***************************************************************************)
OwnerTypes ==
    /\ point \in 0 .. MaxWaves /\ eof \in BOOLEAN /\ built \in BOOLEAN
    /\ phase \in {"starting", "ready", "failed", "closing", "closed"}
    /\ cancelled \in BOOLEAN
    /\ pc \in StartPlaces \cup WavePlaces \cup CleanupPlaces \cup {"idle"}
    /\ op \in {"start", "wave", "close", "handle"}
    /\ active \subseteq Worker /\ todo \subseteq Worker
    /\ waiting \in BOOLEAN /\ expired \in BOOLEAN /\ errors \in BOOLEAN
    /\ failure.worker \in Worker

LinkTypes ==
    /\ proc \in [Worker -> {"none", "boot", "recv", "work", "exit", "dead"}]
    /\ wave \in [Worker -> 0 .. MaxWaves]
    /\ doomed \in [Worker -> BOOLEAN]
    /\ toChild \in [Worker -> Seq(1 .. MaxWaves)] /\ toParent \in [Worker -> Seq(Frame)]
    /\ exchange \in [Worker -> [stage : {"none", "unstarted", "send", "recv", "ending", "dead"},
                               payload : 0 .. MaxWaves, result : Results]]
    /\ held \in [Worker -> {"none", "unstarted", "started"}]
    /\ pipeClosed \in [Worker -> BOOLEAN] /\ procClosed \in [Worker -> BOOLEAN]
    /\ loose \subseteq Worker \X {"child", "parent"}
    /\ faults \in 0 .. MaxFaults
    /\ \A w \in Worker : exchange[w].stage # "none" => held[w] = "started"

LEMMA TypeHalves == TypeOK <=> OwnerTypes /\ LinkTypes
BY DEF TypeOK, OwnerTypes, LinkTypes, StartPlaces, WavePlaces, CleanupPlaces

\* The least of some workers is one of them.
LEMMA LeastIn ==
    ASSUME NEW S \in SUBSET Worker, S # {}
    PROVE  Least(S) \in S
<1>1. S \in SUBSET Nat BY PoolAssumption DEF Worker
<1>2. \E w \in S : \A v \in S : w <= v BY <1>1, LeastNatural
<1> QED BY <1>2 DEF Least

LEMMA ZeroIsWorker == 0 \in Worker
BY PoolAssumption DEF Worker

linkVars == <<child, pipe, exchange, owned>>

\* Nothing of one worker changes.
SameLink(w) ==
    /\ proc'[w] = proc[w] /\ wave'[w] = wave[w]
    /\ toChild'[w] = toChild[w] /\ toParent'[w] = toParent[w]
    /\ exchange'[w] = exchange[w] /\ held'[w] = held[w]
    /\ pipeClosed'[w] = pipeClosed[w] /\ procClosed'[w] = procClosed[w]

\* Then its place changes only with the numbers of the call.
LEMMA SameLinks ==
    ASSUME NEW w \in Worker, SameLink(w), UNCHANGED <<op, point>>
    PROVE  /\ Fresh(w)' = Fresh(w) /\ Silent(w)' = Silent(w) /\ Quiet(w)' = Quiet(w)
           /\ Heard(w)' = Heard(w) /\ Busy(w)' = Busy(w) /\ Open(w)' = Open(w)
<1> USE DEF SameLink, Empty, Called, Answer, Answers
<1>1. Fresh(w)' = Fresh(w) BY DEF Fresh
<1>2. Silent(w)' = Silent(w) BY DEF Silent
<1>3. Quiet(w)' = Quiet(w) BY <1>2 DEF Quiet
<1>4. Heard(w)' = Heard(w) BY DEF Heard
<1>5. /\ Sent(w)' = Sent(w) /\ Queued(w)' = Queued(w) /\ Computing(w)' = Computing(w)
      /\ Lost(w)' = Lost(w) /\ Cut(w)' = Cut(w)
  BY DEF Sent, Queued, Computing, Lost, Cut
<1>6. Answered(w)' = Answered(w) BY DEF Answered
<1>7. Busy(w)' = Busy(w) BY <1>4, <1>5, <1>6 DEF Busy
<1>8. Open(w)' = Open(w) BY DEF Open
<1> QED BY <1>1, <1>2, <1>3, <1>4, <1>7, <1>8

LEMMA LinksUnchanged ==
    ASSUME UNCHANGED linkVars PROVE \A w \in Worker : SameLink(w)
BY DEF linkVars, SameLink, child, pipe, owned

\* Nor do the invariants of the workers.
LEMMA SameWorkers ==
    ASSUME UNCHANGED linkVars, WorkersInv, LinkTypes, faults' \in 0 .. MaxFaults
    PROVE  WorkersInv' /\ LinkTypes'
<1> USE DEF linkVars, child, pipe, owned
<1>1. WorkersInv' BY DEF WorkersInv, RequestIsNew, MemberInv, Alive
<1>2. LinkTypes' BY DEF LinkTypes
<1> QED BY <1>1, <1>2

\* Faults are counted up to their bound.
LEMMA FaultsBounded ==
    ASSUME LinkTypes, NEW n \in Nat, Fault(n) PROVE faults' \in 0 .. MaxFaults
BY PoolAssumption DEF LinkTypes, Fault

\* A sound exception of a start or a wave.
LEMMA RaiseKeeps ==
    ASSUME IInv, op \in {"start", "wave"}, NEW reason, NEW w \in Worker, Raise(reason, w),
           reason \notin {"startup_contract", "transport_contract", "response_contract"},
           WorkersInv', LinkTypes'
    PROVE  IInv'
<1> USE DEF Raise, CallOver
<1>1. OwnerTypes' BY TypeHalves DEF IInv, OwnerTypes, CleanupPlaces
<1>2. TypeOK'
  <2>1. OwnerTypes' /\ LinkTypes' BY <1>1
  <2> QED BY <2>1, TypeHalves, PTL
<1>3. ContractsHold' BY DEF ContractsHold
<1>4. ControlInv' BY DEF ControlInv, IInv, CleanupPlaces, WavePlaces
<1>5. WorkingInv' BY DEF WorkingInv
<1>6. CleanupInv' BY DEF CleanupInv, CleanupPlaces
<1>7. ClosedIsReleased' BY DEF ClosedIsReleased
<1> QED BY <1>2, <1>3, <1>4, <1>5, <1>6, <1>7 DEF IInv

-----------------------------------------------------------------------------
(***************************************************************************)
(* A step of a worker or of its thread.                                    *)
(***************************************************************************)
LinkStep(w) == WorkerStep(w) \/ ThreadStep(w)

\* It moves nothing but its own worker's part.
OthersStay(w) ==
    \A v \in Worker : v # w =>
        /\ proc'[v] = proc[v] /\ wave'[v] = wave[v]
        /\ toChild'[v] = toChild[v] /\ toParent'[v] = toParent[v]
        /\ exchange'[v] = exchange[v]

LEMMA LinkStepFrames ==
    ASSUME LinkTypes, NEW w \in Worker, LinkStep(w)
    PROVE  UNCHANGED <<session, call, owned, doomed, faults>> /\ OthersStay(w)
<1> USE DEF LinkStep, WorkerStep, ThreadStep, Boot, Receive, Reply, Die, ThreadSends,
            ThreadReceives, PeerLost, OwnEndClosed, ThreadEnds, ThreadBreaks, Concluded, Write,
            child, pipe, LinkTypes
<1>1. UNCHANGED <<session, call, owned, doomed, faults>> OBVIOUS
<1>2. ASSUME NEW v \in Worker, v # w
      PROVE  /\ proc'[v] = proc[v] /\ wave'[v] = wave[v]
             /\ toChild'[v] = toChild[v] /\ toParent'[v] = toParent[v]
             /\ exchange'[v] = exchange[v]
  BY <1>2
<1> QED BY <1>1, <1>2 DEF OthersStay

LEMMA LinkStepTypes ==
    ASSUME LinkTypes, WorkersInv, NEW w \in Worker, LinkStep(w)
    PROVE  LinkTypes'
<1> USE DEF LinkTypes, Write
<1>1. UNCHANGED <<owned, doomed, faults>> BY LinkStepFrames
<1>0. toChild[w] \in Seq(1 .. MaxWaves) /\ toParent[w] \in Seq(Frame) OBVIOUS
<1>2. CASE Boot(w)
  <2>1. [kind |-> "ready", wave |-> 0] \in Frame BY DEF Frame
  <2>2. Append(toParent[w], [kind |-> "ready", wave |-> 0]) \in Seq(Frame) BY <2>1
  <2> QED BY <1>1, <1>2, <2>2 DEF Boot, owned
<1>3. CASE Receive(w)
  <2>1. toChild[w] # <<>> => /\ Head(toChild[w]) \in 1 .. MaxWaves
                             /\ Tail(toChild[w]) \in Seq(1 .. MaxWaves)
    <3>1. \A q \in Seq(1 .. MaxWaves) : q # <<>> =>
             Head(q) \in 1 .. MaxWaves /\ Tail(q) \in Seq(1 .. MaxWaves)
      BY HeadTailProperties
    <3> QED BY <1>0, <3>1
  <2>2. wave' \in [Worker -> 0 .. MaxWaves]
    <3>1. CASE wave' = wave BY <3>1
    <3>2. CASE wave' = [wave EXCEPT ![w] = Head(toChild[w])] /\ toChild[w] # <<>>
      <4>1. Head(toChild[w]) \in 0 .. MaxWaves BY <2>1, <3>2
      <4> QED BY <3>2, <4>1
    <3> QED BY <1>3, <3>1, <3>2 DEF Receive
  <2>3. toChild' \in [Worker -> Seq(1 .. MaxWaves)] BY <1>3, <2>1 DEF Receive
  <2> QED BY <1>1, <1>3, <2>2, <2>3 DEF Receive, owned
<1>4. CASE Reply(w)
  <2>1. \A frame \in Frame : Append(toParent[w], frame) \in Seq(Frame)
    <3> HIDE DEF LinkTypes
    <3> QED BY <1>0
  <2>2. /\ [kind |-> "ok", wave |-> wave[w]] \in Frame
        /\ \A r \in {"callback", "control", "contract"} : [kind |-> r, wave |-> 0] \in Frame
    BY DEF Frame
  <2>3. PICK frame \in Frame : \/ toParent' = toParent
                              \/ toParent' = [toParent EXCEPT ![w] = Append(@, frame)]
    BY <1>4, <2>2 DEF Reply
  <2>4. proc' \in [Worker -> {"none", "boot", "recv", "work", "exit", "dead"}]
    BY <1>4 DEF Reply
  <2> QED BY <1>1, <1>4, <2>1, <2>3, <2>4 DEF Reply, owned
<1>5. CASE Die(w)
  <2>1. <<>> \in Seq(1 .. MaxWaves) OBVIOUS
  <2> QED BY <1>1, <1>5, <2>1 DEF Die, owned
<1>6. CASE ThreadSends(w)
  <2>1. exchange[w].payload \in 1 .. MaxWaves
    <3>1. wave[w] \in 0 .. MaxWaves /\ exchange[w].payload \in 0 .. MaxWaves OBVIOUS
    <3>2. wave[w] < exchange[w].payload BY <1>6 DEF ThreadSends, WorkersInv, RequestIsNew
    <3> QED BY <3>1, <3>2, PoolAssumption
  <2>2. Append(toChild[w], exchange[w].payload) \in Seq(1 .. MaxWaves) BY <2>1
  <2> QED BY <1>1, <1>6, <2>2 DEF ThreadSends, child, owned
<1>7. CASE ThreadReceives(w)
  <2>1. /\ toParent[w] # <<>> => /\ Head(toParent[w]) \in Frame
                                 /\ Tail(toParent[w]) \in Seq(Frame)
    <3> HIDE DEF LinkTypes
    <3> QED BY <1>0
  <2>2. Head(toParent[w]) \in Results BY <1>7, <2>1 DEF ThreadReceives, Results
  <2> QED BY <1>1, <1>7, <2>1, <2>2 DEF ThreadReceives, Concluded, child, owned
<1>8. CASE PeerLost(w) \/ OwnEndClosed(w)
  <2>1. Broken \in Results BY DEF Results
  <2>2. /\ exchange[w].stage # "none"
        /\ exchange' = [exchange EXCEPT ![w] = [stage |-> "ending",
                            payload |-> exchange[w].payload, result |-> Broken]]
    BY <1>8 DEF PeerLost, OwnEndClosed, ThreadBreaks, Concluded
  <2>3. UNCHANGED <<child, pipe>> BY <1>8 DEF PeerLost, OwnEndClosed, ThreadBreaks
  <2> QED BY <1>1, <2>1, <2>2, <2>3 DEF child, pipe, owned
<1>9. CASE ThreadEnds(w) BY <1>1, <1>9 DEF ThreadEnds, child, pipe, owned
<1> QED BY <1>2, <1>3, <1>4, <1>5, <1>6, <1>7, <1>8, <1>9 DEF LinkStep, WorkerStep, ThreadStep

LEMMA LinkStepWorkers ==
    ASSUME LinkTypes, WorkersInv, NEW w \in Worker, LinkStep(w)
    PROVE  WorkersInv'
<1> USE DEF LinkTypes, Write
<1>1. UNCHANGED owned /\ OthersStay(w) BY LinkStepFrames
<1>2. ASSUME NEW v \in Worker, v # w PROVE RequestIsNew(v)' /\ MemberInv(v)'
  BY <1>1, <1>2 DEF WorkersInv, OthersStay, RequestIsNew, MemberInv, Alive, owned
<1>3. RequestIsNew(w) /\ MemberInv(w) BY DEF WorkersInv
<1>4. RequestIsNew(w)'
  <2> USE <1>3 DEF RequestIsNew
  <2>1. CASE Boot(w) \/ Reply(w) BY <2>1 DEF Boot, Reply
  <2>2. CASE Receive(w)
    <3>1. ASSUME NEW n, toChild[w] = <<n>> PROVE Tail(toChild[w]) = <<>> /\ Head(toChild[w]) = n
      BY <3>1
    <3> QED BY <2>2, <3>1 DEF Receive
  <2>3. CASE Die(w) BY <2>3 DEF Die
  <2>4. CASE ThreadSends(w)
    <3>1. exchange[w].payload \in 1 .. MaxWaves
      <4>1. wave[w] \in 0 .. MaxWaves /\ exchange[w].payload \in 0 .. MaxWaves OBVIOUS
      <4>2. wave[w] < exchange[w].payload BY <2>4 DEF ThreadSends
      <4> QED BY <4>1, <4>2, PoolAssumption
    <3>2. toChild'[w] = <<exchange[w].payload>> BY <2>4 DEF ThreadSends
    <3> QED BY <2>4, <3>1, <3>2 DEF ThreadSends, child
  <2>5. CASE ThreadReceives(w) \/ PeerLost(w) \/ OwnEndClosed(w) \/ ThreadEnds(w)
    BY <2>5 DEF ThreadReceives, PeerLost, OwnEndClosed, ThreadBreaks, Concluded, ThreadEnds, child, pipe
  <2> QED BY <2>1, <2>2, <2>3, <2>4, <2>5 DEF LinkStep, WorkerStep, ThreadStep
<1>5. MemberInv(w)'
  <2>1. held[w] = "started"
    BY <1>3 DEF MemberInv, NoExchange, Alive, LinkStep, WorkerStep, ThreadStep, Boot, Receive,
                Reply, Die, ThreadSends, ThreadReceives, PeerLost, OwnEndClosed, ThreadEnds
  <2>2. ~ Alive(w) => ~ Alive(w)'
    BY DEF Alive, LinkStep, WorkerStep, ThreadStep, Boot, Receive, Reply, Die, ThreadSends,
           ThreadReceives, PeerLost, OwnEndClosed, ThreadBreaks, Concluded, ThreadEnds, child
  <2> QED BY <1>1, <1>3, <2>1, <2>2 DEF MemberInv, owned
<1> QED BY <1>2, <1>4, <1>5 DEF WorkersInv

\* A worker that was not spawned takes no step.
LEMMA FreshRests ==
    ASSUME NEW w \in Worker, Fresh(w) PROVE ~ LinkStep(w)
BY DEF Fresh, NoExchange, Alive, LinkStep, WorkerStep, ThreadStep, Boot, Receive, Reply, Die,
       ThreadSends, ThreadReceives, PeerLost, OwnEndClosed, ThreadEnds

\* A silent worker may only die.
LEMMA SilentMoves ==
    ASSUME LinkTypes, NEW w \in Worker, Silent(w), Open(w), LinkStep(w)
    PROVE  Silent(w)' /\ wave'[w] = wave[w] /\ exchange'[w] = exchange[w]
<1>1. Die(w)
  BY DEF Silent, Open, Empty, LinkStep, WorkerStep, ThreadStep, Boot, Receive, Reply, Die,
         ThreadSends, ThreadReceives, PeerLost, OwnEndClosed, ThreadEnds
<1>2. held' = held BY LinkStepFrames DEF owned
<1> QED BY <1>1, <1>2 DEF Die, Silent, Empty, LinkTypes

\* One that was heard may die, and its thread may end.
LEMMA HeardMoves ==
    ASSUME LinkTypes, NEW w \in Worker, Heard(w), Open(w), LinkStep(w)
    PROVE  /\ Heard(w)' /\ exchange'[w].result = exchange[w].result
           /\ exchange[w].stage = "dead" => exchange'[w].stage = "dead"
<1>1. Die(w) \/ ThreadEnds(w)
  BY DEF Heard, Answers, Open, Empty, LinkStep, WorkerStep, ThreadStep, Boot, Receive, Reply, Die,
         ThreadSends, ThreadReceives, PeerLost, OwnEndClosed, ThreadEnds
<1>2. UNCHANGED <<held, point, op>> BY LinkStepFrames DEF owned, session, call
<1>3. Called' = Called /\ Answer' = Answer BY <1>2 DEF Called, Answer
<1>4. CASE Die(w)
  BY <1>2, <1>3, <1>4 DEF Die, Heard, Answers, Empty, LinkTypes
<1>5. CASE ThreadEnds(w)
  BY <1>2, <1>3, <1>5 DEF ThreadEnds, Heard, Answers, Empty, LinkTypes, child, pipe
<1> QED BY <1>1, <1>4, <1>5

\* An exchange under way goes on, whatever its worker and its thread do.
LEMMA BusyMoves ==
    ASSUME LinkTypes, op \in {"start", "wave"}, NEW w \in Worker,
           Busy(w), Open(w), loose = {}, LinkStep(w)
    PROVE  Busy(w)'
<1>1. UNCHANGED <<held, point, op>> BY LinkStepFrames DEF owned, session, call
<1>2. Called' = Called /\ Answer' = Answer BY <1>1 DEF Called, Answer
<1>3. held'[w] = "started" BY <1>1 DEF Busy
<1> DEFINE Waits == exchange[w].stage \in {"send", "recv"} =>
                       exchange[w].payload = Called /\ exchange[w].result = NoFrame
<1>4. Waits BY DEF Busy
<1>5. ~ pipeClosed[w] BY DEF Open
<1> HIDE DEF Waits
<1> USE DEF LinkTypes
<1>6. CASE Heard(w) BY <1>6, <1>1, HeardMoves DEF Busy, Heard
<1>7. CASE Cut(w)
  <2>1. ThreadEnds(w)
    BY <1>7 DEF Cut, Empty, Alive, LinkStep, WorkerStep, ThreadStep, Boot, Receive, Reply, Die,
         ThreadSends, ThreadReceives, PeerLost, OwnEndClosed
  <2> QED BY <1>3, <1>7, <2>1 DEF ThreadEnds, Cut, Busy, Empty, child, pipe
<1>8. CASE Lost(w)
  <2>1. PeerLost(w)
    BY <1>5, <1>8 DEF Lost, Empty, Alive, LinkStep, WorkerStep, ThreadStep, Boot, Receive, Reply, Die,
         ThreadSends, ThreadReceives, ThreadEnds, OwnEndClosed
  <2> QED BY <1>3, <1>8, <2>1 DEF PeerLost, ThreadBreaks, Concluded, Lost, Cut, Busy, Empty, child, pipe
<1>9. CASE Sent(w)
  <2>1. ThreadSends(w) \/ Die(w) \/ PeerLost(w)
    BY <1>5, <1>9 DEF Sent, Empty, LinkStep, WorkerStep, ThreadStep, Boot, Receive, Reply,
         ThreadReceives, ThreadEnds, OwnEndClosed
  <2>2. CASE ThreadSends(w)
    <3>1. proc[w] = "recv" BY <1>9, <2>2 DEF ThreadSends, PeerGone, Sent
    <3>2. exchange[w].payload = Called /\ exchange[w].result = NoFrame BY <1>4, <1>9 DEF Waits, Sent
    <3>3. toChild'[w] = <<Called>> BY <1>9, <2>2, <3>2 DEF ThreadSends, Sent, Empty
    <3>4. /\ exchange'[w].stage = "recv" /\ exchange'[w].payload = Called
          /\ exchange'[w].result = NoFrame
      BY <2>2, <3>2 DEF ThreadSends
    <3> QED BY <1>1, <1>2, <1>3, <1>9, <2>2, <3>1, <3>3, <3>4
            DEF ThreadSends, Sent, Queued, Busy, Empty, child, NoFrame
  <2>3. CASE Die(w)
    BY <1>1, <1>2, <1>3, <1>4, <1>9, <2>3 DEF Die, Sent, Busy, Empty, Waits, NoFrame
  <2>4. CASE PeerLost(w)
    BY <1>3, <1>9, <2>4 DEF PeerLost, PeerGone, ThreadBreaks, Concluded, Sent, Cut, Busy, Empty, child, pipe
  <2> QED BY <2>1, <2>2, <2>3, <2>4
<1>10. CASE Queued(w)
  <2>1. Receive(w) \/ Die(w)
    BY <1>5, <1>10 DEF Queued, PeerGone, LinkStep, WorkerStep, ThreadStep, Boot, Reply,
         ThreadSends, ThreadReceives, PeerLost, ThreadEnds, OwnEndClosed
  <2>2. CASE Receive(w)
    <3>1. Head(<<Called>>) = Called /\ Tail(<<Called>>) = <<>> /\ <<Called>> # <<>> OBVIOUS
    <3> QED BY <1>1, <1>2, <1>3, <1>4, <1>10, <2>2, <3>1
            DEF Receive, Queued, Computing, Busy, Empty, Waits, NoFrame
  <2>3. CASE Die(w)
    BY <1>1, <1>2, <1>3, <1>4, <1>10, <2>3 DEF Die, Queued, Lost, Busy, Empty, Waits, NoFrame
  <2> QED BY <2>1, <2>2, <2>3
<1>11. CASE Computing(w)
  <2>1. Boot(w) \/ Reply(w) \/ Die(w)
    BY <1>5, <1>11 DEF Computing, Empty, PeerGone, LinkStep, WorkerStep, ThreadStep, Receive,
         ThreadSends, ThreadReceives, PeerLost, ThreadEnds, OwnEndClosed
  <2>2. CASE Die(w)
    BY <1>1, <1>2, <1>3, <1>4, <1>11, <2>2 DEF Die, Computing, Lost, Busy, Empty, Waits, NoFrame
  <2>3. CASE Boot(w) \/ Reply(w)
    <3>1. PICK frame : /\ toParent'[w] = <<frame>> /\ frame \in {Answer} \cup Refusals
                       /\ proc'[w] = IF frame = Answer THEN "recv" ELSE "exit"
                       /\ frame # Answer => op = "wave"
      <4>1. \A frame : Append(<<>>, frame) = <<frame>> OBVIOUS
      <4>2. ASSUME NEW frame, NEW next, Write(w, frame, next)
            PROVE  toParent'[w] = <<frame>> /\ proc'[w] = next
        BY <1>5, <1>11, <4>1, <4>2 DEF Write, Computing, Empty
      <4>3. CASE Boot(w)
        BY <1>11, <4>2, <4>3 DEF Boot, Computing, Answer
      <4>4. CASE Reply(w) /\ Write(w, [kind |-> "ok", wave |-> wave[w]], "recv")
        BY <1>11, <4>2, <4>4 DEF Reply, Computing, Called, Answer
      <4>5. ASSUME NEW reason \in {"callback", "control", "contract"}, Reply(w),
                   Write(w, [kind |-> reason, wave |-> 0], "exit")
            PROVE  /\ toParent'[w] = <<[kind |-> reason, wave |-> 0]>>
                   /\ [kind |-> reason, wave |-> 0] \in Refusals \ {Answer}
                   /\ proc'[w] = "exit" /\ op = "wave"
        <5>1. op = "wave" BY <1>11, <4>5 DEF Reply, Computing
        <5> QED BY <4>2, <4>5, <5>1 DEF Answer, Refusals
      <4> QED BY <2>3, <4>3, <4>4, <4>5 DEF Reply
    <3>2. Answers(w, frame)'
      BY <1>1, <1>2, <1>11, <2>3, <3>1 DEF Answers, Refusals, Computing, Boot, Reply
    <3>3. exchange' = exchange /\ toChild' = toChild BY <2>3 DEF Boot, Reply
    <3>4. Answered(w)' BY <1>2, <1>11, <3>1, <3>2, <3>3 DEF Answered, Computing, Empty, Refusals
    <3> QED BY <1>2, <1>3, <1>4, <3>3, <3>4 DEF Busy, Waits, NoFrame
  <2> QED BY <2>1, <2>2, <2>3
<1>12. CASE Answered(w)
  <2>1. PICK frame \in {Answer} \cup Refusals : toParent[w] = <<frame>> /\ Answers(w, frame)
    BY <1>12 DEF Answered
  <2>2. ThreadReceives(w) \/ Die(w)
    BY <1>5, <1>12, <2>1 DEF Answered, Answers, PeerGone, LinkStep, WorkerStep, ThreadStep, Boot,
         Receive, Reply, ThreadSends, PeerLost, ThreadEnds, OwnEndClosed
  <2>3. CASE ThreadReceives(w)
    <3>1. Head(<<frame>>) = frame /\ Tail(<<frame>>) = <<>> OBVIOUS
    <3>2. /\ exchange'[w].stage = "ending" /\ exchange'[w].result = frame
          /\ toParent'[w] = <<>> /\ toChild' = toChild /\ UNCHANGED child
      BY <2>1, <2>3, <3>1 DEF ThreadReceives, Concluded
    <3>3. Heard(w)'
      BY <1>1, <1>2, <1>3, <1>12, <2>1, <3>2 DEF Heard, Answers, Answered, Empty, child
    <3> QED BY <1>3, <3>2, <3>3 DEF Busy
  <2>4. CASE Die(w)
    <3>1. Answers(w, frame)' BY <1>1, <1>2, <2>1, <2>4 DEF Answers, Die
    <3>2. toParent'[w] = <<frame>> /\ exchange' = exchange /\ toChild'[w] = <<>>
      BY <2>1, <2>4 DEF Die
    <3>3. Answered(w)' BY <1>2, <1>12, <3>1, <3>2 DEF Answered, Refusals
    <3> QED BY <1>2, <1>3, <1>4, <3>2, <3>3 DEF Busy, Waits, NoFrame
  <2> QED BY <2>2, <2>3, <2>4
<1> QED BY <1>6, <1>7, <1>8, <1>9, <1>10, <1>11, <1>12 DEF Busy

\* One of whom nothing is left takes no step.
LEMMA SettledRests ==
    ASSUME NEW w \in Worker, proc[w] \in {"none", "dead"},
           exchange[w].stage \notin {"send", "recv", "ending"}
    PROVE  ~ LinkStep(w)
BY DEF Alive, LinkStep, WorkerStep, ThreadStep, Boot, Receive, Reply, Die, ThreadSends,
       ThreadReceives, PeerLost, OwnEndClosed, ThreadEnds

\* A worker's place follows what the worker and its thread do.
LEMMA PlaceMoves ==
    ASSUME IInv, phase \in {"starting", "ready"}, NEW w \in Worker, LinkStep(w)
    PROVE  Place(w)'
<1>1. UNCHANGED <<session, call, owned>> BY LinkStepFrames, TypeHalves DEF IInv
<1>2. /\ loose = {} /\ Open(w) /\ Place(w) /\ LinkTypes /\ OwnerTypes
  BY TypeHalves DEF IInv, WorkingInv
<1>3. /\ pc' = pc /\ todo' = todo /\ active' = active /\ waiting' = waiting /\ op' = op
      /\ point' = point
  BY <1>1 DEF session, call
<1>4. pc # "idle" => op \in {"start", "wave"} BY DEF IInv, ControlInv
<1>5. /\ Fresh(w) => FALSE
      /\ Silent(w) => Silent(w)' /\ wave'[w] = wave[w]
      /\ Heard(w) => /\ Heard(w)'
                     /\ exchange[w].stage = "dead" => exchange'[w].stage = "dead"
      /\ pc # "idle" /\ Busy(w) => Busy(w)'
  BY <1>2, <1>4, FreshRests, SilentMoves, HeardMoves, BusyMoves
<1>6. Quiet(w) => Quiet(w)' BY <1>3, <1>5 DEF Quiet
<1> HIDE DEF Fresh, Silent, Quiet, Heard, Busy
<1> QED BY <1>2, <1>3, <1>5, <1>6 DEF Place

LEMMA LinkStepKeeps ==
    ASSUME IInv, NEW w \in Worker, LinkStep(w)
    PROVE  IInv'
<1>1. /\ UNCHANGED <<session, call, owned, faults>> /\ OthersStay(w)
  BY LinkStepFrames, TypeHalves DEF IInv
<1>2. LinkTypes' /\ WorkersInv' BY LinkStepTypes, LinkStepWorkers, TypeHalves DEF IInv
<1>3. OwnerTypes' BY <1>1, TypeHalves DEF IInv, OwnerTypes, session, call
<1>4. TypeOK'
  <2>1. OwnerTypes' /\ LinkTypes' BY <1>2, <1>3
  <2> QED BY <2>1, TypeHalves, PTL
<1>5. ContractsHold' BY <1>1 DEF IInv, ContractsHold, call
<1>6. ControlInv' BY <1>1 DEF IInv, ControlInv, Members, session, call, owned
<1>7. WorkingInv'
  <2> SUFFICES ASSUME phase' \in {"starting", "ready"}, NEW v \in Worker
               PROVE  loose' = {} /\ Open(v)' /\ Place(v)'
    BY DEF WorkingInv
  <2>1. phase = phase' BY <1>1 DEF session
  <2>2. loose' = {} /\ Open(v)' /\ Open(v) /\ Place(v)
    BY <1>1, <2>1 DEF IInv, WorkingInv, Open, owned
  <2>3. CASE v = w BY <2>1, <2>2, <2>3, PlaceMoves
  <2>4. CASE v # w
    <3>1. SameLink(v) /\ UNCHANGED <<op, point>>
      BY <1>1, <2>4 DEF OthersStay, SameLink, owned, session, call
    <3>2. /\ Fresh(v)' = Fresh(v) /\ Silent(v)' = Silent(v) /\ Quiet(v)' = Quiet(v)
          /\ Heard(v)' = Heard(v) /\ Busy(v)' = Busy(v)
      BY <3>1, SameLinks
    <3>3. /\ pc' = pc /\ todo' = todo /\ active' = active /\ waiting' = waiting
          /\ wave'[v] = wave[v] /\ exchange'[v] = exchange[v] /\ point' = point
      BY <1>1, <3>1 DEF SameLink, call
    <3> QED BY <2>2, <3>2, <3>3 DEF Place
  <2> QED BY <2>2, <2>3, <2>4
<1>8. ASSUME NEW v \in Worker, Settled(v) PROVE Settled(v)'
  <2>1. CASE v = w
    <3>1. ~ Alive(v) BY <1>8 DEF IInv, WorkersInv, MemberInv, Settled
    <3> QED BY <2>1, <3>1, <1>8, SettledRests DEF Alive, Settled
  <2>2. CASE v # w BY <1>1, <1>8, <2>2 DEF Settled, OthersStay, owned
  <2> QED BY <2>1, <2>2
<1>9. CleanupInv'
  <2>1. /\ pc' = pc /\ errors' = errors /\ todo' = todo /\ loose' = loose
        /\ pipeClosed' = pipeClosed /\ Members' = Members
    BY <1>1 DEF call, owned, Members
  <2>2. Members \subseteq Worker BY DEF Members
  <2> QED BY <1>8, <2>1, <2>2 DEF IInv, CleanupInv
<1>10. ClosedIsReleased'
  <2> SUFFICES ASSUME ~ ClosedIsReleased' PROVE FALSE OBVIOUS
  <2>1. Released BY <1>1 DEF IInv, ClosedIsReleased, session, call
  <2> QED BY <2>1, SettledRests DEF Released, ThreadAlive
<1> QED BY <1>2, <1>4, <1>5, <1>6, <1>7, <1>9, <1>10 DEF IInv

-----------------------------------------------------------------------------
(***************************************************************************)
(* The steps of a start and of a wave.                                     *)
(***************************************************************************)

\* While a call works, its session is not failed.
LEMMA Working ==
    ASSUME IInv, pc \in StartPlaces \cup WavePlaces
    PROVE  /\ phase \in {"starting", "ready"} /\ op \in {"start", "wave"}
           /\ phase = "starting" => op = "start" /\ ~ built /\ active = Worker /\ pc \in StartPlaces
           /\ phase = "ready" => op = "wave" /\ built /\ pc \in WavePlaces /\ point < MaxWaves
           /\ loose = {} /\ \A w \in Worker : Open(w) /\ Place(w)
           /\ OwnerTypes /\ LinkTypes /\ WorkersInv
<1>1. phase \in {"starting", "ready"}
  BY TypeHalves DEF IInv, ControlInv, OwnerTypes, CleanupPlaces, StartPlaces, WavePlaces
<1> QED BY <1>1, TypeHalves DEF IInv, ControlInv, WorkingInv, StartPlaces, WavePlaces

\* A session that is starting or ready stays so.
LEMMA GoesOn ==
    ASSUME IInv, WorkersInv', LinkTypes', OwnerTypes', ControlInv', failure' \in {failure, NoFailure},
           phase' \in {"starting", "ready"}, loose' = {},
           \A w \in Worker : Open(w)' /\ Place(w)'
    PROVE  IInv'
<1>1. TypeOK' BY TypeHalves, PTL
<1>2. ContractsHold' BY DEF IInv, ContractsHold, NoFailure
<1>3. WorkingInv' BY DEF WorkingInv
<1>4. CleanupInv'
  BY DEF CleanupInv, ControlInv, StartPlaces, WavePlaces, CleanupPlaces
<1>5. ClosedIsReleased' BY DEF ClosedIsReleased, ControlInv
<1> QED BY <1>1, <1>2, <1>3, <1>4, <1>5 DEF IInv

\* A step of the owner's control alone: what goes on, and what raises.
LEMMA ControlGoesOn ==
    ASSUME IInv, pc \in StartPlaces \cup WavePlaces, UNCHANGED linkVars, UNCHANGED <<op, point, phase>>,
           OwnerTypes', ControlInv', failure' = failure, faults' = faults,
           \A w \in Worker : Place(w)'
    PROVE  IInv'
<1>1. WorkersInv' /\ LinkTypes' BY Working, SameWorkers DEF LinkTypes
<1>2. loose' = {} /\ phase' \in {"starting", "ready"} BY Working DEF linkVars, owned
<1>3. \A w \in Worker : Open(w)' BY Working DEF Open, linkVars, owned
<1> QED BY <1>1, <1>2, <1>3, GoesOn

LEMMA ControlRaises ==
    ASSUME IInv, pc \in StartPlaces \cup WavePlaces, UNCHANGED linkVars, faults' \in 0 .. MaxFaults,
           NEW reason, NEW w \in Worker, Raise(reason, w),
           reason \notin {"startup_contract", "transport_contract", "response_contract"}
    PROVE  IInv'
<1>1. WorkersInv' /\ LinkTypes' BY Working, SameWorkers
<1> QED BY <1>1, Working, RaiseKeeps

\* The checks of the deadline, of cancel and of the workers raise soundly.
LEMMA CheckRaises ==
    ASSUME IInv, pc \in StartPlaces \cup WavePlaces, UNCHANGED <<linkVars, faults>>, CheckFails
    PROVE  IInv'
<1>1. faults' \in 0 .. MaxFaults BY Working DEF LinkTypes
<1>2. CASE cancelled BY <1>1, <1>2, ZeroIsWorker, ControlRaises DEF CheckFails
<1>3. CASE ~ cancelled BY <1>1, <1>3, ZeroIsWorker, ControlRaises DEF CheckFails
<1> QED BY <1>2, <1>3

LEMMA DeadRaises ==
    ASSUME IInv, pc \in StartPlaces \cup WavePlaces, UNCHANGED <<linkVars, faults>>,
           Dead # {}, Raise("worker_died", Least(Dead))
    PROVE  IInv'
<1>1. faults' \in 0 .. MaxFaults BY Working DEF LinkTypes
<1>2. Least(Dead) \in Worker BY LeastIn DEF Dead
<1> QED BY <1>1, <1>2, ControlRaises

\* What a step of the owner's control leaves of every worker's place.
LEMMA PlacesSame ==
    ASSUME UNCHANGED linkVars, UNCHANGED <<op, point>>, NEW w \in Worker
    PROVE  /\ Fresh(w)' = Fresh(w) /\ Silent(w)' = Silent(w) /\ Quiet(w)' = Quiet(w)
           /\ Heard(w)' = Heard(w) /\ Busy(w)' = Busy(w)
           /\ exchange'[w] = exchange[w] /\ wave'[w] = wave[w]
BY LinksUnchanged, SameLinks DEF SameLink

LEMMA EnterKeeps == ASSUME IInv, Enter PROVE IInv'
<1> USE DEF Enter, linkVars
<1>1. CASE ~ MayContinue BY <1>1, CheckRaises DEF CheckAlive, WavePlaces
<1>2. CASE MayContinue /\ Dead # {} BY <1>2, DeadRaises DEF CheckAlive, WavePlaces
<1>3. CASE Goto("dispatch", active)
  <2>1. OwnerTypes' BY <1>3, TypeHalves DEF IInv, Goto, OwnerTypes, WavePlaces, session
  <2>2. ControlInv' BY <1>3 DEF IInv, ControlInv, Goto, StartPlaces, WavePlaces, CleanupPlaces, session
  <2>3. UNCHANGED <<op, point, phase, failure, active>> BY <1>3 DEF Goto, session
  <2>4. \A w \in Worker : Place(w)'
    BY <1>3, <2>3, Working, PlacesSame DEF Goto, Place, WavePlaces
  <2> QED BY <2>1, <2>2, <2>3, <2>4, ControlGoesOn DEF WavePlaces
<1> QED BY <1>1, <1>2, <1>3 DEF CheckAlive

LEMMA PollKeeps == ASSUME IInv, Poll PROVE IInv'
<1> USE DEF Poll, linkVars
<1>1. CASE ~ MayContinue BY <1>1, CheckRaises DEF WavePlaces
<1>2. CASE MayContinue
  <2>1. OwnerTypes' BY <1>2, TypeHalves DEF IInv, OwnerTypes, WavePlaces, session
  <2>2. ControlInv'
    BY <1>2 DEF IInv, ControlInv, StartPlaces, WavePlaces, CleanupPlaces, session
  <2>3. UNCHANGED <<op, point, phase, failure, active>> BY <1>2 DEF session
  <2>4. \A w \in Worker : Place(w)'
    BY <1>2, <2>3, Working, PlacesSame DEF Place, WavePlaces
  <2> QED BY <2>1, <2>2, <2>3, <2>4, ControlGoesOn DEF WavePlaces
<1> QED BY <1>1, <1>2

\* The loop goes on from a worker it has visited: one that was heard, or one
\* that makes it wait.
LEMMA VisitedKeeps ==
    ASSUME IInv, pc \in {"scan", "alive"}, UNCHANGED <<linkVars, faults>>, NEW pending \in BOOLEAN,
           NEW w \in todo, Visited(w, pending), waiting => pending, ~ pending => Heard(w)
    PROVE  IInv'
<1> USE DEF Visited
<1>1. /\ pc \in StartPlaces \cup WavePlaces /\ todo \subseteq active /\ active # {}
      /\ active \subseteq Worker
  BY TypeHalves DEF StartPlaces, WavePlaces, IInv, ControlInv, OwnerTypes
<1>2. OwnerTypes' BY TypeHalves DEF IInv, OwnerTypes, WavePlaces, session
<1>3. ControlInv'
  BY <1>1 DEF IInv, ControlInv, StartPlaces, WavePlaces, CleanupPlaces, session
<1>4. UNCHANGED <<op, point, phase, failure, active>> BY DEF session
<1>5. ASSUME NEW v \in Worker PROVE Place(v)'
  <2>1. /\ v \in active => Busy(v)
        /\ v \notin active => Quiet(v)
        /\ (~ waiting /\ v \in active \ todo) => Heard(v)
    BY <1>1, Working DEF Place
  <2> QED BY <1>1, <1>4, <2>1, PlacesSame DEF Place
<1> QED BY <1>1, <1>2, <1>3, <1>4, <1>5, ControlGoesOn

LEMMA ScanKeeps == ASSUME IInv, Scan PROVE IInv'
<1> USE DEF Scan, linkVars
<1> DEFINE w == Least(todo)
<1>1. pc \in StartPlaces \cup WavePlaces BY DEF WavePlaces
<1>2. w \in todo /\ w \in Worker /\ w \in active /\ Busy(w)
  <2>1. todo # {} /\ todo \subseteq active /\ todo \subseteq Worker
    BY <1>1, Working DEF IInv, ControlInv, OwnerTypes
  <2>2. w \in todo BY <2>1, LeastIn
  <2> QED BY <1>1, <2>1, <2>2, Working DEF Place
<1> HIDE DEF w
<1>3. CASE Done(w) /\ exchange[w].result = Broken
  <2>1. Raise("transport", w) BY <1>3 DEF Done, w
  <2>2. faults' \in 0 .. MaxFaults BY <1>1, Working DEF LinkTypes
  <2> QED BY <1>1, <1>2, <2>1, <2>2, ControlRaises
<1>4. CASE Done(w) /\ exchange[w].result # Broken
  <2>1. Heard(w)
    BY <1>2, <1>4 DEF Busy, Done, Sent, Queued, Computing, Answered, Lost, Cut
  <2>2. Visited(w, waiting) BY <1>4 DEF Done, w
  <2>3. waiting \in BOOLEAN BY <1>1, Working DEF OwnerTypes
  <2> QED BY <1>2, <2>1, <2>2, <2>3, VisitedKeeps
<1>5. CASE ~ Done(w)
  <2>0. Goto("alive", todo) BY <1>5 DEF w
  <2>1. OwnerTypes' BY <2>0, TypeHalves DEF IInv, Goto, OwnerTypes, WavePlaces, session
  <2>2. ControlInv'
    BY <2>0 DEF IInv, ControlInv, Goto, StartPlaces, WavePlaces, CleanupPlaces, session
  <2>3. UNCHANGED <<op, point, phase, failure, active, todo, waiting>> BY <2>0 DEF Goto, session
  <2>4. \A v \in Worker : Place(v)'
    BY <1>1, <2>0, <2>3, Working, PlacesSame DEF Goto, Place, WavePlaces
  <2> QED BY <1>1, <2>1, <2>2, <2>3, <2>4, ControlGoesOn
<1> QED BY <1>3, <1>4, <1>5

LEMMA IsAliveKeeps == ASSUME IInv, IsAlive PROVE IInv'
<1> USE DEF IsAlive, linkVars
<1> DEFINE w == Least(todo)
<1>1. pc \in StartPlaces \cup WavePlaces BY DEF WavePlaces
<1>2. w \in todo /\ w \in Worker
  <2>1. todo # {} /\ todo \subseteq Worker
    BY <1>1, Working DEF IInv, ControlInv, OwnerTypes
  <2> QED BY <2>1, LeastIn
<1> HIDE DEF w
<1>3. CASE Visited(w, TRUE) BY <1>2, <1>3, VisitedKeeps
<1>4. CASE Raise("worker_died", w)
  <2>1. faults' \in 0 .. MaxFaults BY <1>1, Working DEF LinkTypes
  <2> QED BY <1>1, <1>2, <1>4, <2>1, ControlRaises
<1> QED BY <1>3, <1>4 DEF w

\* The result of an exchange that was heard is never missing.
LEMMA JoinKeeps == ASSUME IInv, Join PROVE IInv'
<1> USE DEF Join, linkVars
<1> DEFINE w == Least(todo)
<1>1. pc \in StartPlaces \cup WavePlaces BY DEF WavePlaces
<1>2. /\ w \in todo /\ w \in Worker /\ w \in active /\ Heard(w) /\ todo \subseteq active
      /\ active \subseteq Worker
  <2>1. todo # {} /\ todo \subseteq active /\ todo \subseteq Worker /\ active \subseteq Worker
    BY <1>1, Working DEF IInv, ControlInv, OwnerTypes
  <2>2. w \in todo BY <2>1, LeastIn
  <2> QED BY <1>1, <2>1, <2>2, Working DEF Place
<1> HIDE DEF w
<1>3. exchange[w].result # NoFrame BY <1>2 DEF Heard, Answers, Answer, Refusals, NoFrame
<1>4. CASE ThreadAlive(w) /\ Raise("transport_cleanup", w)
  <2>1. faults' \in 0 .. MaxFaults BY <1>1, Working DEF LinkTypes
  <2> QED BY <1>1, <1>2, <1>4, <2>1, ControlRaises
<1>5. CASE /\ ~ ThreadAlive(w)
           /\ IF todo = {w} THEN Goto("accept", {}) ELSE Goto("join", todo \ {w})
  <2>0. exchange[w].stage = "dead" BY <1>2, <1>5 DEF Heard, ThreadAlive
  <2>1. OwnerTypes' BY <1>5, TypeHalves DEF IInv, Goto, OwnerTypes, WavePlaces, session
  <2>2. ControlInv'
    BY <1>2, <1>5 DEF IInv, ControlInv, Goto, StartPlaces, WavePlaces, CleanupPlaces, session
  <2>3. UNCHANGED <<op, point, phase, failure, active>> BY <1>5 DEF Goto, session
  <2>4. ASSUME NEW v \in Worker PROVE Place(v)'
    <3>1. /\ v \in active => Heard(v)
          /\ v \notin active => Quiet(v)
          /\ (v \in active /\ v \notin todo) => exchange[v].stage = "dead"
      BY <1>1, Working DEF Place
    <3> QED BY <1>5, <2>0, <2>3, <3>1, PlacesSame DEF Goto, Place
  <2> QED BY <1>1, <2>1, <2>2, <2>3, <2>4, ControlGoesOn
<1> QED BY <1>3, <1>4, <1>5 DEF w

\* At the end of a startup every worker is ready, and at the end of a wave an
\* unexpected answer is the report of an exception.
LEMMA AcceptKeeps == ASSUME IInv, Accept PROVE IInv'
<1> USE DEF Accept, linkVars
<1> DEFINE unexpected == {w \in active : ~ Expected(w)}
<1>1. pc \in StartPlaces \cup WavePlaces /\ faults' \in 0 .. MaxFaults
  <2>1. pc \in StartPlaces \cup WavePlaces BY DEF WavePlaces
  <2> QED BY <2>1, Working DEF LinkTypes
<1>2. /\ \A w \in active : w \in Worker /\ Heard(w) /\ exchange[w].stage = "dead"
      /\ \A w \in Worker \ active : Quiet(w)
  BY <1>1, Working DEF Place, OwnerTypes
<1>3. ASSUME NEW w \in active, Expected(w)
      PROVE  Silent(w) /\ wave[w] = Called
  BY <1>2, <1>3 DEF Expected, Heard, Answers, Answer, Refusals, Silent
<1>4. CASE ~ MayContinue BY <1>1, <1>4, CheckRaises
<1>5. CASE unexpected # {} /\ Raise(Verdict(Least(unexpected)), Least(unexpected))
  <2> DEFINE w == Least(unexpected)
  <2>1. w \in unexpected /\ w \in Worker
    <3>1. unexpected \in SUBSET Worker BY <1>2
    <3> HIDE DEF unexpected
    <3> QED BY <1>5, <3>1, LeastIn
  <2>2. exchange[w].result # Answer /\ Heard(w)
    BY <1>2, <2>1 DEF Expected, Answer
  <2>3. op = "wave" /\ exchange[w].result.kind \in {"callback", "control", "contract"}
    BY <2>2 DEF Heard, Answers, Refusals
  <2>4. Verdict(w) \in {"callback", "control", "contract"} BY <2>3 DEF Verdict
  <2> HIDE DEF w
  <2>5. Raise(Verdict(w), w) BY <1>5 DEF w
  <2> QED BY <1>1, <2>1, <2>4, <2>5, ControlRaises
<1>6. CASE MayContinue /\ op = "start" /\ unexpected = {}
  <2>1. /\ phase' = "ready" /\ built' = TRUE /\ pc' = "idle" /\ CallOver
        /\ UNCHANGED <<point, eof, cancelled, op, errors, failure>>
    BY <1>6
  <2>2. OwnerTypes' BY <1>6, <2>1, TypeHalves DEF IInv, OwnerTypes, CallOver
  <2>3. ControlInv' BY <1>6, <2>1 DEF ControlInv, WavePlaces
  <2>4. WorkersInv' /\ LinkTypes' BY <1>1, Working, SameWorkers DEF LinkTypes
  <2>5. ASSUME NEW w \in Worker PROVE Open(w)' /\ Place(w)'
    <3>1. Open(w)' BY <1>1, Working DEF Open, owned
    <3>2. w \in active BY <1>1, <1>6, Working
    <3>3. Quiet(w)
      <4>1. Silent(w) /\ wave[w] = Called BY <1>3, <1>6, <3>2
      <4>2. point \in Nat BY TypeHalves DEF IInv, OwnerTypes
      <4> QED BY <1>6, <4>1, <4>2 DEF Quiet, Called
    <3>4. Place(w)' BY <2>1, <3>3, PlacesSame DEF Place
    <3> QED BY <3>1, <3>4
  <2>6. loose' = {} BY <1>1, Working DEF owned
  <2> QED BY <1>6, <2>1, <2>2, <2>3, <2>4, <2>5, <2>6, GoesOn
<1>7. CASE op # "start" /\ unexpected = {} /\ Goto("verified", {})
  <2>1. OwnerTypes' BY <1>7, TypeHalves DEF IInv, Goto, OwnerTypes, WavePlaces, session
  <2>2. ControlInv'
    BY <1>7 DEF IInv, ControlInv, Goto, StartPlaces, WavePlaces, CleanupPlaces, session
  <2>3. UNCHANGED <<op, point, phase, failure, active>> BY <1>7 DEF Goto, session
  <2>4. ASSUME NEW w \in Worker PROVE Place(w)'
    <3>1. w \in active => Silent(w) /\ wave[w] = point + 1 BY <1>3, <1>7 DEF Called
    <3> QED BY <1>2, <1>7, <2>3, <3>1, PlacesSame DEF Goto, Place
  <2> QED BY <1>1, <2>1, <2>2, <2>3, <2>4, ControlGoesOn
<1>8. CASE Raise("output_limit", 0) BY <1>1, <1>8, ZeroIsWorker, ControlRaises
<1> QED BY <1>4, <1>5, <1>6, <1>7, <1>8

\* The two checks before publication.
LEMMA CheckedKeeps ==
    ASSUME IInv, UNCHANGED <<linkVars, faults>>, NEW next \in {"admit", "install"},
           pc = IF next = "admit" THEN "verified" ELSE "admit",
           CheckAlive(Goto(next, {}))
    PROVE  IInv'
<1>1. pc \in StartPlaces \cup WavePlaces BY DEF WavePlaces
<1>2. CASE ~ MayContinue BY <1>1, <1>2, CheckRaises DEF CheckAlive
<1>3. CASE MayContinue /\ Dead # {} BY <1>1, <1>3, DeadRaises DEF CheckAlive
<1>4. CASE MayContinue /\ Goto(next, {})
  <2>1. OwnerTypes' BY <1>4, TypeHalves DEF IInv, Goto, OwnerTypes, WavePlaces, session
  <2>2. ControlInv'
    BY <1>4 DEF IInv, ControlInv, Goto, MayContinue, StartPlaces, WavePlaces, CleanupPlaces, session
  <2>3. UNCHANGED <<op, point, phase, failure, active>> BY <1>4 DEF Goto, session
  <2>4. \A w \in Worker : Place(w)'
    BY <1>1, <1>4, <2>3, Working, PlacesSame DEF Goto, Place
  <2> QED BY <1>1, <2>1, <2>2, <2>3, <2>4, ControlGoesOn
<1> QED BY <1>2, <1>3, <1>4 DEF CheckAlive

LEMMA VerifiedAndAdmitKeep == ASSUME IInv, Verified \/ Admit PROVE IInv'
<1>1. CASE Verified BY <1>1, CheckedKeeps DEF Verified, linkVars
<1>2. CASE Admit BY <1>2, CheckedKeeps DEF Admit, linkVars
<1> QED BY <1>1, <1>2

\* The published wave is the one every addressed worker computed.
LEMMA InstallKeeps == ASSUME IInv, Install PROVE IInv'
<1> USE DEF Install, linkVars, CallOver
<1>1. pc \in StartPlaces \cup WavePlaces /\ pc \notin StartPlaces BY DEF WavePlaces, StartPlaces
<1>2. point < MaxWaves /\ phase = "ready" /\ op = "wave" /\ built BY <1>1, Working
<1>3. faults' \in 0 .. MaxFaults
  BY <1>1, Working, FaultsBounded DEF LinkTypes, NoFault
<1>4. WorkersInv' /\ LinkTypes' BY <1>1, <1>3, Working, SameWorkers
<1>5. point + 1 \in 0 .. MaxWaves
  BY <1>2, TypeHalves, PoolAssumption DEF IInv, OwnerTypes
<1>6. OwnerTypes'
  <2>1. OwnerTypes BY TypeHalves DEF IInv
  <2>2. failure'.worker \in Worker /\ errors' \in BOOLEAN
    <3>1. CASE failure' = failure /\ errors' = errors BY <2>1, <3>1 DEF OwnerTypes
    <3>2. CASE failure' = [reason |-> "interrupt", worker |-> 0] /\ errors' = FALSE
      BY <3>2, ZeroIsWorker
    <3> QED BY <3>1, <3>2
  <2> QED BY <1>5, <2>1, <2>2 DEF OwnerTypes, CleanupPlaces
<1>7. CASE pc' = "idle"
  <2>1. /\ phase' = phase /\ failure' = failure /\ errors' = errors /\ loose' = {}
    BY <1>1, <1>7, Working DEF owned
  <2>2. ControlInv' BY <1>2, <1>7, <2>1 DEF ControlInv, WavePlaces
  <2>3. ASSUME NEW w \in Worker PROVE Open(w)' /\ Place(w)'
    <3>1. IF w \in active THEN Silent(w) /\ wave[w] = point + 1 ELSE Quiet(w)
      BY <1>1, Working DEF Place
    <3>2. Silent(w)' /\ wave'[w] = wave[w]
      BY <3>1 DEF Quiet, Silent, Empty, child, pipe, owned
    <3>3. wave[w] <= point + 1
      BY <3>1, <1>1, Working DEF Quiet, LinkTypes, OwnerTypes
    <3>4. Open(w)' BY <1>1, Working DEF Open, owned
    <3> QED BY <1>7, <3>2, <3>3, <3>4 DEF Place, Quiet
  <2> QED BY <1>2, <1>4, <1>6, <2>1, <2>2, <2>3, GoesOn
<1>8. CASE pc' = "loose"
  <2>1. phase' = "failed" /\ failure' = [reason |-> "interrupt", worker |-> 0] BY <1>8
  <2>2. TypeOK'
    <3>1. OwnerTypes' /\ LinkTypes' BY <1>4, <1>6
    <3> QED BY <3>1, TypeHalves, PTL
  <2>3. ControlInv' BY <1>2, <1>8, <2>1 DEF ControlInv, WavePlaces, CleanupPlaces
  <2>4. ContractsHold' BY <2>1 DEF ContractsHold
  <2>5. WorkingInv' BY <2>1 DEF WorkingInv
  <2>6. CleanupInv' BY <1>8 DEF CleanupInv, CleanupPlaces
  <2>7. ClosedIsReleased' BY <1>8, <2>1 DEF ClosedIsReleased
  <2> QED BY <1>4, <2>2, <2>3, <2>4, <2>5, <2>6, <2>7 DEF IInv
<1> QED BY <1>7, <1>8

LEMMA InterruptKeeps == ASSUME IInv, Interrupt PROVE IInv'
<1>1. pc \in StartPlaces \cup WavePlaces BY DEF Interrupt, StartPlaces, WavePlaces
<1>2. faults' \in 0 .. MaxFaults BY <1>1, Working, FaultsBounded DEF Interrupt
<1> QED BY <1>1, <1>2, ZeroIsWorker, ControlRaises DEF Interrupt, linkVars

LEMMA ExpireKeeps == ASSUME IInv, Expire PROVE IInv'
<1> USE DEF Expire, linkVars
<1>1. pc \in StartPlaces \cup WavePlaces
  BY TypeHalves DEF IInv, OwnerTypes, StartPlaces, WavePlaces, CleanupPlaces
<1>2. OwnerTypes' BY TypeHalves DEF IInv, OwnerTypes, session
<1>3. ControlInv'
  BY DEF IInv, ControlInv, Members, session, owned
<1>4. UNCHANGED <<op, point, phase, failure, active, pc, todo, waiting>> BY DEF session
<1>5. \A w \in Worker : Place(w)' BY <1>1, <1>4, Working, PlacesSame DEF Place
<1> QED BY <1>1, <1>2, <1>3, <1>4, <1>5, ControlGoesOn

\* A flag of the session is set.
LEMMA FlagsKeep ==
    ASSUME IInv, UNCHANGED <<linkVars, faults, call, point, phase, built>>,
           eof' \in BOOLEAN, cancelled' \in BOOLEAN, pc = "install" => ~ cancelled'
    PROVE  IInv'
<1>1. OwnerTypes /\ LinkTypes BY TypeHalves DEF IInv
<1>2. WorkersInv' /\ LinkTypes' BY <1>1, SameWorkers DEF IInv, LinkTypes
<1>3. OwnerTypes' BY <1>1 DEF OwnerTypes, call
<1>4. TypeOK'
  <2>1. OwnerTypes' /\ LinkTypes' BY <1>2, <1>3
  <2> QED BY <2>1, TypeHalves, PTL
<1>5. ContractsHold' BY DEF IInv, ContractsHold, call
<1>6. ControlInv' BY DEF IInv, ControlInv, Members, call, linkVars, owned
<1>7. WorkingInv'
  <2>1. ASSUME NEW w \in Worker, Place(w) PROVE Place(w)'
    BY <2>1, PlacesSame DEF Place, call
  <2>2. ASSUME NEW w \in Worker, Open(w) PROVE Open(w)'
    BY <2>2 DEF Open, linkVars, owned
  <2> QED BY <2>1, <2>2 DEF IInv, WorkingInv, linkVars, owned
<1>8. CleanupInv'
  BY DEF IInv, CleanupInv, Settled, Members, call, linkVars, owned
<1>9. ClosedIsReleased'
  BY DEF IInv, ClosedIsReleased, Released, ThreadAlive, call, linkVars, child, owned
<1> QED BY <1>2, <1>4, <1>5, <1>6, <1>7, <1>8, <1>9 DEF IInv

LEMMA CloseSourceAndCancelKeep == ASSUME IInv, CloseSource \/ Cancel PROVE IInv'
<1>1. eof \in BOOLEAN /\ cancelled \in BOOLEAN BY TypeHalves DEF IInv, OwnerTypes
<1> QED BY <1>1, FlagsKeep DEF CloseSource, Cancel, linkVars, call

LEMMA StartWaveKeeps == ASSUME IInv, StartWave PROVE IInv'
<1> USE DEF StartWave, linkVars
<1>1. OwnerTypes /\ LinkTypes BY TypeHalves DEF IInv
<1>2. WorkersInv' /\ LinkTypes' BY <1>1, SameWorkers DEF IInv, LinkTypes
<1>3. PICK A \in (SUBSET Worker) \ {{}} : active' = A /\ todo' = A OBVIOUS
<1>4. OwnerTypes'
  BY <1>1, <1>3, ZeroIsWorker DEF OwnerTypes, WavePlaces, session, NoFailure
<1>5. ControlInv'
  <2>1. /\ phase' = "ready" /\ built' /\ pc' = "enter" /\ op' = "wave"
        /\ point' < MaxWaves /\ active' # {} /\ todo' = active'
    <3>1. phase' = phase /\ built' = built /\ point' = point BY DEF session
    <3>2. active' # {} /\ todo' = active' BY <1>3
    <3> QED BY <3>1, <3>2
  <2> QED BY <2>1 DEF ControlInv, WavePlaces
<1>6. ASSUME NEW w \in Worker PROVE Open(w)' /\ Place(w)' /\ loose' = {}
  <2>1. Quiet(w) /\ Open(w) /\ loose = {} BY DEF IInv, WorkingInv, Place
  <2>2. Silent(w)' /\ wave'[w] = wave[w] /\ Open(w)' /\ loose' = {}
    BY <2>1 DEF Quiet, Silent, Empty, Open, child, pipe, owned
  <2>3. Quiet(w)' BY <2>1, <2>2 DEF Quiet, session
  <2> QED BY <2>2, <2>3 DEF Place
<1>7. loose' = {} /\ phase' = "ready" BY <1>6, ZeroIsWorker DEF session
<1> QED BY <1>2, <1>4, <1>5, <1>6, <1>7, GoesOn

\* A cleanup that begins has promised nothing yet.
LEMMA CloseKeeps == ASSUME IInv, Close \/ HandleClose PROVE IInv'
<1> USE DEF Close, HandleClose, linkVars
<1>1. OwnerTypes /\ LinkTypes BY TypeHalves DEF IInv
<1>2. WorkersInv' /\ LinkTypes' BY <1>1, SameWorkers DEF IInv, LinkTypes
<1>3. OwnerTypes' BY <1>1 DEF OwnerTypes, CleanupPlaces, session
<1>4. TypeOK'
  <2>1. OwnerTypes' /\ LinkTypes' BY <1>2, <1>3
  <2> QED BY <2>1, TypeHalves, PTL
<1>5. phase' \in {"failed", "closing"}
  BY <1>1 DEF IInv, ControlInv, OwnerTypes, StartPlaces, session
<1>6. ControlInv' BY <1>5 DEF IInv, ControlInv, CleanupPlaces, WavePlaces, session
<1>7. ContractsHold' BY DEF IInv, ContractsHold
<1>8. WorkingInv' BY <1>5 DEF WorkingInv
<1>9. CleanupInv' BY DEF CleanupInv, CleanupPlaces
<1>10. ClosedIsReleased' BY <1>5 DEF ClosedIsReleased
<1> QED BY <1>2, <1>4, <1>6, <1>7, <1>8, <1>9, <1>10 DEF IInv

\* A refusal of several steps counts each of them.
LEMMA CountsAreNatural ==
    ASSUME NEW S \in SUBSET (Worker \X {"child", "parent"})
    PROVE  Cardinality(S) \in Nat
<1>1. IsFiniteSet(Worker) BY PoolAssumption, FS_Interval DEF Worker
<1>2. IsFiniteSet({"child", "parent"})
  <2>1. IsFiniteSet({"child"}) BY FS_Singleton
  <2>2. {"child", "parent"} = {"child"} \cup {"parent"} OBVIOUS
  <2> QED BY <2>1, <2>2, FS_AddElement
<1>3. IsFiniteSet(Worker \X {"child", "parent"}) BY <1>1, <1>2, FS_Product
<1>4. IsFiniteSet(S) BY <1>3, FS_Subset
<1> QED BY <1>4, FS_CardinalityType

\* What a failed spawn creates is recorded, for the cleanup.
LEMMA SpawnFailsKeeps ==
    ASSUME IInv, pc = "spawn", NEW w \in todo, SpawnFails(w),
           UNCHANGED <<wave, doomed, pipe, pipeClosed, procClosed>>
    PROVE  IInv'
<1>1. /\ pc \in StartPlaces \cup WavePlaces /\ w \in Worker /\ Fresh(w) /\ Open(w)
      /\ op \in {"start", "wave"} /\ LinkTypes /\ WorkersInv
  <2>1. pc \in StartPlaces \cup WavePlaces /\ w \in Worker
    BY TypeHalves DEF StartPlaces, IInv, OwnerTypes
  <2> QED BY <2>1, Working DEF Place
<1>2. /\ proc[w] = "none" /\ exchange[w] = NoExchange /\ ~ procClosed[w]
  BY <1>1 DEF Fresh, Open
<1>3. ASSUME NEW n \in Nat, Fault(n) PROVE faults' \in 0 .. MaxFaults
  BY <1>1, <1>3, FaultsBounded
<1>4. \A open \in SUBSET {<<w, "child">>, <<w, "parent">>} :
         open \subseteq Worker \X {"child", "parent"} /\ 1 + Cardinality(open) \in Nat
  BY <1>1, CountsAreNatural
<1>5. CASE /\ \E open \in SUBSET {<<w, "child">>, <<w, "parent">>} :
                 loose' = loose \cup open /\ Fault(1 + Cardinality(open))
           /\ UNCHANGED <<proc, held, exchange>> /\ Raise("spawn", w)
  <2>1. loose' \subseteq Worker \X {"child", "parent"} /\ faults' \in 0 .. MaxFaults
    BY <1>1, <1>3, <1>4, <1>5 DEF LinkTypes
  <2>2. LinkTypes' BY <1>1, <1>5, <2>1 DEF LinkTypes, pipe
  <2>3. WorkersInv' BY <1>1, <1>5 DEF WorkersInv, RequestIsNew, MemberInv, Alive, pipe
  <2> QED BY <1>1, <1>5, <2>2, <2>3, RaiseKeeps
<1>6. CASE /\ \E born \in BOOLEAN :
                 /\ held' = [held EXCEPT ![w] = IF born THEN "started" ELSE "unstarted"]
                 /\ proc' = [proc EXCEPT ![w] = IF born THEN "boot" ELSE "none"]
           /\ \E open \in SUBSET {<<w, "child">>} :
                 loose' = loose \cup open /\ Fault(1 + Cardinality(open))
           /\ UNCHANGED exchange
           /\ Raise("spawn", w)
  <2>1. PICK born \in BOOLEAN :
              /\ held' = [held EXCEPT ![w] = IF born THEN "started" ELSE "unstarted"]
              /\ proc' = [proc EXCEPT ![w] = IF born THEN "boot" ELSE "none"]
    BY <1>6
  <2>2. \A open \in SUBSET {<<w, "child">>} :
           open \in SUBSET {<<w, "child">>, <<w, "parent">>}
    OBVIOUS
  <2>3. loose' \subseteq Worker \X {"child", "parent"} /\ faults' \in 0 .. MaxFaults
    BY <1>1, <1>3, <1>4, <1>6, <2>2 DEF LinkTypes
  <2>4. LinkTypes' BY <1>1, <1>2, <1>6, <2>1, <2>3 DEF LinkTypes, pipe, NoExchange
  <2>5. WorkersInv'
    BY <1>1, <1>2, <1>6, <2>1 DEF WorkersInv, RequestIsNew, MemberInv, Alive, pipe, LinkTypes
  <2> QED BY <1>1, <1>6, <2>4, <2>5, RaiseKeeps
<1>7. CASE /\ held' = [held EXCEPT ![w] = "started"]
           /\ proc' = [proc EXCEPT ![w] = "boot"]
           /\ \/ loose' = loose \cup {<<w, "child">>} /\ UNCHANGED exchange
              \/ exchange' = [exchange EXCEPT ![w] = Unstarted] /\ UNCHANGED loose
           /\ Fault(1)
           /\ Raise("cleanup", w)
  <2>1. Unstarted = [stage |-> "unstarted", payload |-> 0, result |-> NoFrame]
    BY DEF Unstarted, NoExchange
  <2>2. Unstarted \in [stage : {"none", "unstarted", "send", "recv", "ending", "dead"},
                       payload : 0 .. MaxWaves, result : Results]
    BY <2>1, PoolAssumption DEF Results
  <2>3. loose' \subseteq Worker \X {"child", "parent"} /\ faults' \in 0 .. MaxFaults
    BY <1>1, <1>3, <1>7 DEF LinkTypes
  <2>4. LinkTypes'
    <3>1. exchange' \in [Worker -> [stage : {"none", "unstarted", "send", "recv", "ending", "dead"},
                                    payload : 0 .. MaxWaves, result : Results]]
      BY <1>1, <1>7, <2>2 DEF LinkTypes
    <3>2. \A v \in Worker : exchange'[v].stage # "none" => held'[v] = "started"
      BY <1>1, <1>7 DEF LinkTypes
    <3> QED BY <1>1, <1>7, <2>3, <3>1, <3>2 DEF LinkTypes, pipe
  <2>5. WorkersInv'
    BY <1>1, <1>2, <1>7, <2>1 DEF WorkersInv, RequestIsNew, MemberInv, Alive, pipe, LinkTypes
  <2> QED BY <1>1, <1>7, <2>4, <2>5, RaiseKeeps
<1> QED BY <1>5, <1>6, <1>7 DEF SpawnFails

\* A worker that was spawned is busy booting.
LEMMA SpawnSucceeds ==
    ASSUME IInv, pc = "spawn", NEW w \in todo, Fresh(w),
           held' = [held EXCEPT ![w] = "started"], proc' = [proc EXCEPT ![w] = "boot"],
           exchange' = [exchange EXCEPT ![w] = Receiving],
           UNCHANGED <<wave, doomed, pipe, pipeClosed, procClosed, loose, faults>>,
           Goto(IF todo = {w} THEN "poll" ELSE "spawn", todo \ {w})
    PROVE  IInv'
<1>01. pc \in StartPlaces \cup WavePlaces /\ pc \notin WavePlaces BY DEF StartPlaces, WavePlaces
<1>02. /\ w \in Worker /\ op = "start" /\ active = Worker
       /\ phase = "starting" /\ ~ built /\ todo \subseteq Worker
  BY <1>01, Working DEF OwnerTypes
<1>1. Receiving = [stage |-> "recv", payload |-> 0, result |-> NoFrame]
  BY DEF Receiving, NoExchange
<1>2. Receiving \in [stage : {"none", "unstarted", "send", "recv", "ending", "dead"},
                     payload : 0 .. MaxWaves, result : Results]
  BY <1>1, PoolAssumption DEF Results
<1>3. /\ UNCHANGED <<op, active, waiting, expired, errors, failure, session>>
      /\ pc' = IF todo = {w} THEN "poll" ELSE "spawn"
      /\ todo' = todo \ {w}
  BY DEF Goto
<1>4. LinkTypes /\ WorkersInv /\ Open(w) BY <1>01, <1>02, Working
<1>5. LinkTypes' BY <1>2, <1>4 DEF LinkTypes, pipe, NoFault
<1>6. WorkersInv'
  BY <1>02, <1>1, <1>4
     DEF WorkersInv, RequestIsNew, MemberInv, Alive, pipe, LinkTypes, Open, Fresh, NoExchange
<1>7. OwnerTypes' BY <1>3, TypeHalves DEF IInv, OwnerTypes, StartPlaces, session
<1>8. ControlInv'
  BY <1>02, <1>3 DEF IInv, ControlInv, StartPlaces, WavePlaces, CleanupPlaces, session
<1>9. loose' = {} /\ phase' = "starting" BY <1>01, <1>02, <1>3, Working DEF session
<1>10. ASSUME NEW v \in Worker PROVE Open(v)' /\ Place(v)'
  <2>1. Open(v)' BY <1>01, Working DEF Open
  <2>2. v = w => Busy(v)'
    <3> SUFFICES ASSUME v = w PROVE Busy(v)' OBVIOUS
    <3>1. /\ held'[v] = "started" /\ exchange'[v] = Receiving /\ proc'[v] = "boot"
          /\ wave'[v] = 0 /\ toChild'[v] = <<>> /\ toParent'[v] = <<>>
      BY <1>02, <1>4 DEF Fresh, Empty, LinkTypes, pipe
    <3>2. Called' = 0 /\ op' = "start" BY <1>02, <1>3 DEF Called
    <3>3. /\ exchange'[v].stage = "recv" /\ exchange'[v].payload = Called'
          /\ exchange'[v].result = NoFrame
      BY <1>1, <3>1, <3>2
    <3>4. Computing(v)' BY <3>1, <3>2, <3>3 DEF Computing, Empty
    <3> QED BY <3>1, <3>3, <3>4 DEF Busy, NoFrame
  <2>3. v # w => /\ v \in todo => Fresh(v)'
                 /\ v \notin todo => Busy(v)'
    <3> SUFFICES ASSUME v # w PROVE (v \in todo => Fresh(v)') /\ (v \notin todo => Busy(v)')
      OBVIOUS
    <3>1. SameLink(v) /\ UNCHANGED <<op, point>>
      BY <1>3, <1>4 DEF SameLink, LinkTypes, pipe, session
    <3>2. IF v \in todo THEN Fresh(v) ELSE Busy(v) BY <1>01, Working DEF Place
    <3>3. Fresh(v)' = Fresh(v) /\ Busy(v)' = Busy(v) BY <3>1, SameLinks
    <3> QED BY <3>2, <3>3
  <2>4. CASE todo = {w}
    <3>1. pc' = "poll" /\ v \in active' BY <1>02, <1>3, <2>4
    <3>2. Busy(v)' BY <2>2, <2>3, <2>4
    <3> QED BY <2>1, <3>1, <3>2 DEF Place
  <2>5. CASE todo # {w}
    <3>1. pc' = "spawn" /\ todo' = todo \ {w} BY <1>3, <2>5
    <3>2. CASE v \in todo /\ v # w BY <2>1, <2>3, <3>1, <3>2 DEF Place
    <3>3. CASE v \notin todo \/ v = w
      <4>1. Busy(v)' BY <2>2, <2>3, <3>3
      <4> QED BY <2>1, <3>1, <3>3, <4>1 DEF Place
    <3> QED BY <3>2, <3>3
  <2> QED BY <2>4, <2>5
<1> QED BY <1>3, <1>5, <1>6, <1>7, <1>8, <1>9, <1>10, GoesOn

LEMMA SpawnKeeps == ASSUME IInv, Spawn PROVE IInv'
<1> USE DEF Spawn
<1> DEFINE w == Least(todo)
<1>1. pc \in StartPlaces \cup WavePlaces BY DEF StartPlaces
<1>2. w \in todo /\ Fresh(w)
  <2>1. todo # {} /\ todo \subseteq Worker BY <1>1, Working DEF IInv, ControlInv, OwnerTypes
  <2>2. w \in todo BY <2>1, LeastIn
  <2> QED BY <1>1, <2>1, <2>2, Working DEF Place
<1> HIDE DEF w
<1>3. CASE ~ MayContinue
  BY <1>1, <1>3, CheckRaises DEF SpawnFails, linkVars, child, owned, NoFault
<1>4. CASE MayContinue /\ SpawnFails(w) BY <1>2, <1>4, SpawnFailsKeeps
<1>5. CASE /\ held' = [held EXCEPT ![w] = "started"]
           /\ proc' = [proc EXCEPT ![w] = "boot"]
           /\ exchange' = [exchange EXCEPT ![w] = Receiving]
           /\ NoFault /\ UNCHANGED loose
           /\ Goto(IF todo = {w} THEN "poll" ELSE "spawn", todo \ {w})
  BY <1>2, <1>5, SpawnSucceeds DEF NoFault
<1> QED BY <1>3, <1>4, <1>5 DEF w

\* The request of the new wave is with the thread.
LEMMA DispatchSucceeds ==
    ASSUME IInv, pc = "dispatch", NEW w \in todo, Quiet(w),
           exchange' = [exchange EXCEPT ![w] = Sending(point + 1)],
           UNCHANGED <<child, pipe, owned, faults>>,
           IF todo = {w} THEN Goto("poll", {}) ELSE Goto("dispatch", todo \ {w})
    PROVE  IInv'
<1>01. pc \in StartPlaces \cup WavePlaces /\ pc \notin StartPlaces BY DEF StartPlaces, WavePlaces
<1>02. /\ w \in Worker /\ op = "wave" /\ phase = "ready" /\ point < MaxWaves
       /\ todo \subseteq active /\ active \subseteq Worker /\ point \in 0 .. MaxWaves
  BY <1>01, Working DEF OwnerTypes, IInv, ControlInv
<1>1. /\ UNCHANGED <<op, active, waiting, expired, errors, failure, session>>
      /\ pc' = IF todo = {w} THEN "poll" ELSE "dispatch"
      /\ todo' = todo \ {w}
  BY DEF Goto
<1>2. Sending(point + 1) \in [stage : {"none", "unstarted", "send", "recv", "ending", "dead"},
                              payload : 0 .. MaxWaves, result : Results]
  BY <1>02, PoolAssumption DEF Sending, Results
<1>3. LinkTypes /\ WorkersInv /\ Silent(w) /\ wave[w] <= point
  BY <1>01, Working DEF Quiet
<1>4. /\ exchange'[w].stage = "send" /\ exchange'[w].payload = point + 1
      /\ exchange'[w].result = NoFrame
  BY <1>02, <1>3 DEF LinkTypes, Sending
<1>5. wave[w] \in 0 .. MaxWaves /\ wave[w] < point + 1 BY <1>02, <1>3 DEF LinkTypes
<1>6. LinkTypes' BY <1>2, <1>3 DEF LinkTypes, child, pipe, owned, Silent
<1>7. WorkersInv'
  <2>1. ASSUME NEW v \in Worker PROVE RequestIsNew(v)' /\ MemberInv(v)'
    <3>1. RequestIsNew(v) /\ MemberInv(v) BY <1>3 DEF WorkersInv
    <3>2. CASE v = w
      BY <1>3, <1>4, <1>5, <3>1, <3>2 DEF RequestIsNew, MemberInv, Alive, Silent, Empty, child, pipe, owned
    <3>3. CASE v # w
      BY <1>3, <3>1, <3>3 DEF RequestIsNew, MemberInv, Alive, LinkTypes, child, pipe, owned
    <3> QED BY <3>2, <3>3
  <2> QED BY <2>1 DEF WorkersInv
<1>8. OwnerTypes' BY <1>1, TypeHalves DEF IInv, OwnerTypes, WavePlaces, session
<1>9. ControlInv'
  BY <1>02, <1>1 DEF IInv, ControlInv, StartPlaces, WavePlaces, CleanupPlaces, session
<1>10. loose' = {} /\ phase' = "ready" BY <1>01, <1>02, <1>1, Working DEF session, owned
<1>11. ASSUME NEW v \in Worker PROVE Open(v)' /\ Place(v)'
  <2>1. Open(v)' BY <1>01, Working DEF Open, owned
  <2>2. v = w => Busy(v)'
    <3> SUFFICES ASSUME v = w PROVE Busy(v)' OBVIOUS
    <3>1. Called' = point + 1 /\ op' = "wave" BY <1>02, <1>1 DEF Called, session
    <3>2. /\ held'[v] = "started" /\ proc'[v] \in {"recv", "dead"} /\ wave'[v] < Called'
          /\ toChild'[v] = <<>> /\ toParent'[v] = <<>>
      BY <1>3, <1>5, <3>1 DEF Silent, Empty, child, pipe, owned
    <3>3. Sent(v)' BY <1>4, <3>1, <3>2 DEF Sent, Empty
    <3> QED BY <1>4, <3>1, <3>2, <3>3 DEF Busy
  <2>3. v # w => /\ v \in active \ todo => Busy(v)'
                 /\ v \notin active \ todo => Quiet(v)'
    <3> SUFFICES ASSUME v # w PROVE (v \in active \ todo => Busy(v)')
                                    /\ (v \notin active \ todo => Quiet(v)')
      OBVIOUS
    <3>1. SameLink(v) /\ UNCHANGED <<op, point>>
      BY <1>1, <1>3 DEF SameLink, LinkTypes, child, pipe, owned, session
    <3>2. IF v \in active \ todo THEN Busy(v) ELSE Quiet(v) BY <1>01, Working DEF Place
    <3>3. Quiet(v)' = Quiet(v) /\ Busy(v)' = Busy(v) BY <3>1, SameLinks
    <3> QED BY <3>2, <3>3
  <2>4. CASE todo = {w}
    <3>1. pc' = "poll" /\ active' = active BY <1>1, <2>4
    <3>2. CASE v \in active
      <4>1. Busy(v)' BY <2>2, <2>3, <2>4, <3>2
      <4> QED BY <2>1, <3>1, <3>2, <4>1 DEF Place
    <3>3. CASE v \notin active BY <1>02, <2>1, <2>3, <2>4, <3>1, <3>3 DEF Place
    <3> QED BY <3>2, <3>3
  <2>5. CASE todo # {w}
    <3>1. pc' = "dispatch" /\ todo' = todo \ {w} /\ active' = active BY <1>1, <2>5
    <3>2. CASE v \in active \ todo \/ v = w
      <4>1. Busy(v)' BY <2>2, <2>3, <3>2
      <4>2. v \in active' \ todo' BY <1>02, <3>1, <3>2
      <4> QED BY <2>1, <3>1, <4>1, <4>2 DEF Place
    <3>3. CASE v \notin active \ todo /\ v # w BY <2>1, <2>3, <3>1, <3>3 DEF Place
    <3> QED BY <3>2, <3>3
  <2> QED BY <2>4, <2>5
<1> QED BY <1>1, <1>6, <1>7, <1>8, <1>9, <1>10, <1>11, GoesOn

\* Its thread could not be started.
LEMMA DispatchFails ==
    ASSUME IInv, pc = "dispatch", NEW w \in todo, Quiet(w),
           exchange' = [exchange EXCEPT ![w] = Unstarted], Fault(1), Raise("thread", w),
           UNCHANGED <<child, pipe, owned>>
    PROVE  IInv'
<1>1. /\ pc \in StartPlaces \cup WavePlaces /\ w \in Worker
  BY TypeHalves DEF WavePlaces, IInv, OwnerTypes
<1>2. /\ op \in {"start", "wave"} /\ LinkTypes /\ WorkersInv /\ Silent(w)
  BY <1>1, Working DEF Quiet
<1>3. faults' \in 0 .. MaxFaults BY <1>2, FaultsBounded
<1>4. Unstarted = [stage |-> "unstarted", payload |-> 0, result |-> NoFrame]
  BY DEF Unstarted, NoExchange
<1>5. Unstarted \in [stage : {"none", "unstarted", "send", "recv", "ending", "dead"},
                     payload : 0 .. MaxWaves, result : Results]
  BY <1>4, PoolAssumption DEF Results
<1>6. LinkTypes' BY <1>1, <1>2, <1>3, <1>5 DEF LinkTypes, child, pipe, owned, Silent
<1>7. WorkersInv'
  BY <1>1, <1>2, <1>4
     DEF WorkersInv, RequestIsNew, MemberInv, Alive, LinkTypes, Silent, Empty, child, pipe, owned
<1> QED BY <1>1, <1>2, <1>6, <1>7, RaiseKeeps

LEMMA DispatchKeeps == ASSUME IInv, Dispatch PROVE IInv'
<1> USE DEF Dispatch
<1> DEFINE w == Least(todo)
<1>1. pc \in StartPlaces \cup WavePlaces /\ pc \notin StartPlaces BY DEF WavePlaces, StartPlaces
<1>2. w \in todo /\ w \in Worker /\ Quiet(w)
  <2>1. todo # {} /\ todo \subseteq Worker BY <1>1, Working DEF IInv, ControlInv, OwnerTypes
  <2>2. w \in todo BY <2>1, LeastIn
  <2> QED BY <1>1, <2>1, <2>2, Working DEF Place
<1> HIDE DEF w
<1>3. CASE ~ MayContinue
  BY <1>1, <1>3, CheckRaises DEF linkVars, NoFault
<1>4. CASE MayContinue /\ ~ Alive(w)
  <2>1. Raise("worker_died", w) /\ UNCHANGED <<linkVars, faults>>
    BY <1>4 DEF w, linkVars, NoFault
  <2>2. faults' \in 0 .. MaxFaults BY <1>1, <2>1, Working DEF LinkTypes
  <2> QED BY <1>1, <1>2, <2>1, <2>2, ControlRaises
<1>5. CASE /\ exchange' = [exchange EXCEPT ![w] = Unstarted]
           /\ Fault(1) /\ Raise("thread", w)
  BY <1>2, <1>5, DispatchFails
<1>6. CASE /\ exchange' = [exchange EXCEPT ![w] = Sending(point + 1)]
           /\ NoFault
           /\ IF todo = {w} THEN Goto("poll", {}) ELSE Goto("dispatch", todo \ {w})
  BY <1>2, <1>6, DispatchSucceeds DEF NoFault
<1> QED BY <1>3, <1>4, <1>5, <1>6 DEF w

-----------------------------------------------------------------------------
(***************************************************************************)
(* The steps of a cleanup.                                                 *)
(***************************************************************************)
LEMMA InCleanup ==
    ASSUME IInv, pc \in CleanupPlaces
    PROVE  phase \in {"failed", "closing"} /\ OwnerTypes /\ LinkTypes /\ WorkersInv
<1>1. OwnerTypes /\ LinkTypes /\ WorkersInv BY TypeHalves DEF IInv
<1> QED BY <1>1 DEF IInv, ControlInv, OwnerTypes, StartPlaces, WavePlaces, CleanupPlaces

\* A cleanup that goes on leaves the session as it is.
LEMMA CleaningKeeps ==
    ASSUME IInv, pc \in CleanupPlaces, NEW label \in CleanupPlaces, NEW rest \in SUBSET Worker,
           NEW failed \in BOOLEAN, Cleaning(label, rest, failed),
           label \in {"reap", "settle"} => rest # {} /\ rest \subseteq Members',
           WorkersInv', LinkTypes', CleanupInv'
    PROVE  IInv'
<1> USE DEF Cleaning
<1>1. phase' \in {"failed", "closing"} BY InCleanup DEF session
<1>2. OwnerTypes' BY InCleanup, ZeroIsWorker DEF OwnerTypes, session, NoFailure
<1>3. TypeOK'
  <2>1. OwnerTypes' /\ LinkTypes' BY <1>2
  <2> QED BY <2>1, TypeHalves, PTL
<1>4. ContractsHold' BY DEF ContractsHold, NoFailure
<1>5. ControlInv'
  <2>1. pc' \in CleanupPlaces /\ op' = op /\ built' = built /\ phase' = phase BY DEF session
  <2> QED BY <1>1, <2>1 DEF IInv, ControlInv, CleanupPlaces, WavePlaces
<1>6. WorkingInv' BY <1>1 DEF WorkingInv
<1>7. ClosedIsReleased' BY <1>1 DEF ClosedIsReleased, CleanupPlaces
<1> QED BY <1>3, <1>4, <1>5, <1>6, <1>7 DEF IInv

LEMMA CloseLooseKeeps == ASSUME IInv, CloseLoose PROVE IInv'
<1> USE DEF CloseLoose
<1>1. pc \in CleanupPlaces BY DEF CleanupPlaces
<1>2. PICK open \in SUBSET loose :
         loose' = open /\ Fault(Cardinality(open)) /\ Cleaning("pipes", {}, open # {})
  OBVIOUS
<1>3. LinkTypes /\ WorkersInv /\ open \subseteq Worker \X {"child", "parent"}
  BY <1>1, InCleanup DEF LinkTypes
<1>4. faults' \in 0 .. MaxFaults BY <1>2, <1>3, CountsAreNatural, FaultsBounded
<1>5. LinkTypes' BY <1>2, <1>3, <1>4 DEF LinkTypes, child, pipe
<1>6. WorkersInv' BY <1>3 DEF WorkersInv, RequestIsNew, MemberInv, Alive, child, pipe
<1>7. CleanupInv' BY <1>2 DEF CleanupInv, Cleaning
<1> QED BY <1>1, <1>2, <1>5, <1>6, <1>7, CleaningKeeps DEF CleanupPlaces

LEMMA ClosePipesKeeps == ASSUME IInv, ClosePipes PROVE IInv'
<1> USE DEF ClosePipes
<1> DEFINE pending == {w \in Members : ~ pipeClosed[w]}
           label == IF Members = {} THEN "end" ELSE "reap"
<1>1. pc \in CleanupPlaces BY DEF CleanupPlaces
<1>2. PICK open \in SUBSET pending :
         /\ pipeClosed' = [w \in Worker |-> pipeClosed[w] \/ w \in pending \ open]
         /\ Fault(Cardinality(open))
         /\ Cleaning(label, Members, open # {})
  OBVIOUS
<1>3. LinkTypes /\ WorkersInv /\ open \subseteq Worker /\ Members \subseteq Worker
  BY <1>1, InCleanup DEF Members
<1>4. faults' \in 0 .. MaxFaults
  <2>1. IsFiniteSet(Worker) BY PoolAssumption, FS_Interval DEF Worker
  <2>2. Cardinality(open) \in Nat BY <1>3, <2>1, FS_Subset, FS_CardinalityType
  <2> QED BY <1>2, <1>3, <2>2, FaultsBounded
<1>5. LinkTypes' BY <1>2, <1>3, <1>4 DEF LinkTypes, child, pipe
<1>6. WorkersInv' BY <1>3 DEF WorkersInv, RequestIsNew, MemberInv, Alive, child, pipe
<1>7. Members' = Members BY DEF Members
<1>8. CleanupInv'
  <2> SUFFICES ASSUME ~ errors' PROVE CleanupInv' BY DEF CleanupInv
  <2>1. open = {} /\ ~ errors /\ pc' = label /\ todo' = Members BY <1>2 DEF Cleaning
  <2>2. loose' = {} BY <2>1 DEF IInv, CleanupInv, CleanupPlaces
  <2>3. \A w \in Members : pipeClosed'[w] BY <1>2, <1>3, <2>1
  <2> QED BY <1>7, <2>1, <2>2, <2>3 DEF CleanupInv
<1>9. label \in CleanupPlaces /\ (label \in {"reap", "settle"} => Members # {})
  BY DEF CleanupPlaces
<1> QED BY <1>1, <1>2, <1>3, <1>5, <1>6, <1>7, <1>8, <1>9, CleaningKeeps

\* The signal has not yet ended the process.
LEMMA EscalateKeeps == ASSUME IInv, Escalate PROVE IInv'
<1> USE DEF Escalate
<1>1. pc \in CleanupPlaces BY DEF CleanupPlaces
<1>2. LinkTypes /\ WorkersInv /\ todo \subseteq Worker BY <1>1, InCleanup DEF OwnerTypes
<1>3. PICK failed \in BOOLEAN : Cleaning("settle", todo, failed) OBVIOUS
<1>4. faults' \in 0 .. MaxFaults
  <2>1. Fault(1) \/ NoFault OBVIOUS
  <2> QED BY <1>2, <2>1, FaultsBounded DEF NoFault, LinkTypes
<1>5. LinkTypes'
  <2>1. doomed' \in [Worker -> BOOLEAN]
    <3>1. doomed' = doomed \/ doomed' = [doomed EXCEPT ![Least(todo)] = TRUE] OBVIOUS
    <3> QED BY <1>2, <3>1 DEF LinkTypes
  <2> QED BY <1>2, <1>4, <2>1 DEF LinkTypes, pipe, owned
<1>6. WorkersInv' BY <1>2 DEF WorkersInv, RequestIsNew, MemberInv, Alive, pipe, owned
<1>7. Members' = Members BY DEF Members, owned
<1>8. CleanupInv'
  BY <1>3, <1>7 DEF IInv, CleanupInv, Cleaning, CleanupPlaces, Settled, owned
<1>9. todo # {} /\ todo \subseteq Members BY DEF IInv, ControlInv
<1> QED BY <1>1, <1>2, <1>3, <1>5, <1>6, <1>7, <1>8, <1>9, CleaningKeeps DEF CleanupPlaces

\* A member without a live process or thread is given up, the others are kept.
LEMMA SettleOneKeeps ==
    ASSUME IInv, pc = "settle", NEW w \in todo,
           exchange' = IF ThreadAlive(w) THEN exchange ELSE [exchange EXCEPT ![w] = NoExchange],
           \/ procClosed' = procClosed
           \/ ~ Alive(w) /\ procClosed' = [procClosed EXCEPT ![w] = TRUE],
           NEW failed \in BOOLEAN,
           ~ failed => procClosed'[w] /\ ~ ThreadAlive(w),
           Cleaning(IF todo = {w} THEN "end" ELSE "reap", todo \ {w}, failed),
           faults' \in 0 .. MaxFaults,
           UNCHANGED <<child, pipe, held, pipeClosed, loose>>
    PROVE  IInv'
<1> DEFINE label == IF todo = {w} THEN "end" ELSE "reap"
<1>1. pc \in CleanupPlaces BY DEF CleanupPlaces
<1>2. LinkTypes /\ WorkersInv /\ todo \subseteq Worker /\ w \in Worker
  BY <1>1, InCleanup DEF OwnerTypes
<1>3. todo \subseteq Members BY DEF IInv, ControlInv
<1>4. /\ NoExchange.stage = "none"
      /\ NoExchange \in [stage : {"none", "unstarted", "send", "recv", "ending", "dead"},
                         payload : 0 .. MaxWaves, result : Results]
  BY PoolAssumption DEF NoExchange, Results
<1>5. LinkTypes' BY <1>2, <1>4 DEF LinkTypes, child, pipe
<1>6. WorkersInv'
  <2>1. ASSUME NEW v \in Worker PROVE RequestIsNew(v)' /\ MemberInv(v)'
    <3>1. RequestIsNew(v) /\ MemberInv(v) BY <1>2 DEF WorkersInv
    <3>2. exchange'[v] = exchange[v] \/ exchange'[v] = NoExchange BY <1>2 DEF LinkTypes
    <3>3. RequestIsNew(v)' BY <1>4, <3>1, <3>2 DEF RequestIsNew, child, pipe
    <3>4. procClosed'[v] => procClosed[v] \/ ~ Alive(v) BY <1>2 DEF LinkTypes
    <3>5. MemberInv(v)' BY <3>1, <3>2, <3>4 DEF MemberInv, Alive, child
    <3> QED BY <3>3, <3>5
  <2> QED BY <2>1 DEF WorkersInv
<1>7. Members' = Members BY DEF Members
<1>8. CleanupInv'
  <2> SUFFICES ASSUME ~ errors' PROVE CleanupInv' BY DEF CleanupInv
  <2>1. ~ failed /\ ~ errors /\ pc' = label /\ todo' = todo \ {w} BY DEF Cleaning
  <2>2. /\ loose' = {} /\ \A v \in Members : pipeClosed'[v]
        /\ \A v \in Members \ todo : Settled(v)
    BY <2>1 DEF IInv, CleanupInv, CleanupPlaces
  <2>3. Settled(w)' BY <1>2, <1>3, <1>4, <2>1, <2>2 DEF Settled, LinkTypes
  <2>4. ASSUME NEW v \in Members \ todo PROVE Settled(v)'
    <3>1. Settled(v) /\ v \in Worker BY <2>2 DEF Members
    <3>2. exchange'[v] = exchange[v] \/ exchange'[v] = NoExchange BY <1>2, <3>1 DEF LinkTypes
    <3>3. procClosed'[v] BY <1>2, <3>1 DEF Settled, LinkTypes
    <3> QED BY <1>4, <2>2, <3>1, <3>2, <3>3 DEF Settled
  <2>5. \A v \in Members \ (todo \ {w}) : Settled(v)' BY <2>3, <2>4
  <2>6. label = "end" => todo \ {w} = {} OBVIOUS
  <2> QED BY <1>7, <2>1, <2>2, <2>5, <2>6 DEF CleanupInv
<1>9. label \in CleanupPlaces /\ (label \in {"reap", "settle"} => todo \ {w} # {})
  BY DEF CleanupPlaces
<1> QED BY <1>1, <1>2, <1>3, <1>5, <1>6, <1>7, <1>8, <1>9, CleaningKeeps

LEMMA SettleKeeps == ASSUME IInv, Settle PROVE IInv'
<1> USE DEF Settle
<1> DEFINE w == Least(todo)
           next == IF todo = {w} THEN "end" ELSE "reap"
           threadError == exchange[w].stage = "unstarted" \/ ThreadAlive(w)
<1>1. LinkTypes /\ todo \subseteq Worker /\ todo # {}
  BY InCleanup DEF CleanupPlaces, OwnerTypes, IInv, ControlInv
<1>2. w \in todo /\ w \in Worker BY <1>1, LeastIn
<1>3. /\ exchange' = IF ThreadAlive(w) THEN exchange ELSE [exchange EXCEPT ![w] = NoExchange]
      /\ UNCHANGED <<child, pipe, held, pipeClosed, loose>>
  OBVIOUS
<1>4. PICK failed \in BOOLEAN :
         /\ Cleaning(next, todo \ {w}, failed)
         /\ ~ failed => procClosed'[w] /\ ~ ThreadAlive(w)
         /\ \/ procClosed' = procClosed
            \/ ~ Alive(w) /\ procClosed' = [procClosed EXCEPT ![w] = TRUE]
         /\ Fault(1) \/ NoFault
  <2>1. threadError \in BOOLEAN OBVIOUS
  <2>2. CASE procClosed[w] /\ NoFault /\ UNCHANGED procClosed
             /\ Cleaning(next, todo \ {w}, threadError)
    BY <2>1, <2>2
  <2>3. CASE /\ Cleaning(next, todo \ {w}, TRUE)
             /\ UNCHANGED procClosed /\ (Fault(1) \/ NoFault)
    BY <2>3
  <2>4. CASE /\ ~ Alive(w) /\ procClosed' = [procClosed EXCEPT ![w] = TRUE] /\ NoFault
             /\ Cleaning(next, todo \ {w}, threadError)
    BY <1>1, <1>2, <2>1, <2>4 DEF LinkTypes
  <2> QED BY <2>2, <2>3, <2>4
<1>5. faults' \in 0 .. MaxFaults BY <1>1, <1>4, FaultsBounded DEF NoFault, LinkTypes
<1>6. pc = "settle" OBVIOUS
<1> HIDE DEF Settle, w
<1> QED BY <1>2, <1>3, <1>4, <1>5, <1>6, SettleOneKeeps

\* A cleanup that met no error has left nothing.
LEMMA EndCleanupKeeps == ASSUME IInv, EndCleanup PROVE IInv'
<1> USE DEF EndCleanup, linkVars
<1>1. pc \in CleanupPlaces BY DEF CleanupPlaces
<1>2. phase \in {"failed", "closing"} /\ OwnerTypes /\ LinkTypes /\ WorkersInv
  BY <1>1, InCleanup
<1>3. WorkersInv' /\ LinkTypes' BY <1>2, SameWorkers DEF LinkTypes
<1>4. OwnerTypes' BY <1>2 DEF OwnerTypes
<1>5. TypeOK'
  <2>1. OwnerTypes' /\ LinkTypes' BY <1>3, <1>4
  <2> QED BY <2>1, TypeHalves, PTL
<1>6. ContractsHold' BY DEF IInv, ContractsHold
<1>7. ControlInv' BY <1>2 DEF IInv, ControlInv, WavePlaces
<1>8. WorkingInv' BY <1>2 DEF WorkingInv
<1>9. CleanupInv' BY DEF CleanupInv, CleanupPlaces
<1>10. ASSUME ~ errors PROVE Released'
  <2>1. loose = {} /\ \A w \in Members : Settled(w)
    BY <1>10 DEF IInv, CleanupInv, CleanupPlaces
  <2>2. ASSUME NEW w \in Worker
        PROVE  /\ proc[w] \in {"none", "dead"} /\ ~ ThreadAlive(w)
               /\ held[w] # "none" => pipeClosed[w] /\ procClosed[w]
    <3>1. MemberInv(w) BY <1>2 DEF WorkersInv
    <3>2. CASE held[w] = "none" BY <3>1, <3>2 DEF MemberInv, NoExchange, ThreadAlive
    <3>3. CASE held[w] # "none"
      BY <2>1, <3>1, <3>3 DEF Members, Settled, MemberInv, Alive, ThreadAlive
    <3> QED BY <3>2, <3>3
  <2> QED BY <2>1, <2>2 DEF Released, ThreadAlive, child, pipe, owned
<1>11. ClosedIsReleased' BY <1>2, <1>10 DEF ClosedIsReleased
<1> QED BY <1>3, <1>5, <1>6, <1>7, <1>8, <1>9, <1>11 DEF IInv

-----------------------------------------------------------------------------
(***************************************************************************)
(* The session.                                                            *)
(***************************************************************************)
LEMMA InitHolds == Init => IInv
<1> SUFFICES ASSUME Init PROVE IInv OBVIOUS
<1> USE DEF Init
<1>1. NoExchange = [stage |-> "none", payload |-> 0, result |-> NoFrame] BY DEF NoExchange
<1>2. OwnerTypes
  <2>1. point \in 0 .. MaxWaves BY PoolAssumption
  <2>2. failure.worker \in Worker BY ZeroIsWorker DEF NoFailure
  <2> QED BY <2>1, <2>2 DEF OwnerTypes, StartPlaces
<1>3. LinkTypes
  <2>1. NoExchange \in [stage : {"none", "unstarted", "send", "recv", "ending", "dead"},
                        payload : 0 .. MaxWaves, result : Results]
    BY <1>1, PoolAssumption DEF Results
  <2>2. <<>> \in Seq(1 .. MaxWaves) /\ <<>> \in Seq(Frame) OBVIOUS
  <2>3. 0 \in 0 .. MaxWaves /\ 0 \in 0 .. MaxFaults BY PoolAssumption
  <2> QED BY <1>1, <2>1, <2>2, <2>3 DEF LinkTypes
<1>4. TypeOK BY <1>2, <1>3, TypeHalves
<1>5. ContractsHold BY DEF ContractsHold, NoFailure
<1>6. ControlInv BY ZeroIsWorker DEF ControlInv, StartPlaces, WavePlaces
<1>7. WorkersInv BY <1>1 DEF WorkersInv, RequestIsNew, MemberInv, Alive
<1>8. WorkingInv BY DEF WorkingInv, Open, Place, Fresh, Empty
<1>9. CleanupInv BY DEF CleanupInv, CleanupPlaces
<1>10. ClosedIsReleased BY DEF ClosedIsReleased
<1> QED BY <1>4, <1>5, <1>6, <1>7, <1>8, <1>9, <1>10 DEF IInv

LEMMA StutterKeeps == ASSUME IInv, UNCHANGED vars PROVE IInv'
<1>1. UNCHANGED <<linkVars, faults, call, point, phase, built, eof, cancelled>>
  BY DEF vars, linkVars, session
<1>2. eof \in BOOLEAN /\ cancelled \in BOOLEAN /\ (pc = "install" => ~ cancelled)
  BY TypeHalves DEF IInv, OwnerTypes, ControlInv
<1> QED BY <1>1, <1>2, FlagsKeep

LEMMA StepKeeps == IInv /\ [Next]_vars => IInv'
<1> SUFFICES ASSUME IInv, [Next]_vars PROVE IInv' OBVIOUS
<1>1. CASE Spawn \/ Enter \/ Dispatch BY <1>1, SpawnKeeps, EnterKeeps, DispatchKeeps
<1>2. CASE Poll \/ Scan \/ IsAlive \/ Join
  BY <1>2, PollKeeps, ScanKeeps, IsAliveKeeps, JoinKeeps
<1>3. CASE Accept \/ Verified \/ Admit \/ Install
  BY <1>3, AcceptKeeps, VerifiedAndAdmitKeep, InstallKeeps
<1>4. CASE CloseLoose \/ ClosePipes \/ Escalate \/ Settle \/ EndCleanup
  BY <1>4, CloseLooseKeeps, ClosePipesKeeps, EscalateKeeps, SettleKeeps, EndCleanupKeeps
<1>5. CASE Interrupt \/ Expire \/ StartWave BY <1>5, InterruptKeeps, ExpireKeeps, StartWaveKeeps
<1>6. CASE CloseSource \/ Cancel \/ Close \/ HandleClose
  BY <1>6, CloseSourceAndCancelKeep, CloseKeeps
<1>7. CASE \E w \in Worker : WorkerStep(w) \/ ThreadStep(w) BY <1>7, LinkStepKeeps DEF LinkStep
<1>8. CASE UNCHANGED vars BY <1>8, StutterKeeps
<1> QED BY <1>1, <1>2, <1>3, <1>4, <1>5, <1>6, <1>7, <1>8 DEF Next, OwnerStep

(***************************************************************************)
(* Wherever the owner is, each of its workers is at a place that fits it.  *)
(***************************************************************************)
THEOREM Invariance == Spec => []IInv
<1>1. Init => IInv BY InitHolds
<1>2. IInv /\ [Next]_vars => IInv' BY StepKeeps
<1> QED BY <1>1, <1>2, PTL DEF Spec

LEMMA SoundWhenPlaced == IInv => SessionSound
<1> SUFFICES ASSUME IInv PROVE SessionSound OBVIOUS
<1>1. ReadyIsQuiet
  <2> SUFFICES ASSUME phase = "ready", pc = "idle", NEW w \in Worker
               PROVE  /\ toChild[w] = <<>> /\ toParent[w] = <<>> /\ ~ ThreadAlive(w)
                      /\ proc[w] \in {"recv", "dead"} /\ Open(w)
    BY DEF ReadyIsQuiet, Open
  <2>1. Quiet(w) /\ Open(w) BY DEF IInv, WorkingInv, Place
  <2> QED BY <2>1 DEF Quiet, Silent, Empty, ThreadAlive
<1>2. PublishedWasComputed
  <2> SUFFICES ASSUME pc = "install" PROVE PublishedWasComputed BY DEF PublishedWasComputed
  <2>1. \A w \in Worker : Place(w) BY Working DEF WavePlaces
  <2>2. \A w \in Worker : Silent(w) /\ (w \in active => wave[w] = point + 1)
    BY <2>1 DEF Place, Quiet
  <2>3. active \subseteq Worker BY TypeHalves DEF IInv, OwnerTypes
  <2> QED BY <2>2, <2>3 DEF PublishedWasComputed, Silent, Empty, ThreadAlive
<1> QED BY <1>1, <1>2 DEF IInv, SessionSound

(***************************************************************************)
(* Between calls a ready session's pipes are silent, what the contract     *)
(* checks of the protocol guard against never happens, what is published   *)
(* was computed to its end by every addressed worker, and a cleanup that   *)
(* succeeded left no process, thread or pipe end: for every number of      *)
(* workers, and with every worker free to hang, fail or die.               *)
(***************************************************************************)
THEOREM SessionStaysSound == Spec => []SessionSound
BY Invariance, SoundWhenPlaced, PTL

\* A request is taken up once, for its wave is then one the worker has had.
LEMMA WavesAreNew ==
    ASSUME IInv, [Next]_vars, NEW w \in Worker PROVE TakesUpNewWave(w)
<1> SUFFICES ASSUME proc[w] # "work", proc'[w] = "work" PROVE wave'[w] > wave[w]
  BY DEF TakesUpNewWave
<1>0. LinkTypes /\ WorkersInv BY TypeHalves DEF IInv
<1>1. PICK v \in Worker : LinkStep(v)
  <2>1. proc' # proc OBVIOUS
  <2>2. ~ OwnerStep
    <3>1. ~ Spawn BY <1>0 DEF Spawn, SpawnFails, LinkTypes
    <3> QED BY <2>1, <3>1
         DEF OwnerStep, Enter, Dispatch, Poll, Scan, IsAlive, Join, Accept, Verified, Admit,
             Install, CloseLoose, ClosePipes, Escalate, Settle, EndCleanup, child
  <2>3. ~ (Interrupt \/ Expire \/ StartWave \/ CloseSource \/ Cancel \/ Close \/ HandleClose)
    BY <2>1 DEF Interrupt, Expire, StartWave, CloseSource, Cancel, Close, HandleClose, child
  <2>4. ~ UNCHANGED vars BY <2>1 DEF vars, child
  <2> QED BY <2>2, <2>3, <2>4 DEF Next, LinkStep
<1>2. v = w BY <1>0, <1>1, LinkStepFrames DEF OthersStay
<1>3. Receive(w) /\ toChild[w] # <<>>
  BY <1>0, <1>1, <1>2
     DEF LinkTypes, LinkStep, WorkerStep, ThreadStep, Boot, Receive, Reply, Die, Write, ThreadSends,
         ThreadReceives, PeerLost, OwnEndClosed, ThreadBreaks, ThreadEnds, child
<1>4. PICK n \in 1 .. MaxWaves : toChild[w] = <<n>> /\ wave[w] < n
  BY <1>0, <1>3 DEF WorkersInv, RequestIsNew
<1>5. wave'[w] = n
  <2>1. wave' = [wave EXCEPT ![w] = Head(toChild[w])] BY <1>3 DEF Receive
  <2>2. Head(toChild[w]) = n BY <1>4
  <2> QED BY <1>0, <2>1, <2>2 DEF LinkTypes
<1> QED BY <1>0, <1>4, <1>5 DEF LinkTypes

\* A wave is admitted before cancel() returns or not at all.
LEMMA CancelSilences == ASSUME IInv, [Next]_vars PROVE CancelledIsSilent
<1> SUFFICES ASSUME point' # point \/ eof' # eof PROVE ~ cancelled BY DEF CancelledIsSilent
<1>1. Install \/ CloseSource
  <2>1. ~ UNCHANGED session BY DEF session
  <2>2. ~ \E reason, w : Raise(reason, w) BY DEF Raise
  <2>3. ~ CheckFails BY <2>2 DEF CheckFails
  <2>4. ~ \E label, rest : Goto(label, rest) BY <2>1 DEF Goto
  <2>5. ~ \E label, rest, failed : Cleaning(label, rest, failed) BY <2>1 DEF Cleaning
  <2>6. ~ (Spawn \/ Dispatch) BY <2>2, <2>3, <2>4 DEF Spawn, SpawnFails, Dispatch
  <2>7. ~ (Enter \/ Verified \/ Admit)
    BY <2>2, <2>3, <2>4 DEF Enter, Verified, Admit, CheckAlive
  <2>8. ~ (Poll \/ Scan \/ IsAlive \/ Join)
    BY <2>1, <2>2, <2>3, <2>4 DEF Poll, Scan, IsAlive, Join, Visited
  <2>9. ~ Accept BY <2>2, <2>3, <2>4 DEF Accept
  <2>10. ~ (CloseLoose \/ ClosePipes \/ Escalate \/ Settle)
    BY <2>5 DEF CloseLoose, ClosePipes, Escalate, Settle
  <2>11. ~ (EndCleanup \/ Interrupt \/ Expire \/ StartWave \/ Cancel \/ Close \/ HandleClose)
    BY <2>1, <2>2 DEF EndCleanup, Interrupt, Expire, StartWave, Cancel, Close, HandleClose
  <2>12. ~ UNCHANGED vars BY <2>1 DEF vars
  <2>13. \A w \in Worker : ~ (WorkerStep(w) \/ ThreadStep(w))
    BY <2>1, LinkStepFrames, TypeHalves DEF LinkStep, IInv
  <2> QED BY <2>6, <2>7, <2>8, <2>9, <2>10, <2>11, <2>12, <2>13 DEF Next, OwnerStep
<1>2. CASE Install BY <1>2 DEF Install, IInv, ControlInv
<1>3. CASE CloseSource BY <1>3 DEF CloseSource
<1> QED BY <1>1, <1>2, <1>3

(***************************************************************************)
(* No worker takes up a wave twice or out of order, however the waves      *)
(* before it ended, and nothing is published once the session is           *)
(* cancelled.                                                              *)
(***************************************************************************)
THEOREM NothingIsReplayed == Spec => NoReplayNoLateWave
<1>1. IInv /\ [Next]_vars => [(\A w \in Worker : TakesUpNewWave(w)) /\ CancelledIsSilent]_vars
  BY WavesAreNew, CancelSilences
<1> QED BY <1>1, Invariance, PTL DEF Spec, NoReplayNoLateWave

=============================================================================
