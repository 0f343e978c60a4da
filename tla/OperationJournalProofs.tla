------------------------ MODULE OperationJournalProofs ------------------------
(***************************************************************************)
(* Proofs about OperationJournal, for any runtime, any number of sessions, *)
(* any requests and bounds: receipts form one chain, a request takes       *)
(* effect once, what was published stays, every answer is true, and what   *)
(* is stored passes the checks of its own readers.                         *)
(***************************************************************************)
EXTENDS OperationJournal, ProofLemmas, SequenceTheorems, FunctionTheorems

\* The head after g publications.
PointAt(g) == IF g = 0 THEN InitialPoint ELSE commits[g].after

\* What Staged makes of a request on a head.
EffectOf(b, r) == Performed(b, r.commands)

EffectiveOn(b, r) == EffectOf(b, r).operations # <<>>

AfterOf(b, r) ==
    [generation |-> b.generation + (IF EffectiveOn(b, r) THEN 1 ELSE 0),
     state |-> EffectOf(b, r).state]

AcceptedOn(b, r) == EffectOf(b, r).ok /\ PointAdmitted(AfterOf(b, r))

PlanOf(b, r) ==
    [receipt |-> Receipt(r, b, AfterOf(b, r)),
     operations |-> EffectOf(b, r).operations, outputs |-> EffectOf(b, r).outputs]

-----------------------------------------------------------------------------
(***************************************************************************)
(* The inductive invariant: every receipt is what performing its request   *)
(* on the head before it comes to, and so is every plan, on the head its   *)
(* call started from.                                                      *)
(***************************************************************************)
CommitInv(g) ==
    LET r == commits[g].request IN
    /\ r \in Submitted /\ r.journal = ThisJournal /\ r.expected = g - 1
    /\ AcceptedOn(PointAt(g - 1), r) /\ EffectiveOn(PointAt(g - 1), r)
    /\ commits[g] = PlanOf(PointAt(g - 1), r).receipt
    /\ commits[g].after.generation = g

JournalInv ==
    /\ IsSequence(commits)
    /\ head = PointAt(Len(commits))
    /\ \A g \in 1 .. Len(commits) : CommitInv(g)

CallInv(s) ==
    pc[s] # "idle" =>
        LET r == request[s] IN
        /\ r \in Submitted /\ r.journal = ThisJournal
        /\ r.expected \in 0 .. Len(commits)
        /\ before[s] = PointAt(r.expected)
        /\ pc[s] # "run" => AcceptedOn(before[s], r) /\ plan[s] = PlanOf(before[s], r)
        /\ pc[s] = "observe" => ~ EffectiveOn(before[s], r)
        /\ pc[s] = "publish" => EffectiveOn(before[s], r)

CallTypes ==
    /\ pc \in [Session -> {"idle", "run", "observe", "publish"}]
    /\ DOMAIN request = Session /\ DOMAIN before = Session /\ DOMAIN plan = Session

IInv ==
    /\ RequestsAdmitted
    /\ CallTypes
    /\ JournalInv
    /\ PublishedOnce
    /\ \A s \in Session : CallInv(s)
    /\ AnswerIsTrue

-----------------------------------------------------------------------------
(***************************************************************************)
(* Performing commands.                                                    *)
(***************************************************************************)

\* Performed is the last of the runs that start anew and go on by one command.
LEMMA PerformedIsLastRun ==
    ASSUME NEW b, NEW commands, Len(commands) \in Nat
    PROVE  \E run : /\ Performed(b, commands) = run[Len(commands)]
                    /\ run[0] = NewRun(b)
                    /\ \A i \in 1 .. Len(commands) :
                          run[i] = Extended(b, run[i - 1], i, commands[i])
<1> DEFINE N == Len(commands)
           IsRun(f, n) == f = [i \in 0 .. n |-> IF i = 0 THEN NewRun(b)
                                                ELSE Extended(b, f[i - 1], i, commands[i])]
           last == CHOOSE f : IsRun(f, N)
<1>1. \E f : IsRun(f, N)
  <2> DEFINE Bad == {n \in 0 .. N : ~ \E f : IsRun(f, n)}
  <2> SUFFICES ASSUME Bad # {} PROVE FALSE OBVIOUS
  <2>1. PICK m \in Bad : \A n \in Bad : m <= n
    <3>1. Bad \in SUBSET Nat OBVIOUS
    <3> QED BY <3>1, LeastNatural
  <2>2. CASE m = 0
    <3> DEFINE f == [i \in 0 .. 0 |-> NewRun(b)]
    <3>1. IsRun(f, 0) OBVIOUS
    <3> QED BY <2>2, <3>1
  <2>3. CASE m # 0
    <3>1. m \in Nat /\ m - 1 \in 0 .. N /\ m - 1 \notin Bad
      <4>1. m \in 0 .. N BY <2>1
      <4>2. m \in Nat /\ m - 1 \in 0 .. N /\ ~ (m <= m - 1) BY <2>3, <4>1
      <4> HIDE DEF Bad
      <4> QED BY <2>1, <4>2
    <3>2. PICK f : IsRun(f, m - 1) BY <3>1
    <3> DEFINE g == [i \in 0 .. m |-> IF i = m THEN Extended(b, f[m - 1], m, commands[m]) ELSE f[i]]
    <3>3. ASSUME NEW i \in 0 .. m
          PROVE  g[i] = IF i = 0 THEN NewRun(b) ELSE Extended(b, g[i - 1], i, commands[i])
      <4>1. CASE i = 0 BY <4>1, <2>3, <3>1, <3>2
      <4>2. CASE i # 0 /\ i = m BY <4>2, <3>1
      <4>3. CASE i # 0 /\ i # m
        <5>1. i - 1 \in 0 .. m /\ i - 1 # m /\ i \in 0 .. m - 1 BY <4>3, <3>1
        <5>2. f[i] = Extended(b, f[i - 1], i, commands[i]) BY <5>1, <4>3, <3>2
        <5> QED BY <5>1, <5>2, <4>3
      <4> QED BY <4>1, <4>2, <4>3
    <3>4. IsRun(g, m) BY <3>3
    <3> QED BY <3>4, <2>1
  <2> QED BY <2>2, <2>3
<1>2. IsRun(last, N)
  <2> HIDE DEF IsRun
  <2> QED BY <1>1
<1>3. Performed(b, commands) = last[N] BY DEF Performed
<1>4. N \in Nat OBVIOUS
<1> HIDE DEF last
<1>5. last[0] = NewRun(b) BY <1>2, <1>4
<1>6. ASSUME NEW i \in 1 .. N PROVE last[i] = Extended(b, last[i - 1], i, commands[i])
  BY <1>2, <1>4
<1> QED BY <1>3, <1>5, <1>6

\* Appending to a sequence whose elements have no type.
LEMMA SequenceAppended ==
    ASSUME NEW s, NEW e, IsSequence(s)
    PROVE  /\ IsSequence(Append(s, e))
           /\ Len(s) \in Nat
           /\ Len(Append(s, e)) = Len(s) + 1
           /\ \A i \in 1 .. Len(s) : Append(s, e)[i] = s[i]
           /\ Append(s, e)[Len(s) + 1] = e
           /\ Append(s, e) # <<>>
<1> DEFINE S == {s[i] : i \in DOMAIN s}
           T == S \cup {e}
           a == Append(s, e)
<1>1. s \in Seq(S) BY DEF IsSequence
<1> HIDE DEF S
<1>2. s \in Seq(T) /\ Len(s) \in Nat BY <1>1
<1>3. /\ a \in Seq(T) /\ a # <<>> /\ Len(a) = Len(s) + 1
      /\ \A i \in 1 .. Len(s) : a[i] = s[i]
      /\ a[Len(s) + 1] = e
  BY <1>2, AppendProperties
<1>4. IsSequence(a)
  <2> HIDE DEF a, T
  <2>1. a \in [1 .. Len(a) -> T] /\ Len(a) \in Nat /\ DOMAIN a = 1 .. Len(a)
    BY <1>3, LenProperties
  <2>2. a \in [1 .. Len(a) -> {a[i] : i \in DOMAIN a}] BY <2>1
  <2> QED BY <2>1, <2>2 DEF IsSequence
<1> QED BY <1>2, <1>3, <1>4

\* A run is a record, whose operations are a sequence.
IsRunRecord(run) ==
    /\ run = [ok |-> run.ok, state |-> run.state, operations |-> run.operations,
              outputs |-> run.outputs]
    /\ IsSequence(run.operations)

\* Commands that leave no operation behind leave the state alone.
LEMMA NoOperationNoChange ==
    ASSUME NEW b, NEW commands, Len(commands) \in Nat,
           Performed(b, commands).operations = <<>>
    PROVE  Performed(b, commands).state = b.state
<1> DEFINE N == Len(commands)
<1>1. PICK run : /\ Performed(b, commands) = run[N]
                 /\ run[0] = NewRun(b)
                 /\ \A i \in 1 .. N : run[i] = Extended(b, run[i - 1], i, commands[i])
  BY PerformedIsLastRun
<1> DEFINE Holds(acc) == IsRunRecord(acc) /\ (acc.operations = <<>> => acc.state = b.state)
           Bad == {i \in 0 .. N : ~ Holds(run[i])}
<1>2. Holds(NewRun(b))
  <2>1. IsSequence(<<>>) BY DEF IsSequence
  <2> QED BY <2>1 DEF NewRun, IsRunRecord
<1>3. ASSUME NEW acc, NEW i, NEW command, Holds(acc) PROVE Holds(Extended(b, acc, i, command))
  <2> DEFINE done == Perform(acc.state, command)
  <2>1. CASE ~ acc.ok BY <2>1, <1>3 DEF Extended
  <2>2. CASE acc.ok /\ ~ done.ok
    <3>1. Extended(b, acc, i, command) = Raised(b) BY <2>2 DEF Extended, Recorded
    <3>2. IsSequence(<<>>) BY DEF IsSequence
    <3> QED BY <3>1, <3>2 DEF Raised, IsRunRecord
  <2>3. CASE acc.ok /\ done.ok /\ done.state.operations = acc.state.operations
    BY <2>3, <1>3 DEF Extended, Recorded
  <2>4. CASE acc.ok /\ done.ok /\ done.state.operations # acc.state.operations
    <3>1. PICK ok, state, row, outs :
              Extended(b, acc, i, command)
                  = [ok |-> ok, state |-> state, operations |-> Append(acc.operations, row),
                     outputs |-> outs]
      BY <2>4 DEF Extended, Recorded
    <3>2. IsSequence(Append(acc.operations, row)) /\ Append(acc.operations, row) # <<>>
      BY <1>3, SequenceAppended DEF IsRunRecord
    <3> QED BY <3>1, <3>2 DEF IsRunRecord
  <2> QED BY <2>1, <2>2, <2>3, <2>4
<1> HIDE DEF Holds
<1>4. Bad = {}
  <2> SUFFICES ASSUME Bad # {} PROVE FALSE OBVIOUS
  <2>1. PICK m \in Bad : \A n \in Bad : m <= n
    <3>1. Bad \in SUBSET Nat OBVIOUS
    <3> QED BY <3>1, LeastNatural
  <2>2. m \in 1 .. N /\ m - 1 \in 0 .. N BY <2>1, <1>1, <1>2
  <2>3. Holds(run[m - 1]) BY <2>1, <2>2
  <2>4. Holds(run[m]) BY <2>2, <2>3, <1>1, <1>3
  <2> QED BY <2>1, <2>4
<1>5. Holds(run[N]) BY <1>4
<1> QED BY <1>1, <1>5 DEF Holds

-----------------------------------------------------------------------------
(***************************************************************************)
(* What the invariant says of the head, the receipts and the calls.        *)
(***************************************************************************)

\* Receipts are a sequence, and the head after g of them has generation g.
LEMMA Points ==
    ASSUME JournalInv
    PROVE  /\ Len(commits) \in Nat
           /\ DOMAIN commits = 1 .. Len(commits)
           /\ \A g \in 0 .. Len(commits) :
                 /\ PointAt(g) = [generation |-> g, state |-> PointAt(g).state]
                 /\ PointAt(g).generation = g
<1>1. Len(commits) \in Nat /\ DOMAIN commits = 1 .. Len(commits)
  BY LenProperties DEF JournalInv, IsSequence
<1>2. ASSUME NEW g \in 0 .. Len(commits)
      PROVE  /\ PointAt(g) = [generation |-> g, state |-> PointAt(g).state]
             /\ PointAt(g).generation = g
  <2>1. CASE g = 0 BY <2>1 DEF PointAt, InitialPoint
  <2>2. CASE g # 0
    <3>1. g \in 1 .. Len(commits) BY <2>2, <1>1
    <3>2. CommitInv(g) BY <3>1 DEF JournalInv
    <3>3. PICK b, r : commits[g] = Receipt(r, b, AfterOf(b, r)) BY <3>2 DEF CommitInv, PlanOf
    <3>4. commits[g].after = AfterOf(b, r) BY <3>3 DEF Receipt
    <3>5. commits[g].after.generation = g BY <3>2 DEF CommitInv
    <3> QED BY <2>2, <3>4, <3>5 DEF PointAt, AfterOf
  <2> QED BY <2>1, <2>2
<1> QED BY <1>1, <1>2

\* What a retained receipt says of its request.
LEMMA Receipts ==
    ASSUME JournalInv, NEW g \in DOMAIN commits
    PROVE  LET r == commits[g].request IN
           /\ g \in 1 .. Len(commits) /\ g - 1 \in 0 .. Len(commits)
           /\ r \in Submitted /\ r.journal = ThisJournal /\ r.expected = g - 1
           /\ AcceptedOn(PointAt(g - 1), r) /\ EffectiveOn(PointAt(g - 1), r)
           /\ commits[g].before = PointAt(g - 1)
           /\ commits[g].status = "committed"
<1> DEFINE r == commits[g].request
           b == PointAt(g - 1)
<1>1. g \in 1 .. Len(commits) /\ g - 1 \in 0 .. Len(commits) BY Points
<1>2. CommitInv(g) BY <1>1 DEF JournalInv
<1>3. commits[g] = Receipt(r, b, AfterOf(b, r)) BY <1>2 DEF CommitInv, PlanOf
<1>4. commits[g].after.generation = g BY <1>2 DEF CommitInv
<1>5. b.generation = g - 1 BY <1>1, Points
<1>6. commits[g].before = b /\ commits[g].after = AfterOf(b, r) BY <1>3 DEF Receipt
<1>7. commits[g].status = "committed" BY <1>1, <1>3, <1>4, <1>5, <1>6 DEF Receipt
<1> QED BY <1>1, <1>2, <1>6, <1>7 DEF CommitInv

\* The receipt found under an identifier is the only one that carries it.
LEMMA ReceiptFound ==
    ASSUME PublishedOnce, NEW id, HasReceipt(id)
    PROVE  \E g \in DOMAIN commits :
              /\ commits[g].request.id = id /\ ReceiptOf(id) = commits[g]
              /\ \A h \in DOMAIN commits : commits[h].request.id = id => h = g
<1> DEFINE g == CHOOSE h \in DOMAIN commits : commits[h].request.id = id
<1>1. g \in DOMAIN commits /\ commits[g].request.id = id BY DEF HasReceipt
<1>2. ReceiptOf(id) = commits[g] BY DEF ReceiptOf
<1> QED BY <1>1, <1>2 DEF PublishedOnce

\* An answer given from a retained receipt is true.
LEMMA ExistingAnswerTrue ==
    ASSUME JournalInv, PublishedOnce, NEW s \in Session, NEW r,
           AnswerExisting(s, r), UNCHANGED durable
    PROVE  AnswerIsTrue'
<1>1. PICK g \in DOMAIN commits :
          /\ commits[g].request.id = r.id /\ ReceiptOf(r.id) = commits[g]
          /\ \A h \in DOMAIN commits : commits[h].request.id = r.id => h = g
  BY ReceiptFound DEF AnswerExisting
<1>2. commits[g].status = "committed" BY Receipts
<1>3. CASE commits[g].request = r
  <2>1. answer' = [kind |-> "receipt", request |-> r, receipt |-> commits[g]]
    BY <1>1, <1>3 DEF AnswerExisting, Return
  <2> QED BY <1>2, <1>3, <2>1 DEF AnswerIsTrue, durable
<1>4. CASE commits[g].request # r
  <2>1. answer' = [kind |-> "conflict", request |-> r, receipt |-> None]
    BY <1>1, <1>4 DEF AnswerExisting, Return
  <2>2. \A h \in DOMAIN commits : commits[h].request # r BY <1>1, <1>4
  <2> QED BY <2>1, <2>2 DEF AnswerIsTrue, durable
<1> QED BY <1>3, <1>4

\* A step that tells nothing, or that the call failed, says nothing false.
LEMMA NothingAnswered ==
    ASSUME answer'.kind \in {"none", "unknown"}
    PROVE  AnswerIsTrue'
BY DEF AnswerIsTrue

\* A request that is in no receipt may be answered without one.
LEMMA NoReceiptAnswerTrue ==
    ASSUME NEW kind \in {"conflict", "refused"}, NEW r,
           answer' = [kind |-> kind, request |-> r, receipt |-> None],
           \A g \in DOMAIN commits : commits[g].request # r, UNCHANGED durable
    PROVE  AnswerIsTrue'
BY DEF AnswerIsTrue, durable

-----------------------------------------------------------------------------
(***************************************************************************)
(* The calls.                                                              *)
(***************************************************************************)

\* What was published stays where it is.
Kept ==
    /\ Len(commits) <= Len(commits')
    /\ \A g \in 0 .. Len(commits) : PointAt(g)' = PointAt(g)

LEMMA UnchangedIsKept ==
    ASSUME JournalInv, UNCHANGED durable PROVE Kept
BY Points DEF Kept, PointAt, durable

\* Only one session's call moved.
OthersWait(s) ==
    \A t \in Session \ {s} :
        pc'[t] = pc[t] /\ request'[t] = request[t] /\ before'[t] = before[t] /\ plan'[t] = plan[t]

\* The other calls stay as they were while the journal grows.
LEMMA OtherCalls ==
    ASSUME JournalInv, JournalInv', Kept, NEW s \in Session, OthersWait(s), CallInv(s)',
           \A t \in Session : CallInv(t)
    PROVE  (\A t \in Session : CallInv(t))'
<1> SUFFICES ASSUME NEW t \in Session, t # s PROVE CallInv(t)' OBVIOUS
<1>1. CallInv(t) /\ pc'[t] = pc[t] /\ request'[t] = request[t]
      /\ before'[t] = before[t] /\ plan'[t] = plan[t]
  BY DEF OthersWait
<1>2. CASE pc[t] = "idle" BY <1>1, <1>2 DEF CallInv
<1>3. CASE pc[t] # "idle"
  <2>1. request[t].expected \in 0 .. Len(commits) BY <1>1, <1>3 DEF CallInv
  <2>2. Len(commits) \in Nat /\ Len(commits') \in Nat
    <3>1. Len(commits) \in Nat BY Points
    <3>2. Len(commits') \in Nat BY LenProperties DEF JournalInv, IsSequence
    <3> QED BY <3>1, <3>2
  <2>3. PICK g \in 0 .. Len(commits) : request[t].expected = g BY <2>1
  <2>4. request[t].expected' = g /\ g \in 0 .. Len(commits') BY <1>1, <2>2, <2>3 DEF Kept
  <2>5. PointAt(request[t].expected) = PointAt(g) BY <2>3
  <2>6. (PointAt(request[t].expected))' = PointAt(g)' BY <2>4 DEF PointAt
  <2>7. PointAt(g)' = PointAt(g) BY DEF Kept
  <2>8. before'[t] = (PointAt(request[t].expected))'
    BY <1>1, <1>3, <2>5, <2>6, <2>7 DEF CallInv
  <2> QED BY <1>1, <1>3, <2>4, <2>8 DEF CallInv
<1> QED BY <1>2, <1>3

\* A call that ended.
LEMMA Returned ==
    ASSUME CallTypes, NEW s \in Session, NEW r, NEW kind, NEW receipt,
           Return(s, r, kind, receipt)
    PROVE  CallTypes' /\ OthersWait(s) /\ CallInv(s)'
<1>1. CallTypes' BY DEF Return, CallTypes
<1>2. OthersWait(s) BY DEF Return, CallTypes, OthersWait
<1>3. pc'[s] = "idle" BY DEF Return, CallTypes
<1> QED BY <1>1, <1>2, <1>3 DEF CallInv

\* What a step that publishes nothing has to show.
LEMMA QuietStep ==
    ASSUME IInv, UNCHANGED durable, NEW s \in Session,
           CallTypes', OthersWait(s), CallInv(s)', AnswerIsTrue'
    PROVE  IInv'
<1>1. JournalInv' BY DEF IInv, JournalInv, CommitInv, PointAt, durable
<1>2. PublishedOnce' BY DEF IInv, PublishedOnce, durable
<1>3. Kept BY UnchangedIsKept DEF IInv
<1>4. (\A t \in Session : CallInv(t))' BY <1>1, <1>3, OtherCalls DEF IInv
<1> QED BY <1>1, <1>2, <1>4 DEF IInv, RequestsAdmitted

-----------------------------------------------------------------------------
(***************************************************************************)
(* Every action preserves the invariant.                                   *)
(***************************************************************************)

LEMMA ApplyKeeps ==
    ASSUME IInv, NEW s \in Session, NEW r \in Submitted, Apply(s, r) PROVE IInv'
<1> USE DEF IInv
<1>1. UNCHANGED durable BY DEF Apply
<1>2. CASE r.journal # ThisJournal /\ Return(s, r, "refused", None)
  <2>1. \A g \in DOMAIN commits : commits[g].request # r BY <1>2, Receipts
  <2>2. AnswerIsTrue' BY <1>1, <1>2, <2>1, NoReceiptAnswerTrue DEF Return
  <2> QED BY <1>1, <1>2, <2>2, Returned, QuietStep
<1>3. CASE AnswerExisting(s, r)
  <2>1. AnswerIsTrue' BY <1>1, <1>3, ExistingAnswerTrue
  <2>2. \E kind, receipt : Return(s, r, kind, receipt) BY <1>3 DEF AnswerExisting
  <2> QED BY <1>1, <2>1, <2>2, Returned, QuietStep
<1>4. CASE ~ HasReceipt(r.id) /\ Return(s, r, "conflict", None)
  <2>1. \A g \in DOMAIN commits : commits[g].request # r BY <1>4 DEF HasReceipt
  <2>2. AnswerIsTrue' BY <1>1, <1>4, <2>1, NoReceiptAnswerTrue DEF Return
  <2> QED BY <1>1, <1>4, <2>2, Returned, QuietStep
<1>5. CASE /\ r.journal = ThisJournal /\ head.generation = r.expected
           /\ request' = [request EXCEPT ![s] = r]
           /\ before' = [before EXCEPT ![s] = head]
           /\ pc' = [pc EXCEPT ![s] = "run"]
           /\ answer' = NoAnswer /\ UNCHANGED plan
  <2>1. CallTypes' /\ OthersWait(s) BY <1>5 DEF CallTypes, OthersWait
  <2>2. pc'[s] = "run" /\ request'[s] = r /\ before'[s] = head BY <1>5 DEF CallTypes
  <2>3. head = PointAt(Len(commits)) /\ Len(commits) \in Nat BY Points DEF JournalInv
  <2>4. r.expected = Len(commits) BY <1>5, <2>3, Points
  <2>5. PointAt(r.expected)' = PointAt(r.expected) /\ Len(commits') = Len(commits)
    BY <1>1, <2>3, <2>4 DEF PointAt, durable
  <2>6. CallInv(s)' BY <1>5, <2>2, <2>3, <2>4, <2>5 DEF CallInv, PointAt
  <2>7. AnswerIsTrue' BY <1>5, NothingAnswered DEF NoAnswer
  <2> QED BY <1>1, <2>1, <2>6, <2>7, QuietStep
<1> QED BY <1>2, <1>3, <1>4, <1>5 DEF Apply

LEMMA RunKeeps ==
    ASSUME IInv, NEW s \in Session, Run(s) PROVE IInv'
<1> USE DEF IInv
<1> DEFINE r == request[s]
           b == before[s]
<1>1. UNCHANGED durable BY DEF Run
<1>2. /\ pc[s] = "run" /\ r \in Submitted /\ r.journal = ThisJournal
      /\ r.expected \in 0 .. Len(commits) /\ b = PointAt(r.expected)
  BY DEF Run, CallInv
<1>3. CASE AcceptedOn(b, r)
  <2>1. /\ plan' = [plan EXCEPT ![s] = PlanOf(b, r)]
        /\ pc' = [pc EXCEPT ![s] = IF EffectiveOn(b, r) THEN "publish" ELSE "observe"]
        /\ answer' = NoAnswer /\ UNCHANGED <<request, before>>
    BY <1>3 DEF Run, Staged, AcceptedOn, AfterOf, EffectiveOn, EffectOf, PlanOf
  <2>2. CallTypes' /\ OthersWait(s) BY <2>1 DEF CallTypes, OthersWait
  <2>3. /\ pc'[s] = IF EffectiveOn(b, r) THEN "publish" ELSE "observe"
        /\ plan'[s] = PlanOf(b, r) /\ request'[s] = r /\ before'[s] = b
    BY <2>1 DEF CallTypes
  <2>4. commits' = commits BY <1>1 DEF durable
  <2>5. CallInv(s)' BY <1>2, <1>3, <2>3, <2>4 DEF CallInv, PointAt
  <2>6. AnswerIsTrue' BY <2>1, NothingAnswered DEF NoAnswer
  <2> QED BY <1>1, <2>2, <2>5, <2>6, QuietStep
<1>4. CASE ~ AcceptedOn(b, r)
  <2>1. Return(s, r, "refused", None)
    BY <1>4 DEF Run, Staged, AcceptedOn, AfterOf, EffectiveOn, EffectOf
  <2>2. \A g \in DOMAIN commits : commits[g].request # r BY <1>2, <1>4, Receipts
  <2>3. AnswerIsTrue' BY <1>1, <2>1, <2>2, NoReceiptAnswerTrue DEF Return
  <2> QED BY <1>1, <2>1, <2>3, Returned, QuietStep
<1> QED BY <1>3, <1>4

\* The head after a request without effect is the head before it.
LEMMA WithoutEffect ==
    ASSUME JournalInv, RequestsAdmitted, NEW g \in 0 .. Len(commits), NEW r \in Submitted,
           ~ EffectiveOn(PointAt(g), r)
    PROVE  /\ AfterOf(PointAt(g), r) = PointAt(g)
           /\ PlanOf(PointAt(g), r).receipt.status = "no_op"
           /\ PlanOf(PointAt(g), r).receipt.request = r
           /\ PlanOf(PointAt(g), r).receipt.after = PointAt(g)
<1> DEFINE b == PointAt(g)
<1>1. b = [generation |-> g, state |-> b.state] /\ b.generation = g /\ g \in Int BY Points
<1>2. EffectOf(b, r).state = b.state
  BY NoOperationNoChange DEF RequestsAdmitted, EffectiveOn, EffectOf
<1>3. AfterOf(b, r) = b BY <1>1, <1>2 DEF AfterOf
<1> QED BY <1>3 DEF PlanOf, Receipt

LEMMA ObserveKeeps ==
    ASSUME IInv, NEW s \in Session, Observe(s) PROVE IInv'
<1> USE DEF IInv
<1> DEFINE r == request[s]
           b == before[s]
<1>1. UNCHANGED durable BY DEF Observe
<1>2. PICK g \in 0 .. Len(commits) : r.expected = g /\ b = PointAt(g)
  BY DEF Observe, CallInv
<1>3. r \in Submitted /\ plan[s] = PlanOf(b, r) /\ ~ EffectiveOn(b, r) BY DEF Observe, CallInv
<1>4. CASE head = b /\ Return(s, r, "receipt", plan[s].receipt)
  <2>1. answer' = [kind |-> "receipt", request |-> r, receipt |-> plan[s].receipt]
    BY <1>4 DEF Return
  <2>2. plan[s].receipt.status = "no_op" /\ plan[s].receipt.request = r
        /\ plan[s].receipt.after = head
    BY <1>2, <1>3, <1>4, WithoutEffect
  <2>3. AnswerIsTrue' BY <1>1, <2>1, <2>2 DEF AnswerIsTrue, durable
  <2> QED BY <1>1, <1>4, <2>3, Returned, QuietStep
<1>5. CASE Return(s, r, "conflict", None)
  <2>1. \A h \in DOMAIN commits : commits[h].request # r BY <1>2, <1>3, Receipts
  <2>2. AnswerIsTrue' BY <1>1, <1>5, <2>1, NoReceiptAnswerTrue DEF Return
  <2> QED BY <1>1, <1>5, <2>2, Returned, QuietStep
<1> QED BY <1>4, <1>5 DEF Observe

LEMMA FailKeeps ==
    ASSUME IInv, NEW s \in Session, Fail(s) PROVE IInv'
<1>1. UNCHANGED durable /\ Return(s, request[s], "unknown", None) BY DEF Fail
<1>2. AnswerIsTrue' BY <1>1, NothingAnswered DEF Return
<1> QED BY <1>1, <1>2, Returned, QuietStep DEF IInv

\* Installing a plan whose head is the current one and whose identifier is new.
LEMMA InstallKeeps ==
    ASSUME IInv, NEW s \in Session, pc[s] = "publish", head = before[s],
           ~ HasReceipt(request[s].id), Install(s)
    PROVE  /\ JournalInv' /\ PublishedOnce' /\ Kept
           /\ Len(commits') = Len(commits) + 1 /\ commits' = Append(commits, plan[s].receipt)
           /\ plan[s].receipt.status = "committed" /\ plan[s].receipt.request = request[s]
           /\ \E g \in DOMAIN commits' : commits'[g] = plan[s].receipt
<1> USE DEF IInv
<1> DEFINE r == request[s]
           x == plan[s].receipt
<1>0. PICK n \in Nat : n = Len(commits) BY Points
<1>1. head = PointAt(n) /\ head.generation = n /\ DOMAIN commits = 1 .. n
  <2>1. head = PointAt(n) BY <1>0 DEF JournalInv
  <2> QED BY <1>0, <2>1, Points
<1>2. /\ r \in Submitted /\ r.journal = ThisJournal /\ r.expected \in 0 .. n
      /\ head = PointAt(r.expected)
      /\ AcceptedOn(head, r) /\ EffectiveOn(head, r) /\ plan[s] = PlanOf(head, r)
  BY <1>0 DEF CallInv
<1>3. r.expected = n BY <1>0, <1>1, <1>2, Points
<1>4. x = Receipt(r, head, AfterOf(head, r)) BY <1>2 DEF PlanOf
<1>5. x.request = r /\ x.after = AfterOf(head, r) /\ x.after.generation = n + 1
  <2>1. AfterOf(head, r).generation = n + 1 BY <1>1, <1>2 DEF AfterOf
  <2>2. x.request = r /\ x.after = AfterOf(head, r) BY <1>4 DEF Receipt
  <2> QED BY <2>1, <2>2
<1>6. x.status = "committed"
  <2>1. AfterOf(head, r).generation # head.generation BY <1>1, <1>5
  <2> QED BY <1>4, <2>1 DEF Receipt
<1>7. /\ commits' = Append(commits, x) /\ IsSequence(commits')
      /\ Len(commits') = n + 1
      /\ \A g \in 1 .. n : commits'[g] = commits[g]
      /\ commits'[n + 1] = x
  BY <1>0, SequenceAppended DEF Install, JournalInv
<1>8. DOMAIN commits' = 1 .. n + 1 BY <1>1, <1>7, LenProperties DEF IsSequence
<1>9. \A g \in 0 .. n : PointAt(g)' = PointAt(g) BY <1>1, <1>7 DEF PointAt
<1>10. head' = PointAt(n + 1)' BY <1>7 DEF Install, PointAt
<1>11. ASSUME NEW g \in 1 .. n + 1 PROVE CommitInv(g)'
  <2>1. CASE g # n + 1
    <3>1. g \in 1 .. n /\ g - 1 \in 0 .. n BY <2>1, <1>1
    <3>2. CommitInv(g) BY <3>1, <1>0 DEF JournalInv
    <3>3. commits'[g] = commits[g] /\ PointAt(g - 1)' = PointAt(g - 1) BY <3>1, <1>7, <1>9
    <3> QED BY <3>2, <3>3 DEF CommitInv
  <2>2. CASE g = n + 1
    <3>1. g - 1 = n /\ commits'[g] = x BY <2>2, <1>1, <1>7
    <3>2. PointAt(g - 1)' = head BY <3>1, <1>1, <1>9
    <3>3. /\ commits'[g].request = r /\ r.expected = g - 1
          /\ commits'[g].after.generation = g
      BY <3>1, <2>2, <1>3, <1>5
    <3>4. commits'[g] = PlanOf(head, r).receipt BY <3>1, <1>2
    <3> QED BY <3>2, <3>3, <3>4, <1>2 DEF CommitInv
  <2> QED BY <2>1, <2>2
<1>12. JournalInv' BY <1>7, <1>10, <1>11 DEF JournalInv
<1>13. PublishedOnce'
  <2> SUFFICES ASSUME NEW g \in 1 .. n + 1, NEW h \in 1 .. n + 1,
                      commits'[g].request.id = commits'[h].request.id
               PROVE  g = h
    BY <1>8 DEF PublishedOnce
  <2>1. CASE g # n + 1 /\ h # n + 1 BY <2>1, <1>1, <1>7 DEF PublishedOnce
  <2>2. CASE g = n + 1 /\ h # n + 1
    <3>1. h \in DOMAIN commits /\ commits[h].request.id = r.id BY <2>2, <1>1, <1>5, <1>7
    <3> QED BY <3>1 DEF HasReceipt
  <2>3. CASE g # n + 1 /\ h = n + 1
    <3>1. g \in DOMAIN commits /\ commits[g].request.id = r.id BY <2>3, <1>1, <1>5, <1>7
    <3> QED BY <3>1 DEF HasReceipt
  <2>4. CASE g = n + 1 /\ h = n + 1 BY <2>4
  <2> QED BY <2>1, <2>2, <2>3, <2>4
<1>14. Kept BY <1>0, <1>7, <1>9 DEF Kept
<1>15. \E g \in DOMAIN commits' : commits'[g] = x
  <2>1. n + 1 \in DOMAIN commits' BY <1>1, <1>8
  <2> QED BY <2>1, <1>7
<1> QED BY <1>0, <1>5, <1>6, <1>7, <1>12, <1>13, <1>14, <1>15

LEMMA PublishKeeps ==
    ASSUME IInv, NEW s \in Session, Publish(s) PROVE IInv'
<1> USE DEF IInv
<1> DEFINE r == request[s]
           x == plan[s].receipt
<1>1. CASE AnswerExisting(s, r) /\ UNCHANGED durable
  <2>1. AnswerIsTrue' BY <1>1, ExistingAnswerTrue
  <2>2. \E kind, receipt : Return(s, r, kind, receipt) BY <1>1 DEF AnswerExisting
  <2> QED BY <1>1, <2>1, <2>2, Returned, QuietStep
<1>2. CASE ~ HasReceipt(r.id) /\ Return(s, r, "conflict", None) /\ UNCHANGED durable
  <2>1. \A g \in DOMAIN commits : commits[g].request # r BY <1>2 DEF HasReceipt
  <2>2. AnswerIsTrue' BY <1>2, <2>1, NoReceiptAnswerTrue DEF Return
  <2> QED BY <1>2, <2>2, Returned, QuietStep
<1>3. CASE UNCHANGED durable /\ Return(s, r, "unknown", None)
  <2>1. AnswerIsTrue' BY <1>3, NothingAnswered DEF Return
  <2> QED BY <1>3, <2>1, Returned, QuietStep
<1>4. CASE /\ ~ HasReceipt(r.id) /\ head = before[s] /\ Install(s)
           /\ Return(s, r, "receipt", x) \/ Return(s, r, "unknown", None)
  <2>1. /\ JournalInv' /\ PublishedOnce' /\ Kept
        /\ x.status = "committed" /\ x.request = r
        /\ \E g \in DOMAIN commits' : commits'[g] = x
    BY <1>4, InstallKeeps DEF Publish
  <2>2. CallTypes' /\ OthersWait(s) /\ CallInv(s)' BY <1>4, Returned
  <2>3. (\A t \in Session : CallInv(t))' BY <2>1, <2>2, OtherCalls
  <2>4. AnswerIsTrue'
    <3>1. CASE Return(s, r, "receipt", x)
      <4>1. answer' = [kind |-> "receipt", request |-> r, receipt |-> x] BY <3>1 DEF Return
      <4> QED BY <2>1, <4>1 DEF AnswerIsTrue
    <3>2. CASE Return(s, r, "unknown", None) BY <3>2, NothingAnswered DEF Return
    <3> QED BY <1>4, <3>1, <3>2
  <2> QED BY <2>1, <2>2, <2>3, <2>4 DEF RequestsAdmitted
<1> QED BY <1>1, <1>2, <1>3, <1>4 DEF Publish

\* Readers change nothing but what they hold, and nothing at all changes nothing.
LEMMA ReadersKeep ==
    ASSUME IInv, UNCHANGED <<durable, callVars>>, answer' \in {NoAnswer, answer} PROVE IInv'
<1>1. UNCHANGED <<head, commits, pc, request, before, plan>> BY DEF durable, callVars
<1>2. JournalInv' /\ PublishedOnce' BY <1>1 DEF IInv, JournalInv, CommitInv, PointAt, PublishedOnce
<1>3. CallTypes' BY <1>1 DEF IInv, CallTypes
<1>4. (\A s \in Session : CallInv(s))' BY <1>1 DEF IInv, CallInv, PointAt
<1>5. AnswerIsTrue' BY <1>1, NothingAnswered DEF IInv, AnswerIsTrue, NoAnswer
<1> QED BY <1>2, <1>3, <1>4, <1>5 DEF IInv, RequestsAdmitted

\* The invariant holds initially.
LEMMA InitHolds ==
    ASSUME Init, RequestsAdmitted PROVE IInv
<1>1. IsSequence(commits) /\ Len(commits) = 0 BY DEF Init, IsSequence
<1>2. JournalInv BY <1>1 DEF Init, JournalInv, PointAt
<1>3. DOMAIN commits = {} BY DEF Init
<1>4. PublishedOnce BY <1>3 DEF PublishedOnce
<1>5. CallTypes /\ \A s \in Session : CallInv(s) BY DEF Init, CallTypes, CallInv
<1>6. AnswerIsTrue BY DEF Init, AnswerIsTrue, NoAnswer
<1> QED BY <1>2, <1>4, <1>5, <1>6 DEF IInv

LEMMA StepKeeps ==
    ASSUME IInv, [Next]_vars PROVE IInv'
<1>1. CASE UNCHANGED vars BY <1>1, ReadersKeep DEF vars
<1>2. ASSUME NEW s \in Session, NEW r \in Submitted, Apply(s, r) PROVE IInv' BY <1>2, ApplyKeeps
<1>3. ASSUME NEW s \in Session, Run(s) PROVE IInv' BY <1>3, RunKeeps
<1>4. ASSUME NEW s \in Session, Observe(s) PROVE IInv' BY <1>4, ObserveKeeps
<1>5. ASSUME NEW s \in Session, Publish(s) PROVE IInv' BY <1>5, PublishKeeps
<1>6. ASSUME NEW s \in Session, Fail(s) PROVE IInv' BY <1>6, FailKeeps
<1>7. ASSUME NEW start \in CursorStarts, OutputCursor(start) PROVE IInv'
  BY <1>7, ReadersKeep DEF OutputCursor
<1>8. ASSUME NEW limit \in PageRows, NEW bytes \in PageBytes, ReadOutputs(limit, bytes)
      PROVE  IInv'
  BY <1>8, ReadersKeep DEF ReadOutputs
<1>9. ASSUME Discard PROVE IInv' BY <1>9, ReadersKeep DEF Discard
<1> QED BY <1>1, <1>2, <1>3, <1>4, <1>5, <1>6, <1>7, <1>8, <1>9 DEF Next

-----------------------------------------------------------------------------
(***************************************************************************)
(* The theorems.                                                           *)
(***************************************************************************)

\* The invariant, for any runtime: nothing is assumed of what commands do.
THEOREM Invariance == RequestsAdmitted /\ Spec => []IInv
<1>1. Init /\ RequestsAdmitted => IInv BY InitHolds
<1>2. IInv /\ [Next]_vars => IInv' BY StepKeeps
<1> QED BY <1>1, <1>2, PTL DEF Spec

\* However many sessions race and however often a request is submitted again,
\* its identifier is in one receipt at most.
THEOREM RequestsTakeEffectOnce == RequestsAdmitted /\ Spec => []PublishedOnce
<1>1. IInv => PublishedOnce BY DEF IInv
<1> QED BY <1>1, Invariance, PTL

\* Whatever apply answers, after any lost answer, race or restart, is true of
\* the journal.
THEOREM AnswersAreTrue == RequestsAdmitted /\ Spec => []AnswerIsTrue
<1>1. IInv => AnswerIsTrue BY DEF IInv
<1> QED BY <1>1, Invariance, PTL

\* Receipts form one chain from the initial head to the current one, and each
\* is what performing its commands on the head before it comes to: a request
\* is never published on a head its commands did not run on.
Chain ==
    /\ head = PointAt(Len(commits))
    /\ \A g \in DOMAIN commits :
          LET receipt == commits[g] IN
          /\ receipt.request.expected = g - 1
          /\ receipt.before = PointAt(g - 1)
          /\ receipt.after =
                [generation |-> g, state |-> Performed(receipt.before, receipt.request.commands).state]
          /\ Performed(receipt.before, receipt.request.commands).ok

THEOREM ReceiptsFormOneChain == RequestsAdmitted /\ Spec => []Chain
<1>1. IInv => Chain
  <2> SUFFICES ASSUME IInv PROVE Chain OBVIOUS
  <2>1. head = PointAt(Len(commits)) BY DEF IInv, JournalInv
  <2>2. ASSUME NEW g \in DOMAIN commits
        PROVE  LET receipt == commits[g] IN
               /\ receipt.request.expected = g - 1
               /\ receipt.before = PointAt(g - 1)
               /\ receipt.after =
                     [generation |-> g,
                      state |-> Performed(receipt.before, receipt.request.commands).state]
               /\ Performed(receipt.before, receipt.request.commands).ok
    <3> DEFINE r == commits[g].request
               b == PointAt(g - 1)
    <3>1. /\ g \in 1 .. Len(commits) /\ g - 1 \in 0 .. Len(commits)
          /\ r.expected = g - 1 /\ AcceptedOn(b, r) /\ EffectiveOn(b, r)
          /\ commits[g].before = b
      BY <2>2, Receipts DEF IInv
    <3>2. commits[g] = Receipt(r, b, AfterOf(b, r))
      BY <3>1 DEF IInv, JournalInv, CommitInv, PlanOf
    <3>3. commits[g].after = AfterOf(b, r) BY <3>2 DEF Receipt
    <3>4. b.generation = g - 1 BY <3>1, Points DEF IInv
    <3>5. AfterOf(b, r) = [generation |-> g, state |-> Performed(b, r.commands).state]
      BY <3>1, <3>4 DEF AfterOf, EffectOf
    <3> QED BY <3>1, <3>3, <3>5 DEF AcceptedOn, EffectOf
  <2> QED BY <2>1, <2>2 DEF Chain
<1> QED BY <1>1, Invariance, PTL

-----------------------------------------------------------------------------
(***************************************************************************)
(* OperationJournal implements OperationLog, for every runtime that counts *)
(* its operations: a command that leaves the count where it was leaves the *)
(* runtime as it was and publishes nothing.                                *)
(***************************************************************************)

\* Outputs without the sequence of the operation that published them.
Bare(rows) == [i \in DOMAIN rows |-> rows[i].output]

Retained == [g \in DOMAIN commits |-> commits[g].request]

-----------------------------------------------------------------------------
(***************************************************************************)
(* Sequences whose elements have no type.                                  *)
(***************************************************************************)

LEMMA SequenceConcatenated ==
    ASSUME NEW s, NEW t, IsSequence(s), IsSequence(t)
    PROVE  /\ IsSequence(s \o t)
           /\ Len(s) \in Nat /\ Len(t) \in Nat
           /\ DOMAIN s = 1 .. Len(s) /\ DOMAIN t = 1 .. Len(t)
           /\ DOMAIN (s \o t) = 1 .. Len(s) + Len(t)
           /\ \A i \in 1 .. Len(s) + Len(t) :
                 (s \o t)[i] = IF i <= Len(s) THEN s[i] ELSE t[i - Len(s)]
<1> DEFINE S == {s[i] : i \in DOMAIN s}
           T == {t[i] : i \in DOMAIN t}
           c == s \o t
<1>1. s \in Seq(S) /\ t \in Seq(T) BY DEF IsSequence
<1> HIDE DEF S, T
<1>2. s \in Seq(S \cup T) /\ t \in Seq(S \cup T) BY <1>1
<1>3. /\ Len(s) \in Nat /\ Len(t) \in Nat
      /\ DOMAIN s = 1 .. Len(s) /\ DOMAIN t = 1 .. Len(t)
  BY <1>2, LenProperties
<1>4. /\ c \in Seq(S \cup T) /\ Len(c) = Len(s) + Len(t)
      /\ \A i \in 1 .. Len(s) + Len(t) : c[i] = IF i <= Len(s) THEN s[i] ELSE t[i - Len(s)]
  BY <1>2, ConcatProperties
<1>5. IsSequence(c) /\ DOMAIN c = 1 .. Len(c)
  <2> HIDE DEF c
  <2>1. c \in [1 .. Len(c) -> S \cup T] /\ Len(c) \in Nat /\ DOMAIN c = 1 .. Len(c)
    BY <1>4, LenProperties
  <2>2. c \in [1 .. Len(c) -> {c[i] : i \in DOMAIN c}] BY <2>1
  <2> QED BY <2>1, <2>2 DEF IsSequence
<1> QED BY <1>3, <1>4, <1>5

LEMMA SequenceOfFunction ==
    ASSUME NEW f, NEW n \in Nat, DOMAIN f = 1 .. n, f = [i \in DOMAIN f |-> f[i]]
    PROVE  IsSequence(f) /\ Len(f) = n
<1>1. f \in [1 .. n -> {f[i] : i \in DOMAIN f}] OBVIOUS
<1>2. f \in Seq({f[i] : i \in DOMAIN f}) BY <1>1
<1> QED BY <1>2 DEF IsSequence

LEMMA SequenceEquality ==
    ASSUME NEW s, NEW t, IsSequence(s), IsSequence(t), DOMAIN s = DOMAIN t,
           \A i \in DOMAIN s : s[i] = t[i]
    PROVE  s = t
<1> DEFINE S == {s[i] : i \in DOMAIN s}
<1>1. s \in Seq(S) /\ t \in Seq({t[i] : i \in DOMAIN t}) BY DEF IsSequence
<1>2. S = {t[i] : i \in DOMAIN t} OBVIOUS
<1> HIDE DEF S
<1>3. s \in Seq(S) /\ t \in Seq(S) BY <1>1, <1>2
<1>4. /\ DOMAIN s = 1 .. Len(s) /\ DOMAIN t = 1 .. Len(t)
      /\ Len(s) \in Nat /\ Len(t) \in Nat
  BY <1>3, LenProperties
<1>5. ASSUME NEW a \in Nat, NEW b \in Nat, 1 .. a = 1 .. b PROVE a = b
  <2>1. a = 0 \/ a \in 1 .. b BY <1>5
  <2>2. b = 0 \/ b \in 1 .. a BY <1>5
  <2> QED BY <1>5, <2>1, <2>2
<1>6. Len(s) = Len(t) BY <1>4, <1>5
<1> QED BY <1>3, <1>4, <1>6, SeqEqual

LEMMA BareIsSequence ==
    ASSUME NEW s, IsSequence(s) PROVE IsSequence(Bare(s)) /\ DOMAIN Bare(s) = DOMAIN s
<1>1. Len(s) \in Nat /\ DOMAIN s = 1 .. Len(s) BY LenProperties DEF IsSequence
<1> QED BY <1>1, SequenceOfFunction DEF Bare

LEMMA BareConcatenated ==
    ASSUME NEW s, NEW t, IsSequence(s), IsSequence(t) PROVE Bare(s \o t) = Bare(s) \o Bare(t)
<1> DEFINE u == s \o t
           v == Bare(s) \o Bare(t)
<1>1. /\ IsSequence(u) /\ Len(s) \in Nat /\ Len(t) \in Nat
      /\ DOMAIN s = 1 .. Len(s) /\ DOMAIN t = 1 .. Len(t)
      /\ DOMAIN u = 1 .. Len(s) + Len(t)
      /\ \A i \in 1 .. Len(s) + Len(t) : u[i] = IF i <= Len(s) THEN s[i] ELSE t[i - Len(s)]
  BY SequenceConcatenated
<1>2. IsSequence(Bare(s)) /\ IsSequence(Bare(t)) BY BareIsSequence
<1>3. Len(Bare(s)) = Len(s) /\ Len(Bare(t)) = Len(t)
  BY <1>1, SequenceOfFunction DEF Bare
<1>4. /\ IsSequence(v) /\ DOMAIN v = 1 .. Len(s) + Len(t)
      /\ \A i \in 1 .. Len(s) + Len(t) :
            v[i] = IF i <= Len(s) THEN Bare(s)[i] ELSE Bare(t)[i - Len(s)]
  BY <1>2, <1>3, SequenceConcatenated
<1>5. IsSequence(Bare(u)) /\ DOMAIN Bare(u) = 1 .. Len(s) + Len(t) BY <1>1, BareIsSequence
<1>6. ASSUME NEW i \in 1 .. Len(s) + Len(t) PROVE Bare(u)[i] = v[i]
  <2>1. Bare(u)[i] = u[i].output BY <1>1 DEF Bare
  <2>2. CASE i <= Len(s)
    <3>1. i \in DOMAIN s /\ u[i] = s[i] /\ v[i] = Bare(s)[i] BY <2>2, <1>1, <1>4
    <3> QED BY <2>1, <3>1 DEF Bare
  <2>3. CASE ~ (i <= Len(s))
    <3>1. i - Len(s) \in DOMAIN t /\ u[i] = t[i - Len(s)] /\ v[i] = Bare(t)[i - Len(s)]
      BY <2>3, <1>1, <1>4
    <3> QED BY <2>1, <3>1 DEF Bare
  <2> QED BY <2>2, <2>3
<1> HIDE DEF u, v
<1>7. Bare(u) = v BY <1>4, <1>5, <1>6, SequenceEquality
<1> QED BY <1>7 DEF u, v

\* The rows of an operation, without its sequence, are its outputs.
LEMMA BareRows ==
    ASSUME NEW t, NEW q, IsSequence(t)
    PROVE  LET rows == [n \in DOMAIN t |-> [operation |-> q, output |-> t[n]]]
           IN  IsSequence(rows) /\ Bare(rows) = t
<1> DEFINE rows == [n \in DOMAIN t |-> [operation |-> q, output |-> t[n]]]
<1>1. Len(t) \in Nat /\ DOMAIN t = 1 .. Len(t) BY LenProperties DEF IsSequence
<1>2. IsSequence(rows) BY <1>1, SequenceOfFunction
<1>3. IsSequence(Bare(rows)) /\ DOMAIN Bare(rows) = DOMAIN t BY <1>2, BareIsSequence
<1>4. \A i \in DOMAIN t : Bare(rows)[i] = t[i] BY DEF Bare
<1>5. Bare(rows) = t BY <1>3, <1>4, SequenceEquality
<1> QED BY <1>2, <1>5

-----------------------------------------------------------------------------
(***************************************************************************)
(* A run of the journal is a performance of the log.                       *)
(***************************************************************************)

\* The log's performance is the last of its runs.
LEMMA LogPerformedIsLastRun ==
    ASSUME NEW commands, Len(commands) \in Nat
    PROVE  \E run : /\ Log!Performed(commands) = run[Len(commands)]
                    /\ run[0] = [ok |-> TRUE, state |-> head.state, outputs |-> <<>>]
                    /\ \A i \in 1 .. Len(commands) :
                          run[i] = Log!After(run[i - 1], Perform(run[i - 1].state, commands[i]))
<1> DEFINE N == Len(commands)
           First == [ok |-> TRUE, state |-> head.state, outputs |-> <<>>]
           Step(acc, i) == Log!After(acc, Perform(acc.state, commands[i]))
           IsRun(f, n) == f = [i \in 0 .. n |-> IF i = 0 THEN First ELSE Step(f[i - 1], i)]
           last == CHOOSE f : IsRun(f, N)
<1>1. \E f : IsRun(f, N)
  <2> DEFINE Bad == {n \in 0 .. N : ~ \E f : IsRun(f, n)}
  <2> SUFFICES ASSUME Bad # {} PROVE FALSE OBVIOUS
  <2> HIDE DEF First, Step
  <2>1. PICK m \in Bad : \A n \in Bad : m <= n
    <3>1. Bad \in SUBSET Nat OBVIOUS
    <3> QED BY <3>1, LeastNatural
  <2>2. CASE m = 0
    <3> DEFINE f == [i \in 0 .. 0 |-> First]
    <3>1. IsRun(f, 0) OBVIOUS
    <3> QED BY <2>2, <3>1
  <2>3. CASE m # 0
    <3>1. m \in Nat /\ m - 1 \in 0 .. N /\ m - 1 \notin Bad
      <4>1. m \in 0 .. N BY <2>1
      <4>2. m \in Nat /\ m - 1 \in 0 .. N /\ ~ (m <= m - 1) BY <2>3, <4>1
      <4> HIDE DEF Bad
      <4> QED BY <2>1, <4>2
    <3>2. PICK f : IsRun(f, m - 1) BY <3>1
    <3> DEFINE g == [i \in 0 .. m |-> IF i = m THEN Step(f[m - 1], m) ELSE f[i]]
    <3>3. ASSUME NEW i \in 0 .. m
          PROVE  g[i] = IF i = 0 THEN First ELSE Step(g[i - 1], i)
      <4>1. CASE i = 0 BY <4>1, <2>3, <3>1, <3>2
      <4>2. CASE i # 0 /\ i = m BY <4>2, <3>1
      <4>3. CASE i # 0 /\ i # m
        <5>1. i - 1 \in 0 .. m /\ i - 1 # m /\ i \in 0 .. m - 1 BY <4>3, <3>1
        <5>2. f[i] = Step(f[i - 1], i) BY <5>1, <4>3, <3>2
        <5> QED BY <5>1, <5>2, <4>3
      <4> QED BY <4>1, <4>2, <4>3
    <3>4. IsRun(g, m) BY <3>3
    <3> QED BY <3>4, <2>1
  <2> QED BY <2>2, <2>3
<1>2. IsRun(last, N)
  <2> HIDE DEF IsRun
  <2> QED BY <1>1
<1>3. Log!Performed(commands) = last[N] BY DEF Log!Performed
<1>4. N \in Nat OBVIOUS
<1> HIDE DEF last, First, Step
<1>5. last[0] = First BY <1>2, <1>4
<1>6. ASSUME NEW i \in 1 .. N PROVE last[i] = Step(last[i - 1], i)
  BY <1>2, <1>4
<1> QED BY <1>3, <1>5, <1>6 DEF First, Step

\* What a run that has not stopped has in common with the log's.
Agree(b, States, acc, log) ==
    acc.ok => /\ log.ok = TRUE /\ log.state = acc.state /\ log.outputs = Bare(acc.outputs)
              /\ acc.state \in States /\ IsSequence(acc.outputs) /\ IsSequence(acc.operations)
              /\ acc.state.operations >= b.state.operations
              /\ acc.operations # <<>> => acc.state.operations > b.state.operations

\* One more command.
LEMMA OneMoreCommand ==
    ASSUME NEW States, RuntimeCounts(States), NEW b, b.state \in States,
           NEW r \in Submitted, NEW i \in 1 .. Len(r.commands), NEW acc, NEW log,
           Agree(b, States, acc, log)
    PROVE  Agree(b, States, Extended(b, acc, i, r.commands[i]),
                 Log!After(log, Perform(log.state, r.commands[i])))
<1> DEFINE done == Perform(acc.state, r.commands[i])
           next == Extended(b, acc, i, r.commands[i])
           more == Log!After(log, Perform(log.state, r.commands[i]))
<1>1. CASE ~ acc.ok
  <2>1. ~ next.ok BY <1>1 DEF Extended
  <2> QED BY <2>1 DEF Agree
<1>2. CASE acc.ok /\ ~ done.ok
  <2>1. ~ next.ok BY <1>2 DEF Extended, Recorded, Raised
  <2> QED BY <2>1 DEF Agree
<1>3. CASE acc.ok /\ done.ok
  <2>1. /\ log.ok = TRUE /\ log.state = acc.state /\ log.outputs = Bare(acc.outputs)
        /\ acc.state \in States /\ IsSequence(acc.outputs) /\ IsSequence(acc.operations)
        /\ acc.state.operations >= b.state.operations
        /\ acc.operations # <<>> => acc.state.operations > b.state.operations
    BY <1>3 DEF Agree
  <2>2. /\ done.state \in States
        /\ done.state.operations = acc.state.operations =>
              done.state = acc.state /\ done.outputs = <<>>
        /\ IsSequence(done.outputs)
        /\ done.state.operations \in Nat /\ acc.state.operations \in Nat
        /\ b.state.operations \in Nat
    BY <1>3, <2>1 DEF RuntimeCounts
  <2>3. more.ok = TRUE /\ more.state = done.state
        /\ more.outputs = Bare(acc.outputs) \o done.outputs
    BY <1>3, <2>1 DEF Log!After
  <2>4. CASE done.state.operations = acc.state.operations
    <3>1. next = acc BY <1>3, <2>4 DEF Extended, Recorded
    <3>2. IsSequence(Bare(acc.outputs)) BY <2>1, BareIsSequence
    <3>3. Bare(acc.outputs) \o <<>> = Bare(acc.outputs)
      BY <3>2, ConcatEmptySeq DEF IsSequence
    <3>4. more.outputs = Bare(acc.outputs) /\ more.state = acc.state
      BY <2>2, <2>3, <2>4, <3>3
    <3> QED BY <2>1, <2>3, <3>1, <3>4 DEF Agree
  <2>5. CASE done.state.operations # acc.state.operations
    <3> DEFINE rows == [n \in DOMAIN done.outputs |->
                            [operation |-> done.state.operations, output |-> done.outputs[n]]]
    <3> SUFFICES ASSUME next.ok PROVE Agree(b, States, next, more) BY DEF Agree
    <3>1. PICK row : /\ done.state.operations = acc.state.operations + 1
                     /\ next.state = done.state
                     /\ next.operations = Append(acc.operations, row)
                     /\ next.outputs = acc.outputs \o rows
      BY <1>3, <2>5 DEF Extended, Recorded
    <3>2. IsSequence(rows) /\ Bare(rows) = done.outputs BY <2>2, BareRows
    <3> HIDE DEF rows
    <3>3. IsSequence(next.outputs) BY <2>1, <3>1, <3>2, SequenceConcatenated
    <3>4. Bare(next.outputs) = Bare(acc.outputs) \o done.outputs
      <4>1. Bare(acc.outputs \o rows) = Bare(acc.outputs) \o Bare(rows)
        BY <2>1, <3>2, BareConcatenated
      <4> QED BY <3>1, <3>2, <4>1
    <3>5. IsSequence(next.operations) BY <2>1, <3>1, SequenceAppended
    <3>6. done.state.operations > b.state.operations BY <2>1, <2>2, <3>1
    <3> QED BY <2>2, <2>3, <3>1, <3>3, <3>4, <3>5, <3>6 DEF Agree
  <2> QED BY <2>4, <2>5
<1> QED BY <1>1, <1>2, <1>3

\* All commands of a request.
LEMMA RunIsPerformance ==
    ASSUME NEW States, RuntimeCounts(States), RequestsAdmitted, head.state \in States,
           NEW r \in Submitted
    PROVE  Agree(head, States, Performed(head, r.commands), Log!Performed(r.commands))
<1> DEFINE N == Len(r.commands)
<1>0. N \in Nat BY DEF RequestsAdmitted
<1>1. PICK run : /\ Performed(head, r.commands) = run[N]
                 /\ run[0] = NewRun(head)
                 /\ \A i \in 1 .. N : run[i] = Extended(head, run[i - 1], i, r.commands[i])
  BY <1>0, PerformedIsLastRun
<1>2. PICK log : /\ Log!Performed(r.commands) = log[N]
                 /\ log[0] = [ok |-> TRUE, state |-> head.state, outputs |-> <<>>]
                 /\ \A i \in 1 .. N :
                       log[i] = Log!After(log[i - 1], Perform(log[i - 1].state, r.commands[i]))
  BY <1>0, LogPerformedIsLastRun
<1> DEFINE Bad == {i \in 0 .. N : ~ Agree(head, States, run[i], log[i])}
<1>3. Agree(head, States, run[0], log[0])
  <2>1. IsSequence(<<>>) BY DEF IsSequence
  <2>2. Bare(<<>>) = <<>>
    <3>1. IsSequence(Bare(<<>>)) /\ DOMAIN Bare(<<>>) = DOMAIN <<>> BY <2>1, BareIsSequence
    <3> QED BY <2>1, <3>1, SequenceEquality
  <2>3. head.state.operations \in Nat BY DEF RuntimeCounts
  <2> QED BY <1>1, <1>2, <2>1, <2>2, <2>3 DEF Agree, NewRun
<1>4. Bad = {}
  <2> SUFFICES ASSUME Bad # {} PROVE FALSE OBVIOUS
  <2>1. PICK m \in Bad : \A n \in Bad : m <= n
    <3>1. Bad \in SUBSET Nat OBVIOUS
    <3> QED BY <3>1, LeastNatural
  <2>2. m \in 1 .. N /\ m - 1 \in 0 .. N BY <1>0, <1>3, <2>1
  <2>3. Agree(head, States, run[m - 1], log[m - 1]) BY <2>1, <2>2
  <2>4. Agree(head, States, run[m], log[m])
    <3>1. /\ run[m] = Extended(head, run[m - 1], m, r.commands[m])
          /\ log[m] = Log!After(log[m - 1], Perform(log[m - 1].state, r.commands[m]))
      BY <1>1, <1>2, <2>2
    <3>2. Agree(head, States, Extended(head, run[m - 1], m, r.commands[m]),
                Log!After(log[m - 1], Perform(log[m - 1].state, r.commands[m])))
      BY <2>2, <2>3, OneMoreCommand
    <3> QED BY ONLY <3>1, <3>2
  <2> QED BY <2>1, <2>4
<1>5. Agree(head, States, run[N], log[N]) BY <1>0, <1>4
<1> QED BY <1>1, <1>2, <1>5

-----------------------------------------------------------------------------
(***************************************************************************)
(* The refinement.                                                         *)
(***************************************************************************)

\* The invariant, and what the log's state is made of.
RInv(States) == IInv /\ head.state \in States /\ IsSequence(outputs)

LEMMA RetainedAppended ==
    ASSUME NEW s, NEW e, IsSequence(s)
    PROVE  [g \in DOMAIN Append(s, e) |-> Append(s, e)[g].request]
               = Append([g \in DOMAIN s |-> s[g].request], e.request)
<1> DEFINE f == [g \in DOMAIN s |-> s[g].request]
           a == Append(s, e)
           u == [g \in DOMAIN a |-> a[g].request]
           v == Append(f, e.request)
<1>1. /\ IsSequence(a) /\ Len(s) \in Nat /\ Len(a) = Len(s) + 1
      /\ \A i \in 1 .. Len(s) : a[i] = s[i]
      /\ a[Len(s) + 1] = e
  BY SequenceAppended
<1>2. DOMAIN s = 1 .. Len(s) BY LenProperties DEF IsSequence
<1> HIDE DEF a
<1>3. DOMAIN a = 1 .. Len(s) + 1 BY <1>1, LenProperties DEF IsSequence
<1>4. IsSequence(f) /\ Len(f) = Len(s) BY <1>1, <1>2, SequenceOfFunction
<1>5. IsSequence(u)
  <2>1. Len(s) + 1 \in Nat /\ DOMAIN u = 1 .. Len(s) + 1 BY <1>1, <1>3
  <2>2. u = [i \in DOMAIN u |-> u[i]] OBVIOUS
  <2> HIDE DEF u
  <2> QED BY <2>1, <2>2, SequenceOfFunction
<1> HIDE DEF f
<1>6. /\ IsSequence(v) /\ Len(v) = Len(s) + 1
      /\ \A i \in 1 .. Len(s) : v[i] = f[i]
      /\ v[Len(s) + 1] = e.request
  BY <1>4, SequenceAppended
<1> HIDE DEF v
<1>7. DOMAIN v = 1 .. Len(s) + 1 BY <1>6, LenProperties DEF IsSequence
<1>8. ASSUME NEW i \in 1 .. Len(s) + 1 PROVE u[i] = v[i]
  <2>1. u[i] = a[i].request BY <1>3
  <2>2. CASE i = Len(s) + 1 BY <2>1, <2>2, <1>1, <1>6
  <2>3. CASE i # Len(s) + 1
    <3>1. i \in 1 .. Len(s) BY <2>3, <1>1
    <3>2. v[i] = s[i].request BY <3>1, <1>2, <1>6 DEF f
    <3> QED BY <2>1, <3>1, <3>2, <1>1
  <2> QED BY <2>2, <2>3
<1>9. DOMAIN u = 1 .. Len(s) + 1 BY <1>3
<1> HIDE DEF u
<1>10. u = v BY <1>5, <1>6, <1>7, <1>8, <1>9, SequenceEquality
<1> QED BY <1>10 DEF u, v, a, f

\* Publishing a plan is one effective request of the log.
LEMMA InstallIsPublish ==
    ASSUME NEW States, RuntimeCounts(States), RInv(States), NEW s \in Session,
           pc[s] = "publish", head = before[s], ~ HasReceipt(request[s].id), Install(s)
    PROVE  Log!Next /\ head'.state \in States /\ IsSequence(outputs')
<1> DEFINE r == request[s]
           P == Performed(head, r.commands)
           L == Log!Performed(r.commands)
<1>1. /\ IsSequence(commits) /\ Len(commits) \in Nat /\ DOMAIN commits = 1 .. Len(commits)
      /\ head = PointAt(Len(commits)) /\ head.generation = Len(commits)
  <2>1. IsSequence(commits) /\ head = PointAt(Len(commits)) BY DEF RInv, IInv, JournalInv
  <2> QED BY <2>1, Points DEF RInv, IInv
<1>2. /\ r \in Submitted /\ r.expected \in 0 .. Len(commits) /\ head = PointAt(r.expected)
      /\ P.ok /\ P.operations # <<>>
      /\ plan[s] = PlanOf(head, r)
  BY DEF RInv, IInv, CallInv, AcceptedOn, EffectiveOn, EffectOf
<1>3. r.expected = Len(commits) BY <1>1, <1>2, Points DEF RInv, IInv
<1>4. Agree(head, States, P, L) BY <1>2, RunIsPerformance DEF RInv, IInv
<1>5. /\ L.ok = TRUE /\ L.state = P.state /\ L.outputs = Bare(P.outputs)
      /\ P.state \in States /\ IsSequence(P.outputs)
      /\ P.state.operations > head.state.operations
  BY <1>2, <1>4 DEF Agree
<1>6. /\ head' = AfterOf(head, r) /\ commits' = Append(commits, plan[s].receipt)
      /\ outputs' = outputs \o P.outputs /\ plan[s].receipt.request = r
  <2>1. /\ plan[s].receipt.after = AfterOf(head, r) /\ plan[s].receipt.request = r
        /\ plan[s].outputs = P.outputs
    BY <1>2 DEF PlanOf, Receipt, EffectOf
  <2>2. /\ head' = plan[s].receipt.after /\ commits' = Append(commits, plan[s].receipt)
        /\ outputs' = outputs \o plan[s].outputs
    BY DEF Install
  <2> HIDE DEF P, r
  <2> QED BY <2>1, <2>2
<1>7. head'.state = P.state BY <1>6 DEF AfterOf, EffectOf
<1>8. IsSequence(outputs') /\ Bare(outputs') = Bare(outputs) \o Bare(P.outputs)
  <2> HIDE DEF P, L
  <2>1. IsSequence(outputs) /\ IsSequence(P.outputs) BY <1>5 DEF RInv
  <2>2. IsSequence(outputs \o P.outputs) BY <2>1, SequenceConcatenated
  <2>3. Bare(outputs \o P.outputs) = Bare(outputs) \o Bare(P.outputs) BY <2>1, BareConcatenated
  <2> QED BY <1>6, <2>2, <2>3
<1>9. Retained' = Append(Retained, r) BY <1>1, <1>6, RetainedAppended DEF Retained
<1>10. IsSequence(Retained) /\ Len(Retained) = Len(commits) /\ DOMAIN Retained = DOMAIN commits
  BY <1>1, SequenceOfFunction DEF Retained
<1>11. Retained' # Retained
  <2>1. Len(Retained') = Len(Retained) + 1 /\ Len(Retained) \in Nat
    BY <1>9, <1>10, SequenceAppended
  <2> QED BY <2>1
<1>12. \A i \in DOMAIN Retained : Retained[i].id # r.id BY <1>10 DEF HasReceipt, Retained
<1>13. P.state # head.state
  <2>1. head.state.operations \in Nat BY DEF RuntimeCounts, RInv
  <2> QED BY <2>1, <1>5
<1>14. PICK q \in Submitted : q = r BY <1>2
<1>15. Log!Effective(q, Log!Performed(q.commands))
  BY <1>5, <1>7, <1>8, <1>9, <1>13, <1>14 DEF Log!Effective, Bare, Retained
<1>16. Log!Publish(q)
  BY <1>3, <1>9, <1>10, <1>12, <1>14, <1>15 DEF Log!Publish, Retained
<1>17. Log!Next BY <1>11, <1>16 DEF Log!Next, Retained
<1> QED BY <1>5, <1>7, <1>8, <1>17

LEMMA StepRefines ==
    ASSUME NEW States, RuntimeCounts(States), RInv(States), [Next]_vars
    PROVE  [Log!Next]_(Log!logVars) /\ RInv(States)'
<1>1. IInv' BY StepKeeps DEF RInv
<1>2. CASE UNCHANGED <<head, commits, outputs>>
  BY <1>1, <1>2 DEF RInv, Log!logVars
<1>3. ASSUME NEW s \in Session, Publish(s), ~ UNCHANGED durable
      PROVE  Log!Next /\ head'.state \in States /\ IsSequence(outputs')
  <2>1. /\ pc[s] = "publish" /\ head = before[s] /\ ~ HasReceipt(request[s].id)
        /\ Install(s)
    BY <1>3 DEF Publish
  <2> QED BY <2>1, InstallIsPublish
<1>4. CASE \E s \in Session : Publish(s) /\ ~ UNCHANGED durable
  BY <1>1, <1>3, <1>4 DEF RInv
<1>5. CASE ~ \E s \in Session : Publish(s) /\ ~ UNCHANGED durable
  <2>1. UNCHANGED durable
    BY <1>5 DEF Next, vars, Apply, Run, Observe, Fail, OutputCursor, ReadOutputs, Discard
  <2> QED BY <1>2, <2>1 DEF durable
<1> QED BY <1>4, <1>5

\* Concurrent sessions, lost answers and failures are invisible in the log.
THEOREM JournalImplementsLog ==
    ASSUME NEW CONSTANT States, RuntimeCounts(States), RequestsAdmitted
    PROVE  Spec => LogSpec
<1>1. Init => RInv(States) /\ Log!Init
  <2> SUFFICES ASSUME Init PROVE RInv(States) /\ Log!Init OBVIOUS
  <2>1. IInv BY InitHolds
  <2>2. head.state = InitialState BY DEF Init, InitialPoint
  <2>3. IsSequence(outputs) BY DEF Init, IsSequence
  <2>4. [g \in DOMAIN commits |-> commits[g].request] = <<>>
        /\ [i \in DOMAIN outputs |-> outputs[i].output] = <<>>
    BY DEF Init
  <2> QED BY <2>1, <2>2, <2>3, <2>4 DEF RInv, RuntimeCounts, Log!Init
<1>2. RInv(States) /\ [Next]_vars => [Log!Next]_(Log!logVars) /\ RInv(States)'
  BY StepRefines
<1> QED BY <1>1, <1>2, PTL DEF Spec, LogSpec, Log!Spec

-----------------------------------------------------------------------------
(***************************************************************************)
(* What the journal stores passes the checks of its own readers, for every *)
(* runtime that explains what its commands did: the journal is sound, and  *)
(* a captured cursor stays readable.                                       *)
(***************************************************************************)
CONSTANTS
    States,     \* the states of the runtime
    Stretches   \* what leads from one to another

Runtime ==
    /\ RequestsAdmitted /\ BoundsAdmitted
    /\ RuntimeCounts(States) /\ RuntimeExplains(States, Stretches)

-----------------------------------------------------------------------------
(***************************************************************************)
(* The rows of a run that started from the head b.                         *)
(***************************************************************************)
Causes(ops) == [k \in DOMAIN ops |-> ops[k].cause]

StopAfter(b, ops, k) == IF k = 0 THEN b.state.emitted ELSE ops[k].stop

\* The k-th operation of a request of at least m commands.
OperationRow(b, ops, k, m) ==
    /\ ops[k].generation = b.generation + 1
    /\ ops[k].index \in 1 .. m
    /\ k > 1 => ops[k - 1].index < ops[k].index
    /\ ops[k].start = StopAfter(b, ops, k - 1)
    /\ ops[k].start \in Nat /\ ops[k].stop \in Nat /\ b.state.emitted <= ops[k].start
    /\ OperationAdmitted(ops[k])

\* What a page demands of two neighbours.
InOrder(x, y) ==
    /\ x.operation <= y.operation
    /\ x.operation = y.operation => Follows(x.output, y.output)

OutputRow(b, ops, outs, n) ==
    /\ outs[n].operation - b.state.operations \in 1 .. Len(ops)
    /\ outs[n].operation \in Nat
    /\ ops[outs[n].operation - b.state.operations].start < b.state.emitted + n
    /\ b.state.emitted + n <= ops[outs[n].operation - b.state.operations].stop
    /\ OutputSize(outs[n].output) \in Nat
    /\ n > 1 => InOrder(outs[n - 1], outs[n])

\* A run of m commands that none has stopped.
Explained(b, acc, m) ==
    /\ IsSequence(acc.operations) /\ IsSequence(acc.outputs)
    /\ acc.state \in States
    /\ Len(acc.operations) <= m
    /\ Len(acc.outputs) <= MaxBatchOutputs
    /\ acc.state.operations = b.state.operations + Len(acc.operations)
    /\ acc.state.emitted = b.state.emitted + Len(acc.outputs)
    /\ StopAfter(b, acc.operations, Len(acc.operations)) = acc.state.emitted
    /\ <<b.state, Causes(acc.operations), acc.state>> \in Stretches
    /\ \A k \in 1 .. Len(acc.operations) : OperationRow(b, acc.operations, k, m)
    /\ \A n \in 1 .. Len(acc.outputs) : OutputRow(b, acc.operations, acc.outputs, n)

-----------------------------------------------------------------------------
(***************************************************************************)
(* One more command.                                                       *)
(***************************************************************************)

\* The length and the elements of a sequence.
LEMMA Elements ==
    ASSUME NEW s, IsSequence(s)
    PROVE  Len(s) \in Nat /\ DOMAIN s = 1 .. Len(s)
BY LenProperties DEF IsSequence

\* One more operation appends its cause.
LEMMA CausesAppended ==
    ASSUME NEW ops, NEW row, IsSequence(ops)
    PROVE  /\ Causes(Append(ops, row)) = Append(Causes(ops), row.cause)
           /\ Len(Causes(ops)) = Len(ops)
<1> DEFINE more == Append(ops, row)
           u == Causes(more)
           v == Append(Causes(ops), row.cause)
           N == Len(ops)
<1>1. /\ IsSequence(more) /\ N \in Nat /\ Len(more) = N + 1
      /\ \A i \in 1 .. N : more[i] = ops[i]
      /\ more[N + 1] = row
  BY SequenceAppended
<1>2. DOMAIN ops = 1 .. N BY Elements
<1> HIDE DEF more
<1>3. DOMAIN more = 1 .. N + 1 BY <1>1, Elements
<1>4. IsSequence(Causes(ops)) /\ Len(Causes(ops)) = N
  BY <1>1, <1>2, SequenceOfFunction DEF Causes
<1>5. IsSequence(u) /\ DOMAIN u = 1 .. N + 1
  <2>1. N + 1 \in Nat /\ DOMAIN u = 1 .. N + 1 BY <1>1, <1>3 DEF Causes
  <2>2. u = [i \in DOMAIN u |-> u[i]] BY DEF Causes
  <2> HIDE DEF u
  <2> QED BY <2>1, <2>2, SequenceOfFunction
<1>6. /\ IsSequence(v) /\ Len(v) = N + 1
      /\ \A i \in 1 .. N : v[i] = Causes(ops)[i]
      /\ v[N + 1] = row.cause
  BY <1>4, SequenceAppended
<1> HIDE DEF v
<1>7. DOMAIN v = 1 .. N + 1 BY <1>6, Elements
<1>8. ASSUME NEW i \in 1 .. N + 1 PROVE u[i] = v[i]
  <2>1. u[i] = more[i].cause BY <1>3 DEF Causes
  <2>2. CASE i = N + 1 BY <2>1, <2>2, <1>1, <1>6
  <2>3. CASE i # N + 1
    <3>1. i \in 1 .. N BY <2>3, <1>1
    <3>2. v[i] = ops[i].cause BY <3>1, <1>2, <1>6 DEF Causes
    <3> QED BY <2>1, <3>1, <3>2, <1>1
  <2> QED BY <2>2, <2>3
<1> HIDE DEF u
<1>9. u = v BY <1>5, <1>6, <1>7, <1>8, SequenceEquality
<1> QED BY <1>4, <1>9 DEF u, v, more

\* The operations before a new one stay as they are, and it goes on where they end.
LEMMA OperationRowsExtend ==
    ASSUME NEW b, NEW ops, NEW row, NEW m \in Nat, IsSequence(ops),
           \A k \in 1 .. Len(ops) : OperationRow(b, ops, k, m),
           row.generation = b.generation + 1, row.index = m + 1,
           row.start = StopAfter(b, ops, Len(ops)), row.start \in Nat, row.stop \in Nat,
           b.state.emitted <= row.start, OperationAdmitted(row)
    PROVE  LET more == Append(ops, row) IN
           /\ \A k \in 1 .. Len(more) : OperationRow(b, more, k, m + 1)
           /\ StopAfter(b, more, Len(more)) = row.stop
<1> DEFINE more == Append(ops, row)
           N == Len(ops)
<1>1. /\ IsSequence(more) /\ N \in Nat /\ Len(more) = N + 1
      /\ \A i \in 1 .. N : more[i] = ops[i]
      /\ more[N + 1] = row
  BY SequenceAppended
<1> HIDE DEF more
<1>2. ASSUME NEW k \in 1 .. N PROVE OperationRow(b, more, k, m + 1)
  <2>1. more[k] = ops[k] BY <1>1
  <2>2. k > 1 => more[k - 1] = ops[k - 1] BY <1>1
  <2>3. StopAfter(b, more, k - 1) = StopAfter(b, ops, k - 1)
    BY <1>1 DEF StopAfter
  <2>4. OperationRow(b, ops, k, m) OBVIOUS
  <2>5. 1 .. m \subseteq 1 .. m + 1 OBVIOUS
  <2> QED BY <2>1, <2>2, <2>3, <2>4, <2>5 DEF OperationRow
<1>3. OperationRow(b, more, N + 1, m + 1)
  <2>1. N + 1 - 1 = N BY <1>1
  <2>2. StopAfter(b, more, N) = StopAfter(b, ops, N) BY <1>1 DEF StopAfter
  <2>3. N + 1 > 1 => more[N].index < m + 1
    <3>1. CASE N = 0 BY <3>1
    <3>2. CASE N # 0
      <4>1. N \in 1 .. N BY <3>2, <1>1
      <4>2. more[N] = ops[N] /\ OperationRow(b, ops, N, m) BY <4>1, <1>1
      <4> QED BY <4>2 DEF OperationRow
    <3> QED BY <3>1, <3>2
  <2>4. m + 1 \in 1 .. m + 1 OBVIOUS
  <2> QED BY <1>1, <2>1, <2>2, <2>3, <2>4 DEF OperationRow
<1>4. StopAfter(b, more, N + 1) = row.stop BY <1>1 DEF StopAfter
<1>5. \A k \in 1 .. N + 1 : OperationRow(b, more, k, m + 1)
  <2> SUFFICES ASSUME NEW k \in 1 .. N + 1 PROVE OperationRow(b, more, k, m + 1) OBVIOUS
  <2>1. k \in 1 .. N \/ k = N + 1 BY <1>1
  <2> QED BY <2>1, <1>2, <1>3
<1> QED BY <1>1, <1>4, <1>5 DEF more

LEMMA Earlier ==
    ASSUME NEW p \in Nat, NEW x \in Nat, NEW n \in Nat, NEW k \in 1 .. n, k = p - x
    PROVE  p < x + n + 1
OBVIOUS

\* The outputs before stay as they are, and those of the new operation lie in it.
LEMMA OutputRowsExtend ==
    ASSUME Runtime, NEW b, b.state.operations \in Nat, b.state.emitted \in Nat,
           NEW ops, NEW outs, NEW row, NEW new, NEW q \in Nat,
           IsSequence(ops), IsSequence(outs), IsSequence(new),
           q = b.state.operations + Len(ops) + 1,
           row.start = b.state.emitted + Len(outs), row.stop = row.start + Len(new),
           \A n \in 1 .. Len(outs) : OutputRow(b, ops, outs, n),
           \A n \in DOMAIN new :
               /\ OutputSize(new[n]) \in Nat
               /\ n > 1 => Follows(new[n - 1], new[n])
    PROVE  LET more == Append(ops, row)
               rows == [n \in DOMAIN new |-> [operation |-> q, output |-> new[n]]]
               all  == outs \o rows
           IN  /\ IsSequence(all) /\ Len(all) = Len(outs) + Len(new)
               /\ \A n \in 1 .. Len(all) : OutputRow(b, more, all, n)
<1> DEFINE more == Append(ops, row)
           rows == [n \in DOMAIN new |-> [operation |-> q, output |-> new[n]]]
           all  == outs \o rows
           N == Len(ops)
           O == Len(outs)
           W == Len(new)
           B == b.state.operations
           E == b.state.emitted
<1>1. /\ IsSequence(more) /\ N \in Nat /\ Len(more) = N + 1
      /\ \A i \in 1 .. N : more[i] = ops[i]
      /\ more[N + 1] = row
  BY SequenceAppended
<1>2. W \in Nat /\ DOMAIN new = 1 .. W /\ O \in Nat BY Elements
<1>3. IsSequence(rows) /\ Len(rows) = W BY <1>2, SequenceOfFunction
<1>4. \A n \in 1 .. W : rows[n].operation = q /\ rows[n].output = new[n] BY <1>2
<1> HIDE DEF more, rows
<1>5. /\ IsSequence(all) /\ DOMAIN all = 1 .. O + W
      /\ \A i \in 1 .. O + W : all[i] = IF i <= O THEN outs[i] ELSE rows[i - O]
  <2>1. /\ IsSequence(outs \o rows)
        /\ DOMAIN (outs \o rows) = 1 .. Len(outs) + Len(rows)
        /\ \A i \in 1 .. Len(outs) + Len(rows) :
              (outs \o rows)[i] = IF i <= Len(outs) THEN outs[i] ELSE rows[i - Len(outs)]
    BY <1>3, SequenceConcatenated
  <2> QED BY <2>1, <1>3
<1> HIDE DEF all
<1>6. Len(all) = O + W
  <2>1. O + W \in Nat BY <1>2
  <2>2. all = [i \in DOMAIN all |-> all[i]] BY <1>5 DEF IsSequence
  <2> QED BY <2>1, <2>2, <1>5, SequenceOfFunction
<1>7. ASSUME NEW n \in 1 .. O PROVE OutputRow(b, more, all, n)
  <2>1. n \in 1 .. O + W /\ n <= O BY <1>2
  <2>2. all[n] = outs[n] BY <2>1, <1>5
  <2>3. n > 1 => all[n - 1] = outs[n - 1]
    <3>1. n > 1 => n - 1 \in 1 .. O + W /\ n - 1 <= O BY <2>1
    <3> QED BY <3>1, <1>5
  <2>4. OutputRow(b, ops, outs, n) OBVIOUS
  <2>5. PICK k \in 1 .. N : k = outs[n].operation - B BY <2>4 DEF OutputRow
  <2>6. more[k] = ops[k] /\ k \in 1 .. N + 1 BY <1>1
  <2> QED BY <1>1, <2>2, <2>3, <2>4, <2>5, <2>6 DEF OutputRow
<1>8. ASSUME NEW w \in 1 .. W PROVE OutputRow(b, more, all, O + w)
  <2>1. O + w \in 1 .. O + W /\ ~ (O + w <= O) /\ O + w - O = w BY <1>2
  <2>2. all[O + w] = rows[w] BY <2>1, <1>5
  <2>3. all[O + w].operation = q /\ all[O + w].output = new[w] BY <2>2, <1>4
  <2>4. q - B = N + 1 /\ N + 1 \in 1 .. N + 1
    <3>1. B \in Nat /\ N \in Nat /\ q = B + N + 1 BY <1>1
    <3>2. ASSUME NEW o \in Nat, NEW l \in Nat
          PROVE  (o + l + 1) - o = l + 1 /\ l + 1 \in 1 .. l + 1
      OBVIOUS
    <3> HIDE DEF B, N
    <3> QED BY ONLY <3>1, <3>2
  <2>5. row.start < E + (O + w) /\ E + (O + w) <= row.stop BY <1>2
  <2>6. OutputSize(new[w]) \in Nat BY <1>2
  <2>7. O + w > 1 => InOrder(all[O + w - 1], all[O + w])
    <3>1. CASE w > 1
      <4>1. O + w - 1 = O + (w - 1) /\ w - 1 \in 1 .. W /\ O + w - 1 \in 1 .. O + W
            /\ ~ (O + w - 1 <= O) /\ O + w - 1 - O = w - 1
        BY <3>1, <1>2
      <4>2. all[O + w - 1] = rows[w - 1]
        <5>1. PICK i \in 1 .. O + W : i = O + w - 1 BY <4>1
        <5>2. ~ (i <= O) /\ i - O = w - 1 BY <4>1, <5>1
        <5>3. all[i] = rows[i - O] BY <1>5, <5>2
        <5> QED BY <5>1, <5>2, <5>3
      <4>3. all[O + w - 1].operation = q /\ all[O + w - 1].output = new[w - 1]
        BY <4>1, <4>2, <1>4
      <4>4. Follows(new[w - 1], new[w]) BY <3>1, <1>2
      <4> QED BY <2>3, <4>3, <4>4 DEF InOrder
    <3>2. CASE ~ (w > 1) /\ O > 0
      <4>1. w = 1 /\ O + w - 1 = O /\ O \in 1 .. O /\ O \in 1 .. O + W BY <3>2, <1>2
      <4>2. all[O + w - 1] = outs[O] BY <4>1, <1>5
      <4>3. OutputRow(b, ops, outs, O) BY <4>1
      <4>4. outs[O].operation \in Nat /\ outs[O].operation - B \in 1 .. N
        BY <4>3 DEF OutputRow
      <4>5. outs[O].operation < q
        <5>1. PICK k \in 1 .. N, p \in Nat : k = outs[O].operation - B /\ p = outs[O].operation
          BY <4>4
        <5>2. B \in Nat /\ N \in Nat /\ q = B + N + 1 BY <1>1
        <5> HIDE DEF B, N
        <5>3. p < q BY <5>1, <5>2, Earlier
        <5> QED BY <5>1, <5>3
      <4>6. outs[O].operation <= q /\ outs[O].operation # q BY <4>4, <4>5
      <4>7. InOrder(outs[O], all[O + w])
        <5>1. all[O + w].operation = q BY <2>3
        <5> QED BY ONLY <4>6, <5>1 DEF InOrder
      <4> QED BY ONLY <4>2, <4>7
    <3>3. CASE ~ (w > 1) /\ ~ (O > 0) BY <3>3, <1>2
    <3> QED BY <3>1, <3>2, <3>3
  <2>8. more[all[O + w].operation - B] = row /\ all[O + w].operation - B \in 1 .. Len(more)
    BY <1>1, <2>3, <2>4
  <2> QED BY <2>3, <2>5, <2>6, <2>7, <2>8 DEF OutputRow
<1>9. \A n \in 1 .. O + W : OutputRow(b, more, all, n)
  <2> SUFFICES ASSUME NEW n \in 1 .. O + W PROVE OutputRow(b, more, all, n) OBVIOUS
  <2>1. CASE n <= O
    <3>1. n \in 1 .. O BY <2>1, <1>2
    <3> QED BY <3>1, <1>7
  <2>2. CASE ~ (n <= O)
    <3>1. n - O \in 1 .. W /\ O + (n - O) = n BY <2>2, <1>2
    <3>2. OutputRow(b, more, all, O + (n - O)) BY <3>1, <1>8
    <3> QED BY <3>1, <3>2
  <2> QED BY <2>1, <2>2
<1> QED BY <1>5, <1>6, <1>9 DEF all, more, rows

LEMMA Room ==
    ASSUME NEW x \in Nat, NEW y \in Nat, NEW z \in Nat, NEW m \in Nat, (x + y + z) - x <= m
    PROVE  y + z <= m /\ (x + y + z) - (x + y) \in 0 .. m
OBVIOUS

\* A command that is counted.
LEMMA CountedCommand ==
    ASSUME Runtime, NEW b, b.state \in States, NEW r \in Submitted,
           NEW i \in 1 .. Len(r.commands), NEW acc, acc.ok, Explained(b, acc, i - 1),
           Perform(acc.state, r.commands[i]).ok,
           Perform(acc.state, r.commands[i]).state.operations # acc.state.operations,
           Extended(b, acc, i, r.commands[i]).ok
    PROVE  Explained(b, Extended(b, acc, i, r.commands[i]), i)
<1> DEFINE done == Perform(acc.state, r.commands[i])
           next == Extended(b, acc, i, r.commands[i])
           B == b.state.operations
           E == b.state.emitted
           O == Len(acc.outputs)
           W == Len(done.outputs)
           row == [generation |-> b.generation + 1, index |-> i, cause |-> done.cause,
                   start |-> E + O, stop |-> E + O + W]
           rows == [n \in DOMAIN done.outputs |->
                       [operation |-> done.state.operations, output |-> done.outputs[n]]]
<1>1. /\ done.state.operations = acc.state.operations + 1
      /\ (E + O + W) - E <= MaxBatchOutputs
      /\ next.state = done.state
      /\ next.operations = Append(acc.operations, row)
      /\ next.outputs = acc.outputs \o rows
  <2>1. next = [ok |-> /\ done.state.operations = acc.state.operations + 1
                       /\ done.state.operations <= MaxHistory /\ E + O + W <= MaxHistory
                       /\ (E + O + W) - E <= MaxBatchOutputs,
                state |-> done.state,
                operations |-> Append(acc.operations, row),
                outputs |-> acc.outputs \o rows]
    <3>1. next = Recorded(b, acc, i, done) BY DEF Extended
    <3>2. done.ok /\ done.state.operations # acc.state.operations OBVIOUS
    <3> HIDE DEF next, done
    <3> QED BY <3>1, <3>2 DEF Recorded
  <2>2. next.ok OBVIOUS
  <2> HIDE DEF next
  <2>3. /\ next.state = done.state
        /\ next.operations = Append(acc.operations, row)
        /\ next.outputs = acc.outputs \o rows
    BY <2>1
  <2>4. /\ done.state.operations = acc.state.operations + 1
        /\ done.state.operations <= MaxHistory /\ E + O + W <= MaxHistory
        /\ (E + O + W) - E <= MaxBatchOutputs
    BY <2>1, <2>2
  <2> QED BY <2>3, <2>4
<1>2. /\ IsSequence(acc.operations) /\ IsSequence(acc.outputs)
      /\ acc.state \in States
      /\ Len(acc.operations) <= i - 1
      /\ O <= MaxBatchOutputs
      /\ acc.state.operations = B + Len(acc.operations)
      /\ acc.state.emitted = E + O
      /\ StopAfter(b, acc.operations, Len(acc.operations)) = acc.state.emitted
      /\ <<b.state, Causes(acc.operations), acc.state>> \in Stretches
      /\ \A k \in 1 .. Len(acc.operations) : OperationRow(b, acc.operations, k, i - 1)
      /\ \A n \in 1 .. O : OutputRow(b, acc.operations, acc.outputs, n)
  BY DEF Explained
<1>3. /\ done.state \in States /\ IsSequence(done.outputs)
      /\ B \in Nat /\ E \in Nat /\ done.state.operations \in Nat
  BY <1>2 DEF Runtime, RuntimeCounts, RuntimeExplains
<1>4. /\ done.state.emitted = acc.state.emitted + W
      /\ \A n \in DOMAIN done.outputs :
            /\ OutputSize(done.outputs[n]) \in Nat
            /\ n > 1 => Follows(done.outputs[n - 1], done.outputs[n])
      /\ CauseAdmitted(done.cause, acc.state.emitted, done.state.emitted)
      /\ \A t \in Stretches :
            t[3] = acc.state /\ Len(t[2]) < MaxCommands =>
                <<t[1], Append(t[2], done.cause), done.state>> \in Stretches
  BY <1>2 DEF Runtime, RuntimeExplains
<1>5. /\ O \in Nat /\ W \in Nat /\ Len(acc.operations) \in Nat
      /\ Len(r.commands) \in Nat /\ i \in Nat /\ i - 1 \in Nat
      /\ MaxBatchOutputs \in Nat /\ MaxCommands \in Nat /\ Len(r.commands) <= MaxCommands
  <2>1. O \in Nat /\ W \in Nat /\ Len(acc.operations) \in Nat BY <1>2, <1>3, Elements
  <2>2. /\ Len(r.commands) \in Nat /\ Len(r.commands) <= MaxCommands
        /\ MaxBatchOutputs \in Nat /\ MaxCommands \in Nat
    BY DEF Runtime, RequestsAdmitted, BoundsAdmitted
  <2> QED BY <2>1, <2>2
<1> HIDE DEF next, done, B, E, O, W
<1>6. /\ row.generation = b.generation + 1 /\ row.index = i - 1 + 1 /\ row.cause = done.cause
      /\ row.start = E + O /\ row.stop = E + O + W /\ row.start \in Nat /\ row.stop \in Nat
      /\ E <= row.start /\ row.start = StopAfter(b, acc.operations, Len(acc.operations))
      /\ row.stop = done.state.emitted /\ row.stop = row.start + W
  <2>1. E + O \in Nat /\ E + O + W \in Nat /\ E <= E + O /\ i - 1 + 1 = i
    BY <1>3, <1>5
  <2>2. done.state.emitted = E + O + W BY <1>2, <1>4
  <2>3. StopAfter(b, acc.operations, Len(acc.operations)) = E + O BY <1>2
  <2> QED BY <2>1, <2>2, <2>3
<1> HIDE DEF row, rows
<1>7. OperationAdmitted(row)
  <2>2. (E + O + W) - (E + O) \in 0 .. MaxBatchOutputs
    <3>1. (E + O + W) - E <= MaxBatchOutputs BY <1>1
    <3>2. E \in Nat /\ O \in Nat /\ W \in Nat /\ MaxBatchOutputs \in Nat BY <1>3, <1>5
    <3> QED BY <3>1, <3>2, Room
  <2>3. row.stop - row.start \in 0 .. MaxBatchOutputs
    <3>1. row.stop = E + O + W /\ row.start = E + O BY <1>6
    <3> QED BY <3>1, <2>2
  <2>4. CauseAdmitted(row.cause, row.start, row.stop) BY <1>2, <1>4, <1>6
  <2> QED BY <2>3, <2>4 DEF OperationAdmitted
<1>8. /\ \A k \in 1 .. Len(next.operations) : OperationRow(b, next.operations, k, i)
      /\ StopAfter(b, next.operations, Len(next.operations)) = row.stop
  <2>1. PICK m \in Nat : m = i - 1 /\ m + 1 = i BY <1>5
  <2>2. LET more == Append(acc.operations, row) IN
        /\ \A k \in 1 .. Len(more) : OperationRow(b, more, k, m + 1)
        /\ StopAfter(b, more, Len(more)) = row.stop
    <3>1. b.state.emitted <= row.start BY <1>6 DEF E
    <3>2. \A k \in 1 .. Len(acc.operations) : OperationRow(b, acc.operations, k, m)
      BY <2>1, <1>2
    <3>3. /\ row.generation = b.generation + 1 /\ row.index = m + 1
          /\ row.start = StopAfter(b, acc.operations, Len(acc.operations))
          /\ row.start \in Nat /\ row.stop \in Nat
      BY <2>1, <1>6
    <3>4. IsSequence(acc.operations) BY <1>2
    <3>5. PICK ops, x : ops = acc.operations /\ x = row OBVIOUS
    <3>6. LET more == Append(ops, x) IN
          /\ \A k \in 1 .. Len(more) : OperationRow(b, more, k, m + 1)
          /\ StopAfter(b, more, Len(more)) = x.stop
      BY <3>1, <3>2, <3>3, <3>4, <3>5, <1>7, OperationRowsExtend
    <3> QED BY <3>5, <3>6
  <2> QED BY <2>1, <2>2, <1>1
<1>9. IsSequence(next.operations) /\ Len(next.operations) = Len(acc.operations) + 1
  BY <1>1, <1>2, SequenceAppended
<1>10. /\ IsSequence(next.outputs) /\ Len(next.outputs) = O + W
       /\ \A n \in 1 .. Len(next.outputs) : OutputRow(b, next.operations, next.outputs, n)
  <2>1. PICK q \in Nat : q = done.state.operations /\ q = B + Len(acc.operations) + 1
    BY <1>1, <1>2, <1>3
  <2>2. PICK new : new = done.outputs OBVIOUS
  <2>3. LET more == Append(acc.operations, row)
            all  == acc.outputs \o [n \in DOMAIN new |-> [operation |-> q, output |-> new[n]]]
        IN  /\ IsSequence(all) /\ Len(all) = Len(acc.outputs) + Len(new)
            /\ \A n \in 1 .. Len(all) : OutputRow(b, more, all, n)
    <3>1. IsSequence(new) /\ row.stop = row.start + Len(new) BY <2>2, <1>3, <1>6 DEF W
    <3>2. row.start = b.state.emitted + Len(acc.outputs) BY <1>6 DEF E, O
    <3>3. b.state.operations \in Nat /\ b.state.emitted \in Nat BY <1>3 DEF B, E
    <3>4. q = b.state.operations + Len(acc.operations) + 1 BY <2>1 DEF B
    <3>5. \A n \in 1 .. Len(acc.outputs) : OutputRow(b, acc.operations, acc.outputs, n)
      BY <1>2 DEF O
    <3>6. \A n \in DOMAIN new :
             /\ OutputSize(new[n]) \in Nat
             /\ n > 1 => Follows(new[n - 1], new[n])
      BY <2>2, <1>4
    <3>7. PICK ops, outs, x : ops = acc.operations /\ outs = acc.outputs /\ x = row OBVIOUS
    <3>8. LET more == Append(ops, x)
              all  == outs \o [n \in DOMAIN new |-> [operation |-> q, output |-> new[n]]]
          IN  /\ IsSequence(all) /\ Len(all) = Len(outs) + Len(new)
              /\ \A n \in 1 .. Len(all) : OutputRow(b, more, all, n)
      <4>1. IsSequence(ops) /\ IsSequence(outs) BY <3>7, <1>2
      <4>2. x.start = b.state.emitted + Len(outs) /\ x.stop = x.start + Len(new)
            /\ q = b.state.operations + Len(ops) + 1
        BY <3>1, <3>2, <3>4, <3>7
      <4>3. \A n \in 1 .. Len(outs) : OutputRow(b, ops, outs, n) BY <3>5, <3>7
      <4> HIDE <3>7
      <4> QED BY <3>1, <3>3, <3>6, <4>1, <4>2, <4>3, OutputRowsExtend
    <3> QED BY <3>7, <3>8
  <2>4. next.outputs = acc.outputs \o [n \in DOMAIN new |-> [operation |-> q, output |-> new[n]]]
    BY <2>1, <2>2, <1>1 DEF rows
  <2> QED BY <2>2, <2>3, <2>4, <1>1 DEF O, W
<1>11. <<b.state, Causes(next.operations), next.state>> \in Stretches
  <2>1. Causes(next.operations) = Append(Causes(acc.operations), done.cause)
        /\ Len(Causes(acc.operations)) = Len(acc.operations)
    <3>1. Causes(Append(acc.operations, row)) = Append(Causes(acc.operations), row.cause)
          /\ Len(Causes(acc.operations)) = Len(acc.operations)
      BY <1>2, CausesAppended
    <3> QED BY <3>1, <1>1, <1>6
  <2>2. Len(acc.operations) < MaxCommands BY <1>2, <1>5
  <2>3. PICK t \in Stretches : t = <<b.state, Causes(acc.operations), acc.state>> BY <1>2
  <2>4. t[1] = b.state /\ t[2] = Causes(acc.operations) /\ t[3] = acc.state BY <2>3
  <2> QED BY <2>1, <2>2, <2>4, <1>1, <1>4
<1>12. /\ Len(next.operations) <= i /\ Len(next.outputs) <= MaxBatchOutputs
       /\ next.state.operations = B + Len(next.operations)
       /\ next.state.emitted = E + Len(next.outputs)
       /\ StopAfter(b, next.operations, Len(next.operations)) = next.state.emitted
  <2>2. Len(next.outputs) <= MaxBatchOutputs
    <3>1. (E + O + W) - E <= MaxBatchOutputs BY <1>1
    <3>2. E \in Nat /\ O \in Nat /\ W \in Nat /\ MaxBatchOutputs \in Nat BY <1>3, <1>5
    <3> QED BY <3>1, <3>2, Room, <1>10
  <2>3. Len(next.operations) <= i BY <1>2, <1>5, <1>9
  <2>4. next.state.operations = B + Len(next.operations) BY <1>1, <1>2, <1>3, <1>5, <1>9
  <2>5. next.state.emitted = E + Len(next.outputs)
    <3>1. next.state.emitted = E + O + W BY <1>1, <1>2, <1>4
    <3>2. E \in Nat /\ O \in Nat /\ W \in Nat BY <1>3, <1>5
    <3> QED BY <3>1, <3>2, <1>10
  <2>6. StopAfter(b, next.operations, Len(next.operations)) = next.state.emitted
    BY <1>1, <1>6, <1>8
  <2> QED BY <2>2, <2>3, <2>4, <2>5, <2>6
<1> QED BY <1>1, <1>3, <1>8, <1>9, <1>10, <1>11, <1>12 DEF Explained, next, B, E

\* One that is not leaves everything as it is.
LEMMA MoreCommands ==
    ASSUME NEW b, NEW acc, NEW m \in Nat, Explained(b, acc, m)
    PROVE  Explained(b, acc, m + 1)
<1>1. ASSUME NEW k \in 1 .. Len(acc.operations) PROVE OperationRow(b, acc.operations, k, m + 1)
  <2>1. OperationRow(b, acc.operations, k, m) BY DEF Explained
  <2>2. 1 .. m \subseteq 1 .. m + 1 OBVIOUS
  <2> QED BY <2>1, <2>2 DEF OperationRow
<1>2. Len(acc.operations) <= m + 1
  <2>1. Len(acc.operations) \in Nat /\ Len(acc.operations) <= m BY Elements DEF Explained
  <2> QED BY <2>1
<1> QED BY <1>1, <1>2 DEF Explained

LEMMA NextCommand ==
    ASSUME Runtime, NEW b, b.state \in States, NEW r \in Submitted,
           NEW i \in 1 .. Len(r.commands), NEW acc, acc.ok => Explained(b, acc, i - 1),
           Extended(b, acc, i, r.commands[i]).ok
    PROVE  Explained(b, Extended(b, acc, i, r.commands[i]), i)
<1> DEFINE done == Perform(acc.state, r.commands[i])
<1>1. acc.ok BY DEF Extended
<1>2. Extended(b, acc, i, r.commands[i]) = Recorded(b, acc, i, done) BY <1>1 DEF Extended
<1>3. done.ok
  <2> SUFFICES ASSUME ~ done.ok PROVE FALSE OBVIOUS
  <2>1. Recorded(b, acc, i, done) = Raised(b) BY DEF Recorded
  <2> QED BY <1>2, <2>1 DEF Raised
<1>4. CASE done.state.operations = acc.state.operations
  <2>1. Extended(b, acc, i, r.commands[i]) = acc BY <1>2, <1>3, <1>4 DEF Recorded
  <2>2. PICK m \in Nat : m = i - 1 /\ m + 1 = i
    <3>1. Len(r.commands) \in Nat BY DEF Runtime, RequestsAdmitted
    <3> QED BY <3>1
  <2>3. Explained(b, acc, m) BY <1>1, <2>2
  <2>4. Explained(b, acc, m + 1) BY <2>3, MoreCommands
  <2> QED BY <2>1, <2>2, <2>4
<1>5. CASE done.state.operations # acc.state.operations
  BY <1>1, <1>3, <1>5, CountedCommand
<1> QED BY <1>4, <1>5

\* A request that is accepted explains all that it did.
LEMMA RunExplained ==
    ASSUME Runtime, NEW b, b.state \in States, NEW r \in Submitted,
           Performed(b, r.commands).ok
    PROVE  Explained(b, Performed(b, r.commands), Len(r.commands))
<1> DEFINE N == Len(r.commands)
<1>0. N \in Nat BY DEF Runtime, RequestsAdmitted
<1>1. PICK run : /\ Performed(b, r.commands) = run[N]
                 /\ run[0] = NewRun(b)
                 /\ \A i \in 1 .. N : run[i] = Extended(b, run[i - 1], i, r.commands[i])
  BY <1>0, PerformedIsLastRun
<1> DEFINE Bad == {i \in 0 .. N : ~ (run[i].ok => Explained(b, run[i], i))}
<1>2. Explained(b, NewRun(b), 0)
  <2>1. IsSequence(<<>>) /\ Len(<<>>) = 0 BY DEF IsSequence
  <2>2. Causes(<<>>) = <<>> BY DEF Causes
  <2>3. <<b.state, <<>>, b.state>> \in Stretches /\ b.state.emitted \in Nat
        /\ b.state.operations \in Nat /\ MaxBatchOutputs \in Nat
    BY DEF Runtime, RuntimeExplains, RuntimeCounts, BoundsAdmitted
  <2>4. /\ NewRun(b).state = b.state /\ NewRun(b).operations = <<>> /\ NewRun(b).outputs = <<>>
    BY DEF NewRun
  <2> QED BY <2>1, <2>2, <2>3, <2>4 DEF Explained, StopAfter
<1>3. Bad = {}
  <2> SUFFICES ASSUME Bad # {} PROVE FALSE OBVIOUS
  <2>1. PICK m \in Bad : \A n \in Bad : m <= n
    <3>1. Bad \in SUBSET Nat OBVIOUS
    <3> QED BY <3>1, LeastNatural
  <2>2. m # 0 BY <1>1, <1>2, <2>1
  <2>3. m \in 1 .. N /\ m - 1 \in 0 .. N /\ m - 1 \notin Bad BY <1>0, <2>1, <2>2
  <2>4. run[m - 1].ok => Explained(b, run[m - 1], m - 1) BY <2>3
  <2>5. run[m] = Extended(b, run[m - 1], m, r.commands[m]) BY <1>1, <2>3
  <2>6. run[m].ok => Explained(b, run[m], m) BY <2>3, <2>4, <2>5, NextCommand
  <2> QED BY <2>1, <2>6
<1>4. N \in 0 .. N /\ N \notin Bad BY <1>0, <1>3
<1> QED BY <1>1, <1>4

-----------------------------------------------------------------------------
(***************************************************************************)
(* The invariant: the rows of every receipt are those of its run, each row *)
(* belongs to a receipt, and heads only go forward.                        *)
(***************************************************************************)
OperationCovered(n) ==
    LET g == operations[n].generation IN
    /\ g \in 1 .. Len(commits)
    /\ PointAt(g - 1).state.operations < n
    /\ n <= PointAt(g).state.operations

OutputCovered(i) ==
    LET n == outputs[i].operation IN
    /\ n \in 1 .. Len(operations)
    /\ operations[n].start < i /\ i <= operations[n].stop
    /\ PointAt(operations[n].generation - 1).state.emitted < i
    /\ OutputSize(outputs[i].output) \in Nat
    /\ i > 1 => InOrder(outputs[i - 1], outputs[i])

\* The operations of a receipt are those its request performs.
Retraced(g) ==
    LET b   == PointAt(g - 1)
        ops == EffectOf(b, commits[g].request).operations
    IN  \A k \in 1 .. Len(ops) : operations[b.state.operations + k] = ops[k]

RowsInv ==
    /\ IsSequence(operations) /\ IsSequence(outputs)
    /\ Len(operations) = head.state.operations /\ Len(outputs) = head.state.emitted
    /\ \A g \in 0 .. Len(commits) : PointAt(g).state \in States
    /\ \A g, h \in 0 .. Len(commits) : g <= h =>
          /\ PointAt(g).state.operations <= PointAt(h).state.operations
          /\ PointAt(g).state.emitted <= PointAt(h).state.emitted
    /\ \A g \in 1 .. Len(commits) : Retraced(g)
    /\ \A n \in 1 .. Len(operations) : OperationCovered(n)
    /\ \A i \in 1 .. Len(outputs) : OutputCovered(i)

\* What the invariant says of the runtime at a head.
LEMMA HeadStates ==
    ASSUME Runtime, RowsInv
    PROVE  \A g \in 0 .. Len(commits) :
              /\ PointAt(g).state \in States
              /\ PointAt(g).state.operations \in Nat /\ PointAt(g).state.emitted \in Nat
BY DEF Runtime, RowsInv, RuntimeCounts, RuntimeExplains

\* A receipt is the explained run of its request.
LEMMA ReceiptExplained ==
    ASSUME Runtime, JournalInv, RowsInv, NEW g \in 1 .. Len(commits)
    PROVE  LET r   == commits[g].request
               b   == PointAt(g - 1)
               run == EffectOf(b, r)
           IN  /\ g - 1 \in 0 .. Len(commits) /\ b.generation = g - 1
               /\ r \in Submitted
               /\ Explained(b, run, Len(r.commands))
               /\ run.operations # <<>>
               /\ commits[g].status = "committed"
               /\ commits[g].before = b /\ commits[g].after = PointAt(g)
               /\ PointAt(g).generation = g /\ PointAt(g).state = run.state
               /\ PointAdmitted(PointAt(g))
<1> DEFINE r   == commits[g].request
           b   == PointAt(g - 1)
           run == EffectOf(b, r)
<1>1. Len(commits) \in Nat /\ g \in DOMAIN commits /\ g # 0 BY Points
<1>2. /\ g - 1 \in 0 .. Len(commits) /\ r \in Submitted
      /\ AcceptedOn(b, r) /\ EffectiveOn(b, r)
      /\ commits[g].before = b /\ commits[g].status = "committed"
  BY <1>1, Receipts
<1>3. b.generation = g - 1 BY <1>2, Points
<1>4. run.ok /\ run.operations # <<>> /\ PointAdmitted(AfterOf(b, r))
  BY <1>2 DEF AcceptedOn, EffectiveOn
<1>5. Explained(b, run, Len(r.commands))
  <2>1. b.state \in States BY <1>2, HeadStates
  <2> QED BY <1>2, <1>4, <2>1, RunExplained DEF EffectOf
<1>6. commits[g].after = AfterOf(b, r) /\ commits[g].after.generation = g
  <2>1. CommitInv(g) BY DEF JournalInv
  <2>2. commits[g] = Receipt(r, b, AfterOf(b, r)) BY <2>1 DEF CommitInv, PlanOf
  <2> QED BY <2>1, <2>2 DEF CommitInv, Receipt
<1>7. PointAt(g) = AfterOf(b, r) BY <1>1, <1>6 DEF PointAt
<1>8. PointAt(g).state = run.state BY <1>7 DEF AfterOf
<1> QED BY <1>2, <1>3, <1>4, <1>5, <1>6, <1>7, <1>8

\* How a publication extends the tables.
Extension(n, r, run) ==
    /\ n = Len(commits) /\ Len(commits') = n + 1
    /\ head = PointAt(n) /\ head.generation = n
    /\ run = EffectOf(head, r) /\ Explained(head, run, Len(r.commands))
    /\ \A g \in 1 .. n : commits'[g] = commits[g]
    /\ \A g \in 0 .. n : PointAt(g)' = PointAt(g)
    /\ commits'[n + 1].request = r
    /\ PointAt(n + 1)' = head' /\ head'.state = run.state
    /\ operations' = operations \o run.operations
    /\ outputs' = outputs \o run.outputs

LEMMA Installed ==
    ASSUME Runtime, IInv, RowsInv, NEW s \in Session, pc[s] = "publish", head = before[s],
           ~ HasReceipt(request[s].id), Install(s)
    PROVE  \E n, run : n \in Nat /\ Extension(n, request[s], run)
<1> USE DEF IInv
<1> DEFINE r == request[s]
           x == plan[s].receipt
           run == EffectOf(head, r)
<1>0. PICK n \in Nat : n = Len(commits) BY Points
<1>1. head = PointAt(n) /\ head.generation = n
  <2>1. head = PointAt(n) BY <1>0 DEF JournalInv
  <2> QED BY <1>0, <2>1, Points
<1>2. /\ r \in Submitted /\ AcceptedOn(head, r) /\ plan[s] = PlanOf(head, r)
  BY <1>0 DEF CallInv
<1>3. Explained(head, run, Len(r.commands))
  <2>1. head.state \in States BY <1>0, <1>1, HeadStates
  <2>2. run.ok BY <1>2 DEF AcceptedOn
  <2> QED BY <1>2, <2>1, <2>2, RunExplained DEF EffectOf
<1>4. /\ x.request = r /\ x.after = AfterOf(head, r)
      /\ plan[s].operations = run.operations /\ plan[s].outputs = run.outputs
  BY <1>2 DEF PlanOf, Receipt
<1>5. /\ commits' = Append(commits, x) /\ Len(commits') = n + 1
      /\ \A g \in 1 .. n : commits'[g] = commits[g]
      /\ commits'[n + 1] = x
  BY <1>0, SequenceAppended DEF Install, JournalInv
<1>6. \A g \in 0 .. n : PointAt(g)' = PointAt(g)
  <2>1. ASSUME NEW g \in 0 .. n PROVE PointAt(g)' = PointAt(g)
    <3>1. g = 0 \/ g \in 1 .. n OBVIOUS
    <3> QED BY <3>1, <1>5 DEF PointAt
  <2> QED BY <2>1
<1>7. PointAt(n + 1)' = head' /\ head'.state = run.state
  <2>1. n + 1 # 0 /\ head' = x.after BY DEF Install
  <2> QED BY <2>1, <1>4, <1>5 DEF PointAt, AfterOf
<1>8. operations' = operations \o run.operations /\ outputs' = outputs \o run.outputs
  BY <1>4 DEF Install
<1> HIDE DEF run
<1>9. Extension(n, r, run)
  <2>1. commits'[n + 1].request = r BY <1>4, <1>5
  <2>2. run = EffectOf(head, r) BY DEF run
  <2> QED BY <1>0, <1>1, <1>3, <1>5, <1>6, <1>7, <1>8, <2>1, <2>2 DEF Extension
<1> QED BY <1>9

LEMMA Concatenation ==
    ASSUME NEW s, NEW t, IsSequence(s), IsSequence(t)
    PROVE  /\ Len(s) \in Nat /\ Len(t) \in Nat
           /\ IsSequence(s \o t) /\ Len(s \o t) = Len(s) + Len(t)
           /\ \A i \in 1 .. Len(s) : (s \o t)[i] = s[i]
           /\ \A k \in 1 .. Len(t) : (s \o t)[Len(s) + k] = t[k]
<1> DEFINE c == s \o t
<1>1. /\ IsSequence(c) /\ Len(s) \in Nat /\ Len(t) \in Nat
      /\ DOMAIN c = 1 .. Len(s) + Len(t)
      /\ \A i \in 1 .. Len(s) + Len(t) : c[i] = IF i <= Len(s) THEN s[i] ELSE t[i - Len(s)]
  BY SequenceConcatenated
<1> HIDE DEF c
<1>2. Len(c) = Len(s) + Len(t)
  <2>1. Len(s) + Len(t) \in Nat BY <1>1
  <2>2. c = [i \in DOMAIN c |-> c[i]] BY <1>1 DEF IsSequence
  <2> QED BY <1>1, <2>1, <2>2, SequenceOfFunction
<1>3. \A i \in 1 .. Len(s) : c[i] = s[i] BY <1>1
<1>4. ASSUME NEW k \in 1 .. Len(t) PROVE c[Len(s) + k] = t[k]
  <2>1. PICK i \in 1 .. Len(s) + Len(t) : i = Len(s) + k BY <1>1
  <2>2. ~ (i <= Len(s)) /\ i - Len(s) = k BY <1>1, <2>1
  <2> QED BY <1>1, <2>1, <2>2
<1> QED BY <1>1, <1>2, <1>3, <1>4 DEF c

\* Where the new rows are.
Enlarged(run, L, E, K, W) ==
    /\ L = Len(operations) /\ E = Len(outputs)
    /\ K = Len(run.operations) /\ W = Len(run.outputs)
    /\ head.state.operations = L /\ head.state.emitted = E
    /\ head'.state.operations = L + K /\ head'.state.emitted = E + W
    /\ IsSequence(operations') /\ IsSequence(outputs')
    /\ Len(operations') = L + K /\ Len(outputs') = E + W
    /\ \A i \in 1 .. L : operations'[i] = operations[i]
    /\ \A k \in 1 .. K : operations'[L + k] = run.operations[k]
    /\ \A i \in 1 .. E : outputs'[i] = outputs[i]
    /\ \A w \in 1 .. W : outputs'[E + w] = run.outputs[w]

LEMMA NewRows ==
    ASSUME Runtime, RowsInv, NEW n \in Nat, NEW r, NEW run, Extension(n, r, run)
    PROVE  \E L \in Nat, E \in Nat, K \in Nat, W \in Nat : Enlarged(run, L, E, K, W)
<1>2. /\ IsSequence(operations) /\ IsSequence(outputs)
      /\ Len(operations) = head.state.operations /\ Len(outputs) = head.state.emitted
  BY DEF RowsInv
<1>3. /\ IsSequence(run.operations) /\ IsSequence(run.outputs)
      /\ run.state.operations = head.state.operations + Len(run.operations)
      /\ run.state.emitted = head.state.emitted + Len(run.outputs)
  BY DEF Extension, Explained
<1>4. /\ head'.state = run.state
      /\ operations' = operations \o run.operations /\ outputs' = outputs \o run.outputs
  BY DEF Extension
<1>5. PICK L \in Nat, E \in Nat : L = Len(operations) /\ E = Len(outputs) BY <1>2, Elements
<1>6. PICK K \in Nat, W \in Nat : K = Len(run.operations) /\ W = Len(run.outputs)
  BY <1>3, Elements
<1>7. /\ IsSequence(operations') /\ Len(operations') = L + K
      /\ \A i \in 1 .. L : operations'[i] = operations[i]
      /\ \A k \in 1 .. K : operations'[L + k] = run.operations[k]
  <2>1. PICK old, new : old = operations /\ new = run.operations OBVIOUS
  <2>2. /\ IsSequence(old \o new) /\ Len(old \o new) = Len(old) + Len(new)
        /\ \A i \in 1 .. Len(old) : (old \o new)[i] = old[i]
        /\ \A k \in 1 .. Len(new) : (old \o new)[Len(old) + k] = new[k]
    <3>1. IsSequence(old) /\ IsSequence(new) BY <2>1, <1>2, <1>3
    <3> QED BY <3>1, Concatenation
  <2> QED BY <2>1, <2>2, <1>4, <1>5, <1>6
<1>8. /\ IsSequence(outputs') /\ Len(outputs') = E + W
      /\ \A i \in 1 .. E : outputs'[i] = outputs[i]
      /\ \A w \in 1 .. W : outputs'[E + w] = run.outputs[w]
  <2>1. PICK old, new : old = outputs /\ new = run.outputs OBVIOUS
  <2>2. /\ IsSequence(old \o new) /\ Len(old \o new) = Len(old) + Len(new)
        /\ \A i \in 1 .. Len(old) : (old \o new)[i] = old[i]
        /\ \A k \in 1 .. Len(new) : (old \o new)[Len(old) + k] = new[k]
    <3>1. IsSequence(old) /\ IsSequence(new) BY <2>1, <1>2, <1>3
    <3> QED BY <3>1, Concatenation
  <2> QED BY <2>1, <2>2, <1>4, <1>5, <1>6
<1>9. head'.state.operations = L + K /\ head'.state.emitted = E + W
  BY <1>2, <1>3, <1>4, <1>5, <1>6
<1>10. head.state.operations = L /\ head.state.emitted = E BY <1>2, <1>5
<1>11. Enlarged(run, L, E, K, W) BY <1>5, <1>6, <1>7, <1>8, <1>9, <1>10 DEF Enlarged
<1> QED BY <1>11

-----------------------------------------------------------------------------
(***************************************************************************)
(* A publication keeps every part of the invariant.                        *)
(***************************************************************************)

LEMMA HeadsGoForward ==
    ASSUME Runtime, RowsInv, NEW n \in Nat, NEW r, NEW run, Extension(n, r, run),
           NEW L \in Nat, NEW E \in Nat, NEW K \in Nat, NEW W \in Nat,
           Enlarged(run, L, E, K, W)
    PROVE  /\ \A g \in 0 .. n + 1 : PointAt(g)'.state \in States
           /\ \A g, h \in 0 .. n + 1 : g <= h =>
                 /\ PointAt(g)'.state.operations <= PointAt(h)'.state.operations
                 /\ PointAt(g)'.state.emitted <= PointAt(h)'.state.emitted
<1>1. /\ \A g \in 0 .. n : PointAt(g)' = PointAt(g)
      /\ PointAt(n + 1)' = head' /\ head = PointAt(n) /\ n = Len(commits)
      /\ head'.state = run.state
  BY DEF Extension
<1>2. head'.state \in States BY <1>1 DEF Extension, Explained
<1>3. head.state.operations = L /\ head.state.emitted = E
      /\ head'.state.operations = L + K /\ head'.state.emitted = E + W
  BY DEF Enlarged
<1>4. \A g \in 0 .. n :
         /\ PointAt(g).state \in States
         /\ PointAt(g).state.operations \in Nat /\ PointAt(g).state.emitted \in Nat
         /\ PointAt(g).state.operations <= L /\ PointAt(g).state.emitted <= E
  <2> SUFFICES ASSUME NEW g \in 0 .. n
               PROVE  /\ PointAt(g).state \in States
                      /\ PointAt(g).state.operations \in Nat /\ PointAt(g).state.emitted \in Nat
                      /\ PointAt(g).state.operations <= L /\ PointAt(g).state.emitted <= E
    OBVIOUS
  <2>1. /\ PointAt(g).state \in States
        /\ PointAt(g).state.operations \in Nat /\ PointAt(g).state.emitted \in Nat
    BY <1>1, HeadStates
  <2>2. g \in 0 .. n /\ n \in 0 .. n /\ g <= n OBVIOUS
  <2>3. /\ PointAt(g).state.operations <= PointAt(n).state.operations
        /\ PointAt(g).state.emitted <= PointAt(n).state.emitted
    BY <1>1, <2>2 DEF RowsInv
  <2> QED BY <1>1, <1>3, <2>1, <2>3
<1>5. ASSUME NEW g \in 0 .. n + 1 PROVE PointAt(g)'.state \in States
  <2>1. g \in 0 .. n \/ g = n + 1 OBVIOUS
  <2> QED BY <2>1, <1>1, <1>2, <1>4
<1>6. ASSUME NEW g \in 0 .. n + 1, NEW h \in 0 .. n + 1, g <= h
      PROVE  /\ PointAt(g)'.state.operations <= PointAt(h)'.state.operations
             /\ PointAt(g)'.state.emitted <= PointAt(h)'.state.emitted
  <2>1. CASE h \in 0 .. n
    <3>1. g \in 0 .. n BY <1>6, <2>1
    <3>2. PointAt(g)' = PointAt(g) /\ PointAt(h)' = PointAt(h) BY <1>1, <2>1, <3>1
    <3> QED BY <1>1, <1>6, <2>1, <3>1, <3>2 DEF RowsInv
  <2>2. CASE h = n + 1 /\ g \in 0 .. n
    <3>1. PointAt(g)' = PointAt(g) /\ PointAt(h)' = head' BY <1>1, <2>2
    <3>2. PICK a \in Nat, c \in Nat : a = PointAt(g).state.operations /\ a <= L
                                      /\ c = PointAt(g).state.emitted /\ c <= E
      BY <1>4, <2>2
    <3>3. a <= L + K /\ c <= E + W BY <3>2
    <3> QED BY <1>3, <3>1, <3>2, <3>3
  <2>3. CASE h = n + 1 /\ g = n + 1 BY <2>3, <1>1, <1>3
  <2> QED BY <2>1, <2>2, <2>3
<1> QED BY <1>5, <1>6

\* The operations of a receipt stay where they were.
LEMMA RetracedKept ==
    ASSUME Runtime, JournalInv, RowsInv, NEW n \in Nat, NEW r, NEW run, Extension(n, r, run),
           NEW L \in Nat, NEW E \in Nat, NEW K \in Nat, NEW W \in Nat,
           Enlarged(run, L, E, K, W), NEW g \in 1 .. n + 1
    PROVE  Retraced(g)'
<1>1. /\ \A h \in 1 .. n : commits'[h] = commits[h]
      /\ \A h \in 0 .. n : PointAt(h)' = PointAt(h)
      /\ commits'[n + 1].request = r /\ head = PointAt(n) /\ n = Len(commits)
      /\ run = EffectOf(head, r)
  BY DEF Extension
<1>2. /\ head.state.operations = L /\ K = Len(run.operations)
      /\ \A i \in 1 .. L : operations'[i] = operations[i]
      /\ \A k \in 1 .. K : operations'[L + k] = run.operations[k]
  BY DEF Enlarged
<1>3. CASE g \in 1 .. n
  <2> DEFINE b   == PointAt(g - 1)
             ops == EffectOf(b, commits[g].request).operations
  <2>1. g - 1 \in 0 .. n /\ g \in 0 .. n /\ n \in 0 .. n BY <1>3
  <2>2. PointAt(g - 1)' = b /\ commits'[g] = commits[g] BY <1>1, <1>3, <2>1
  <2>3. \A k \in 1 .. Len(ops) : operations[b.state.operations + k] = ops[k]
    BY <1>1, <1>3 DEF RowsInv, Retraced
  <2>4. PointAt(g).state.operations = b.state.operations + Len(ops) /\ Len(ops) \in Nat
    <3>1. /\ Explained(b, EffectOf(b, commits[g].request), Len(commits[g].request.commands))
          /\ PointAt(g).state = EffectOf(b, commits[g].request).state
      BY <1>1, <1>3, ReceiptExplained
    <3> QED BY <3>1, Elements DEF Explained
  <2>5. PointAt(g).state.operations <= L /\ b.state.operations \in Nat
    <3>1. b.state.operations \in Nat BY <1>1, <2>1, HeadStates
    <3>2. g <= n BY <2>1
    <3>3. PointAt(g).state.operations <= PointAt(n).state.operations
      BY <1>1, <2>1, <3>2 DEF RowsInv
    <3> QED BY <1>1, <1>2, <3>1, <3>3
  <2> HIDE DEF b, ops
  <2>6. ASSUME NEW k \in 1 .. Len(ops)
        PROVE  operations'[b.state.operations + k] = ops[k]
    <3>1. b.state.operations + k \in 1 .. L
      <4>1. PICK o \in Nat, l \in Nat : o = b.state.operations /\ l = Len(ops) BY <2>4, <2>5
      <4>2. k \in 1 .. l /\ o + l <= L BY <2>4, <2>5, <4>1
      <4>3. o + k \in 1 .. L BY ONLY <4>2, o \in Nat, l \in Nat, L \in Nat
      <4> QED BY ONLY <4>1, <4>3
    <3> QED BY <1>2, <2>3, <3>1
  <2> QED BY <2>2, <2>6 DEF Retraced, EffectOf, b, ops
<1>4. CASE g = n + 1
  <2>1. g - 1 = n /\ PointAt(g - 1)' = head /\ commits'[g].request = r BY <1>1, <1>4
  <2>2. \A k \in 1 .. Len(run.operations) :
           operations'[head.state.operations + k] = run.operations[k]
    BY <1>2
  <2>3. EffectOf(head, r).operations = run.operations BY <1>1
  <2> QED BY <2>1, <2>2, <2>3 DEF Retraced, EffectOf
<1> QED BY <1>3, <1>4

LEMMA OperationsCovered ==
    ASSUME Runtime, RowsInv, NEW n \in Nat, NEW r, NEW run, Extension(n, r, run),
           NEW L \in Nat, NEW E \in Nat, NEW K \in Nat, NEW W \in Nat,
           Enlarged(run, L, E, K, W), NEW m \in 1 .. L + K
    PROVE  OperationCovered(m)'
<1>1. /\ \A h \in 0 .. n : PointAt(h)' = PointAt(h)
      /\ PointAt(n + 1)' = head' /\ head = PointAt(n) /\ n = Len(commits)
      /\ Len(commits') = n + 1 /\ head.generation = n
  BY DEF Extension
<1>2. /\ L = Len(operations) /\ head.state.operations = L /\ K = Len(run.operations)
      /\ head'.state.operations = L + K
      /\ \A i \in 1 .. L : operations'[i] = operations[i]
      /\ \A k \in 1 .. K : operations'[L + k] = run.operations[k]
  BY DEF Enlarged
<1>3. CASE m \in 1 .. L
  <2>1. OperationCovered(m) /\ operations'[m] = operations[m] BY <1>2, <1>3 DEF RowsInv
  <2>2. PICK g \in 1 .. n : g = operations[m].generation
    BY <1>1, <2>1 DEF OperationCovered
  <2>3. PointAt(g - 1)' = PointAt(g - 1) /\ PointAt(g)' = PointAt(g) /\ g \in 1 .. n + 1
    BY <1>1
  <2>4. operations'[m].generation = g BY <2>1, <2>2
  <2>5. PointAt(g - 1)'.state.operations < m /\ m <= PointAt(g)'.state.operations
    BY <2>1, <2>2, <2>3 DEF OperationCovered
  <2>6. (PointAt(operations[m].generation))' = PointAt(g)'
        /\ (PointAt(operations[m].generation - 1))' = PointAt(g - 1)'
    BY <2>4 DEF PointAt
  <2> QED BY <1>1, <2>3, <2>4, <2>5, <2>6 DEF OperationCovered
<1>4. CASE ~ (m \in 1 .. L)
  <2>1. PICK k \in 1 .. K : m = L + k
    <3>1. m - L \in 1 .. K /\ m = L + (m - L) BY <1>4
    <3> QED BY <3>1
  <2>2. operations'[m].generation = n + 1
    <3>1. OperationRow(head, run.operations, k, Len(r.commands))
      BY <1>2 DEF Extension, Explained
    <3> QED BY <1>1, <1>2, <2>1, <3>1 DEF OperationRow
  <2>3. (PointAt(operations[m].generation))' = head'
        /\ (PointAt(operations[m].generation - 1))' = head
    <3>1. n + 1 - 1 = n /\ n \in 0 .. n OBVIOUS
    <3>2. (PointAt(operations[m].generation))' = PointAt(n + 1)'
          /\ (PointAt(operations[m].generation - 1))' = PointAt(n)'
      BY <2>2, <3>1 DEF PointAt
    <3> QED BY <1>1, <3>1, <3>2
  <2>4. L < m /\ m <= L + K BY <2>1
  <2>5. n + 1 \in 1 .. Len(commits') BY <1>1
  <2>6. /\ (PointAt(operations[m].generation - 1))'.state.operations < m
        /\ m <= (PointAt(operations[m].generation))'.state.operations
    BY <1>2, <2>3, <2>4
  <2> QED BY <2>2, <2>5, <2>6 DEF OperationCovered
<1> QED BY <1>3, <1>4

LEMMA OutputsCovered ==
    ASSUME Runtime, RowsInv, NEW n \in Nat, NEW r, NEW run, Extension(n, r, run),
           NEW L \in Nat, NEW E \in Nat, NEW K \in Nat, NEW W \in Nat,
           Enlarged(run, L, E, K, W), NEW i \in 1 .. E + W
    PROVE  OutputCovered(i)'
<1>1. /\ \A h \in 0 .. n : PointAt(h)' = PointAt(h)
      /\ head = PointAt(n) /\ n = Len(commits) /\ head.generation = n
  BY DEF Extension
<1>2. /\ L = Len(operations) /\ E = Len(outputs)
      /\ head.state.operations = L /\ head.state.emitted = E
      /\ K = Len(run.operations) /\ W = Len(run.outputs)
      /\ Len(operations') = L + K
  BY DEF Enlarged
<1>3. /\ \A m \in 1 .. L : operations'[m] = operations[m]
      /\ \A k \in 1 .. K : operations'[L + k] = run.operations[k]
      /\ \A j \in 1 .. E : outputs'[j] = outputs[j]
      /\ \A w \in 1 .. W : outputs'[E + w] = run.outputs[w]
  BY DEF Enlarged
<1>4. ASSUME NEW j \in 1 .. E
      PROVE  outputs'[j] = outputs[j] /\ OutputCovered(j) /\ outputs[j].operation \in 1 .. L
  BY <1>2, <1>3 DEF RowsInv, OutputCovered
<1>5. CASE i \in 1 .. E
  <2>1. outputs'[i] = outputs[i] /\ OutputCovered(i) BY <1>4, <1>5
  <2>2. PICK m \in 1 .. L : m = outputs[i].operation BY <1>4, <1>5
  <2>3. operations'[m] = operations[m] BY <1>3
  <2>4. operations[m].generation - 1 \in 0 .. n
    <3>1. OperationCovered(m) BY <1>2 DEF RowsInv
    <3> QED BY <1>1, <3>1 DEF OperationCovered
  <2>5. (PointAt(operations[m].generation - 1))' = PointAt(operations[m].generation - 1)
    <3>1. PICK h \in 0 .. n : h = operations[m].generation - 1 BY <2>4
    <3>2. (PointAt(operations[m].generation - 1))' = PointAt(h)' BY <2>3, <3>1 DEF PointAt
    <3> QED BY <1>1, <3>1, <3>2
  <2>6. /\ operations[m].start < i /\ i <= operations[m].stop
        /\ PointAt(operations[m].generation - 1).state.emitted < i
        /\ OutputSize(outputs[i].output) \in Nat
        /\ i > 1 => InOrder(outputs[i - 1], outputs[i])
    BY <2>1, <2>2 DEF OutputCovered
  <2>7. i > 1 => outputs'[i - 1] = outputs[i - 1]
    <3>1. i > 1 => i - 1 \in 1 .. E BY <1>5
    <3> QED BY <3>1, <1>4
  <2>8. m \in 1 .. Len(operations') BY <1>2
  <2>9. outputs'[i].operation = m BY <2>1, <2>2
  <2>10. (PointAt(operations[outputs[i].operation].generation - 1))'
             = (PointAt(operations[m].generation - 1))'
    BY <2>9 DEF PointAt
  <2> QED BY <2>1, <2>3, <2>5, <2>6, <2>7, <2>8, <2>9, <2>10 DEF OutputCovered, InOrder
<1>6. CASE ~ (i \in 1 .. E)
  <2>1. PICK w \in 1 .. W : i = E + w
    <3>1. i - E \in 1 .. W /\ i = E + (i - E) BY <1>6
    <3> QED BY <3>1
  <2>2. outputs'[i] = run.outputs[w] BY <1>3, <2>1
  <2>3. OutputRow(head, run.operations, run.outputs, w) BY <1>2 DEF Extension, Explained
  <2>4. PICK k \in 1 .. K, q \in Nat :
            q = run.outputs[w].operation /\ k = q - L /\ q = L + k
    <3>1. PICK q \in Nat : q = run.outputs[w].operation BY <2>3 DEF OutputRow
    <3>2. q - L \in 1 .. K BY <1>2, <2>3, <3>1 DEF OutputRow
    <3>3. q = L + (q - L) BY <3>1
    <3> QED BY <3>1, <3>2, <3>3
  <2>5. operations'[q] = run.operations[k] BY <1>3, <2>4
  <2>6. operations'[q].generation = n + 1
    <3>1. OperationRow(head, run.operations, k, Len(r.commands))
      BY <1>2 DEF Extension, Explained
    <3> QED BY <1>1, <2>5, <3>1 DEF OperationRow
  <2>7. run.operations[k].start < i /\ i <= run.operations[k].stop
        /\ OutputSize(run.outputs[w].output) \in Nat
    BY <1>2, <2>1, <2>3, <2>4 DEF OutputRow
  <2>8. (PointAt(operations[q].generation - 1))' = head
    <3>1. n + 1 - 1 = n /\ n \in 0 .. n OBVIOUS
    <3>2. (PointAt(operations[q].generation - 1))' = PointAt(n)' BY <2>6, <3>1 DEF PointAt
    <3> QED BY <1>1, <3>1, <3>2
  <2>9. head.state.emitted < i BY <1>2, <2>1
  <2>10. i > 1 => InOrder(outputs'[i - 1], outputs'[i])
    <3>1. CASE w > 1
      <4>1. PICK v \in 1 .. W : v = w - 1 /\ i - 1 = E + v BY <2>1, <3>1
      <4>2. outputs'[i - 1] = run.outputs[w - 1] BY <1>3, <4>1
      <4>3. InOrder(run.outputs[w - 1], run.outputs[w]) BY <2>3, <3>1 DEF OutputRow
      <4> QED BY <2>2, <4>2, <4>3
    <3>2. CASE ~ (w > 1) /\ E > 0
      <4>1. i - 1 = E /\ E \in 1 .. E BY <2>1, <3>2
      <4>2. PICK p \in 1 .. L : p = outputs[E].operation BY <1>4, <4>1
      <4>3. p < q BY <2>4
      <4>4. outputs'[i - 1].operation = p /\ outputs'[i].operation = q
        BY <1>4, <2>2, <2>4, <4>1, <4>2
      <4> QED BY <4>3, <4>4 DEF InOrder
    <3>3. CASE ~ (w > 1) /\ ~ (E > 0) BY <2>1, <3>3
    <3> QED BY <3>1, <3>2, <3>3
  <2>11. outputs'[i].operation = q BY <2>2, <2>4
  <2>12. (PointAt(operations[outputs[i].operation].generation - 1))'
             = (PointAt(operations[q].generation - 1))'
    BY <2>11 DEF PointAt
  <2>13. q \in 1 .. Len(operations')
    <3>1. L + k \in 1 .. L + K OBVIOUS
    <3> QED BY <1>2, <2>4, <3>1
  <2> QED BY <2>2, <2>5, <2>7, <2>8, <2>9, <2>10, <2>11, <2>12, <2>13 DEF OutputCovered
<1> QED BY <1>5, <1>6

LEMMA InstallKeepsRows ==
    ASSUME Runtime, IInv, RowsInv, NEW s \in Session, pc[s] = "publish", head = before[s],
           ~ HasReceipt(request[s].id), Install(s)
    PROVE  RowsInv'
<1> DEFINE r == request[s]
<1>1. PICK n, run : n \in Nat /\ Extension(n, r, run) BY Installed
<1>2. PICK L \in Nat, E \in Nat, K \in Nat, W \in Nat : Enlarged(run, L, E, K, W)
  BY <1>1, NewRows
<1>3. JournalInv BY DEF IInv
<1>4. /\ \A g \in 0 .. n + 1 : PointAt(g)'.state \in States
      /\ \A g, h \in 0 .. n + 1 : g <= h =>
            /\ PointAt(g)'.state.operations <= PointAt(h)'.state.operations
            /\ PointAt(g)'.state.emitted <= PointAt(h)'.state.emitted
  BY <1>1, <1>2, HeadsGoForward
<1>5. \A g \in 1 .. n + 1 : Retraced(g)' BY <1>1, <1>2, <1>3, RetracedKept
<1>6. \A m \in 1 .. L + K : OperationCovered(m)' BY <1>1, <1>2, OperationsCovered
<1>7. \A i \in 1 .. E + W : OutputCovered(i)' BY <1>1, <1>2, OutputsCovered
<1>8. Len(commits') = n + 1 BY <1>1 DEF Extension
<1>9. /\ IsSequence(operations') /\ IsSequence(outputs')
      /\ Len(operations') = L + K /\ Len(outputs') = E + W
      /\ head'.state.operations = L + K /\ head'.state.emitted = E + W
  BY <1>2 DEF Enlarged
<1> QED BY <1>4, <1>5, <1>6, <1>7, <1>8, <1>9 DEF RowsInv

LEMMA StillRows ==
    ASSUME RowsInv, UNCHANGED durable PROVE RowsInv'
<1>1. UNCHANGED <<head, commits, operations, outputs>> BY DEF durable
<1>2. \A g : PointAt(g)' = PointAt(g) BY <1>1 DEF PointAt
<1>3. ASSUME NEW g \in 1 .. Len(commits) PROVE Retraced(g)'
  <2>1. Retraced(g) BY DEF RowsInv
  <2> QED BY <1>1, <1>2, <2>1 DEF Retraced, EffectOf
<1>4. ASSUME NEW m \in 1 .. Len(operations) PROVE OperationCovered(m)'
  <2>1. OperationCovered(m) BY DEF RowsInv
  <2> QED BY <1>1, <1>2, <2>1 DEF OperationCovered, PointAt
<1>5. ASSUME NEW i \in 1 .. Len(outputs) PROVE OutputCovered(i)'
  <2>1. OutputCovered(i) BY DEF RowsInv
  <2> QED BY <1>1, <1>2, <2>1 DEF OutputCovered, PointAt
<1> QED BY <1>1, <1>2, <1>3, <1>4, <1>5 DEF RowsInv

LEMMA InitRows ==
    ASSUME Runtime, Init PROVE RowsInv
<1>1. commits = <<>> /\ operations = <<>> /\ outputs = <<>> /\ head = InitialPoint BY DEF Init
<1>2. IsSequence(<<>>) /\ Len(<<>>) = 0 BY DEF IsSequence
<1>3. head.state = InitialState /\ PointAt(0).state = InitialState
  BY <1>1 DEF InitialPoint, PointAt
<1>4. InitialState \in States /\ InitialState.operations = 0 /\ InitialState.emitted = 0
  BY DEF Runtime, RuntimeCounts, RuntimeExplains
<1> QED BY <1>1, <1>2, <1>3, <1>4 DEF RowsInv

\* Only a publication changes the tables.
LEMMA StepKeepsRows ==
    ASSUME Runtime, IInv, RowsInv, [Next]_vars PROVE RowsInv'
<1>1. CASE UNCHANGED durable BY <1>1, StillRows
<1>2. CASE ~ UNCHANGED durable
  <2>1. PICK s \in Session : Publish(s) /\ ~ UNCHANGED durable
    BY <1>2 DEF Next, vars, Apply, Run, Observe, Fail, OutputCursor, ReadOutputs, Discard
  <2>2. /\ pc[s] = "publish" /\ head = before[s] /\ ~ HasReceipt(request[s].id) /\ Install(s)
    BY <2>1 DEF Publish
  <2> QED BY <2>2, InstallKeepsRows
<1> QED BY <1>1, <1>2

-----------------------------------------------------------------------------
(***************************************************************************)
(* The readers accept what is stored.                                      *)
(***************************************************************************)

\* A receipt of a request that is explained.
LEMMA ReceiptAccepted ==
    ASSUME Runtime, NEW b, b.state \in States, b.generation \in Nat, NEW r, NEW run, NEW x,
           Explained(b, run, Len(r.commands)), run.operations # <<>>,
           x.request = r, x.status # "no_op", x.before = b,
           x.after.generation = b.generation + 1, x.after.state = run.state
    PROVE  ReceiptAdmitted(x) /\ OperationCount(x) = Len(run.operations)
<1>1. /\ IsSequence(run.operations) /\ IsSequence(run.outputs)
      /\ Len(run.operations) <= Len(r.commands) /\ Len(run.outputs) <= MaxBatchOutputs
      /\ run.state.operations = b.state.operations + Len(run.operations)
      /\ run.state.emitted = b.state.emitted + Len(run.outputs)
  BY DEF Explained
<1>2. b.state.operations \in Nat /\ b.state.emitted \in Nat
  BY DEF Runtime, RuntimeCounts, RuntimeExplains
<1>3. PICK K \in Nat, W \in Nat : K = Len(run.operations) /\ W = Len(run.outputs)
  BY <1>1, Elements
<1>4. OperationCount(x) = K BY <1>1, <1>2, <1>3 DEF OperationCount
<1>5. OutputStop(x) - OutputStart(x) = W BY <1>1, <1>2, <1>3 DEF OutputStop, OutputStart
<1>6. K # 0
  <2> SUFFICES ASSUME K = 0 PROVE FALSE OBVIOUS
  <2>1. run.operations \in Seq({run.operations[i] : i \in DOMAIN run.operations})
    BY <1>1 DEF IsSequence
  <2>2. run.operations = <<>> BY <2>1, <1>3, EmptySeq
  <2> QED BY <2>2
<1>7. W \in 0 .. MaxBatchOutputs /\ K \in 1 .. Len(r.commands)
  BY <1>1, <1>3, <1>6 DEF Runtime, BoundsAdmitted
<1>8. Advances(b.state, run.state)
  <2>1. PICK t \in Stretches : t = <<b.state, Causes(run.operations), run.state>>
    BY DEF Explained
  <2>2. t[1] = b.state /\ t[3] = run.state BY <2>1
  <2> QED BY <2>2 DEF Runtime, RuntimeExplains
<1> QED BY <1>3, <1>4, <1>5, <1>7, <1>8 DEF ReceiptAdmitted

LEMMA ChainAccepted ==
    ASSUME Runtime, IInv, RowsInv, NEW g \in 1 .. Len(commits)
    PROVE  /\ ChainHolds(g)
           /\ OperationCount(commits[g])
                  = Len(EffectOf(PointAt(g - 1), commits[g].request).operations)
<1> DEFINE r   == commits[g].request
           b   == PointAt(g - 1)
           run == EffectOf(b, r)
           n   == Len(commits)
<1>1. JournalInv BY DEF IInv
<1>2. /\ g - 1 \in 0 .. n /\ b.generation = g - 1
      /\ Explained(b, run, Len(r.commands)) /\ run.operations # <<>>
      /\ commits[g].status = "committed"
      /\ commits[g].before = b /\ commits[g].after = PointAt(g)
      /\ PointAt(g).generation = g /\ PointAt(g).state = run.state
  BY <1>1, ReceiptExplained
<1>3. n \in Nat /\ head = PointAt(n) BY <1>1, Points DEF JournalInv
<1>4. b.state \in States BY <1>2, HeadStates
<1>5. ReceiptAdmitted(commits[g]) /\ OperationCount(commits[g]) = Len(run.operations)
  <2>1. PICK x : x = commits[g] OBVIOUS
  <2>2. /\ x.request = r /\ x.status # "no_op" /\ x.before = b
        /\ x.after.generation = b.generation + 1 /\ x.after.state = run.state
        /\ b.generation \in Nat
    BY <1>2, <2>1
  <2>3. Explained(b, run, Len(r.commands)) /\ run.operations # <<>> BY <1>2
  <2> HIDE DEF run, b, r
  <2>4. ReceiptAdmitted(x) /\ OperationCount(x) = Len(run.operations)
    BY <1>4, <2>2, <2>3, ReceiptAccepted, SMTT(60)
  <2> QED BY <2>1, <2>4, Zenon
<1>6. /\ PointAt(g).state.operations <= head.state.operations
      /\ PointAt(g).state.emitted <= head.state.emitted
  <2>1. g \in 0 .. n /\ n \in 0 .. n /\ g <= n BY <1>3
  <2> QED BY <1>3, <2>1 DEF RowsInv
<1>7. b = IF g = 1 THEN InitialPoint ELSE commits[g - 1].after
  <2>1. g = 1 <=> g - 1 = 0 OBVIOUS
  <2> QED BY <2>1 DEF PointAt
<1>8. ChainHolds(g) BY <1>2, <1>5, <1>6, <1>7 DEF ChainHolds, OutputStop
<1> QED BY <1>5, <1>8

\* A piece of a table is the sequence that is there.
LEMMA PieceIs ==
    ASSUME NEW s, NEW t, NEW a \in Nat, NEW z \in Nat, IsSequence(s), IsSequence(t),
           z = a + Len(t), z <= Len(s), \A k \in 1 .. Len(t) : s[a + k] = t[k]
    PROVE  SubSeq(s, a + 1, z) = t
<1> DEFINE S == {s[i] : i \in DOMAIN s}
           p == SubSeq(s, a + 1, z)
           N == Len(t)
<1>1. s \in Seq(S) BY DEF IsSequence
<1>2. N \in Nat /\ DOMAIN t = 1 .. N /\ Len(s) \in Nat /\ DOMAIN s = 1 .. Len(s) BY Elements
<1>3. \A i \in a + 1 .. z : s[i] \in S BY <1>2
<1> HIDE DEF S
<1>4. /\ p \in Seq(S) /\ Len(p) = IF a + 1 <= z THEN z - (a + 1) + 1 ELSE 0
      /\ \A i \in 1 .. z - (a + 1) + 1 : p[i] = s[a + 1 + i - 1]
  BY <1>1, <1>3, SubSeqProperties
<1> HIDE DEF p
<1>5. Len(p) = N BY <1>2, <1>4
<1>6. ASSUME NEW k \in 1 .. N PROVE p[k] = t[k]
  <2>1. k \in 1 .. z - (a + 1) + 1 /\ a + 1 + k - 1 = a + k BY <1>2
  <2> QED BY <2>1, <1>4
<1>7. DOMAIN p = 1 .. N BY <1>4, <1>5, LenProperties
<1>8. IsSequence(p)
  <2>1. p = [i \in DOMAIN p |-> p[i]] BY <1>4
  <2> QED BY <1>2, <1>7, <2>1, SequenceOfFunction
<1>9. p = t BY <1>2, <1>6, <1>7, <1>8, SequenceEquality
<1> QED BY <1>9 DEF p

LEMMA CommitAccepted ==
    ASSUME Runtime, IInv, RowsInv, NEW g \in 1 .. Len(commits)
    PROVE  CommitVerified(g)
<1> DEFINE r   == commits[g].request
           b   == PointAt(g - 1)
           run == EffectOf(b, r)
           ops == run.operations
           n   == Len(commits)
<1>1. JournalInv BY DEF IInv
<1>2. /\ g - 1 \in 0 .. n /\ b.generation = g - 1
      /\ Explained(b, run, Len(r.commands))
      /\ commits[g].before = b /\ commits[g].after = PointAt(g)
      /\ PointAt(g).state = run.state
  BY <1>1, ReceiptExplained
<1>3. /\ IsSequence(ops)
      /\ run.state.operations = b.state.operations + Len(ops)
      /\ StopAfter(b, ops, Len(ops)) = run.state.emitted
      /\ <<b.state, Causes(ops), run.state>> \in Stretches
      /\ \A k \in 1 .. Len(ops) : OperationRow(b, ops, k, Len(r.commands))
  BY <1>2 DEF Explained
<1>4. n \in Nat /\ head = PointAt(n) /\ g \in 0 .. n /\ n \in 0 .. n /\ g <= n
  BY <1>1, Points DEF JournalInv
<1>5. b.state.operations \in Nat /\ PointAt(g).state.operations \in Nat
  BY <1>2, <1>4, HeadStates
<1>6. /\ IsSequence(operations) /\ Len(operations) = head.state.operations
      /\ PointAt(g).state.operations <= head.state.operations
      /\ Retraced(g)
  BY <1>4 DEF RowsInv
<1>7. OperationsOf(commits[g]) = ops
  <2>1. PICK a \in Nat, z \in Nat : a = b.state.operations /\ z = PointAt(g).state.operations
    BY <1>5
  <2>2. z = a + Len(ops) /\ z <= Len(operations) BY <1>2, <1>3, <1>6, <2>1
  <2>3. \A k \in 1 .. Len(ops) : operations[a + k] = ops[k] BY <1>6, <2>1 DEF Retraced
  <2>4. SubSeq(operations, a + 1, z) = ops
    <3> HIDE DEF ops
    <3> QED BY <1>3, <1>6, <2>2, <2>3, PieceIs
  <2> QED BY <1>2, <2>1, <2>4 DEF OperationsOf
<1>8. ChainHolds(g) BY ChainAccepted
<1> HIDE DEF ops, run, b
<1>9. PICK N \in Nat : N = Len(ops) /\ DOMAIN ops = 1 .. N BY <1>3, Elements
<1>10. DOMAIN operations = 1 .. Len(operations) BY <1>6, Elements
<1>11. ASSUME NEW m \in DOMAIN operations, operations[m].generation = g
       PROVE  m - commits[g].before.state.operations \in DOMAIN ops
  <2>1. OperationCovered(m) BY <1>10 DEF RowsInv
  <2>2. b.state.operations < m /\ m <= PointAt(g).state.operations
    BY <1>11, <2>1 DEF OperationCovered, b
  <2>3. m \in Nat /\ PointAt(g).state.operations = b.state.operations + N
    BY <1>2, <1>3, <1>6, <1>9, <1>10
  <2>4. m - b.state.operations \in 1 .. N BY <1>5, <2>2, <2>3
  <2> QED BY <1>2, <1>9, <2>4
<1>12. ASSUME NEW i \in DOMAIN ops
       PROVE  /\ ops[i].generation = g
              /\ ops[i].index <= Len(r.commands)
              /\ i > 1 => ops[i - 1].index < ops[i].index
              /\ ops[i].start = IF i - 1 = 0 THEN b.state.emitted ELSE ops[i - 1].stop
              /\ OperationAdmitted(ops[i])
  <2>1. OperationRow(b, ops, i, Len(r.commands)) BY <1>3, <1>9
  <2>2. b.generation + 1 = g BY <1>2
  <2>3. Len(r.commands) \in Nat
    <3>1. r \in Submitted BY <1>1, ReceiptExplained
    <3> QED BY <3>1 DEF Runtime, RequestsAdmitted
  <2> QED BY <2>1, <2>2, <2>3 DEF OperationRow, StopAfter
<1>13. (IF N = 0 THEN b.state.emitted ELSE ops[N].stop) = run.state.emitted
  BY <1>3, <1>9 DEF StopAfter
<1>14. Reproduces(b.state, [i \in DOMAIN ops |-> ops[i].cause], run.state)
  <2>1. PICK t \in Stretches : t = <<b.state, Causes(ops), run.state>> BY <1>3
  <2>2. t[1] = b.state /\ t[2] = Causes(ops) /\ t[3] = run.state BY <2>1
  <2> QED BY <2>2 DEF Runtime, RuntimeExplains, Causes
<1> QED BY <1>2, <1>7, <1>8, <1>9, <1>11, <1>12, <1>13, <1>14
        DEF CommitVerified, OutputStart, OutputStop

\* What Min returns of two naturals.
LEMMA MinOfTwo ==
    ASSUME NEW a \in Nat, NEW b \in Nat
    PROVE  Min({a, b}) \in {a, b} /\ Min({a, b}) <= a /\ Min({a, b}) <= b
<1>1. \E x \in {a, b} : \A y \in {a, b} : x <= y
  <2>1. CASE a <= b BY <2>1
  <2>2. CASE b <= a BY <2>2
  <2> QED BY <2>1, <2>2
<1>2. PICK m : m = CHOOSE x \in {a, b} : \A y \in {a, b} : x <= y OBVIOUS
<1>3. m \in {a, b} /\ \A y \in {a, b} : m <= y BY <1>1, <1>2
<1>4. Min({a, b}) = m BY <1>2 DEF Min
<1> QED BY <1>3, <1>4

LEMMA HeadAccepted ==
    ASSUME Runtime, IInv, RowsInv PROVE LatestAdmitted
<1> DEFINE n == Len(commits)
<1>1. JournalInv BY DEF IInv
<1>2. n \in Nat /\ head = PointAt(n) /\ head.generation = n BY <1>1, Points DEF JournalInv
<1>3. Restores(head.state)
  <2>1. n \in 0 .. n BY <1>2
  <2>2. head.state \in States BY <1>2, <2>1, HeadStates
  <2> QED BY <2>2 DEF Runtime, RuntimeExplains
<1>4. CASE n = 0
  <2>1. head = InitialPoint BY <1>2, <1>4 DEF PointAt
  <2>2. MaxHistory \in Nat /\ MaxCommands \in Nat BY DEF Runtime, BoundsAdmitted
  <2>3. Min({0, MaxHistory}) = 0
    <3>1. PICK m : m = Min({0, MaxHistory}) OBVIOUS
    <3>2. m \in {0, MaxHistory} /\ m <= 0 BY <2>2, <3>1, MinOfTwo
    <3> QED BY <2>2, <3>1, <3>2
  <2>4. 0 * MaxCommands = 0 BY <2>2
  <2>5. InitialState.operations = 0 /\ InitialState.emitted = 0
    BY DEF Runtime, RuntimeExplains
  <2>6. PointAdmitted(head) BY <2>1, <2>2, <2>3, <2>4, <2>5 DEF PointAdmitted, InitialPoint
  <2> QED BY <1>2, <1>3, <1>4, <2>1, <2>6 DEF LatestAdmitted, RowsInv
<1>5. CASE n # 0
  <2>1. n \in 1 .. n BY <1>2, <1>5
  <2>2. PointAdmitted(head) /\ commits[n].after = head
    BY <1>1, <1>2, <2>1, ReceiptExplained
  <2>3. ChainHolds(n) BY <2>1, ChainAccepted
  <2> QED BY <1>2, <1>3, <1>5, <2>2, <2>3 DEF LatestAdmitted, RowsInv
<1> QED BY <1>4, <1>5

LEMMA SoundJournal ==
    ASSUME Runtime, IInv, RowsInv PROVE JournalSound
<1>1. JournalInv /\ PublishedOnce BY DEF IInv
<1>2. LatestAdmitted BY HeadAccepted
<1>3. \A g \in DOMAIN commits : CommitVerified(g) BY <1>1, Points, CommitAccepted
<1>4. ASSUME NEW s \in Session, pc[s] = "publish" PROVE ReceiptAdmitted(plan[s].receipt)
  <2> DEFINE r   == request[s]
             b   == before[s]
             run == EffectOf(b, r)
             x   == plan[s].receipt
  <2>1. /\ r \in Submitted /\ r.expected \in 0 .. Len(commits) /\ b = PointAt(r.expected)
        /\ AcceptedOn(b, r) /\ plan[s] = PlanOf(b, r) /\ EffectiveOn(b, r)
    BY <1>4 DEF IInv, CallInv
  <2>2. b.state \in States /\ b.generation \in Nat
    <3>1. PICK g \in 0 .. Len(commits) : r.expected = g BY <2>1
    <3> QED BY <1>1, <2>1, <3>1, HeadStates, Points
  <2>3. run.ok /\ run.operations # <<>> BY <2>1 DEF AcceptedOn, EffectiveOn
  <2>4. Explained(b, run, Len(r.commands))
    BY <2>1, <2>2, <2>3, RunExplained DEF EffectOf
  <2>5. AfterOf(b, r).generation = b.generation + 1 /\ AfterOf(b, r).state = run.state
    BY <2>1 DEF AfterOf
  <2>6. /\ x.request = r /\ x.status # "no_op" /\ x.before = b
        /\ x.after.generation = b.generation + 1 /\ x.after.state = run.state
    <3>1. x = Receipt(r, b, AfterOf(b, r)) BY <2>1 DEF PlanOf
    <3>2. AfterOf(b, r).generation # b.generation BY <2>2, <2>5
    <3> QED BY <2>5, <3>1, <3>2 DEF Receipt
  <2> HIDE DEF r, b, run, x
  <2>7. ReceiptAdmitted(x) BY <2>2, <2>3, <2>4, <2>6, ReceiptAccepted
  <2> QED BY <2>7 DEF x
<1> QED BY <1>1, <1>2, <1>3, <1>4 DEF JournalSound

-----------------------------------------------------------------------------

\* However sessions race, fail and retry, what they leave behind passes every
\* check of the readers: heads restore, receipts chain and are in range, and
\* each receipt's operations tile it and explain it.
THEOREM JournalStaysSound == Runtime /\ Spec => []JournalSound
<1> DEFINE Inv == IInv /\ RowsInv
<1>1. Runtime /\ Init => Inv
  <2>1. Runtime => RequestsAdmitted BY DEF Runtime
  <2> QED BY <2>1, InitHolds, InitRows
<1>2. Runtime /\ Inv /\ [Next]_vars => Inv' BY StepKeeps, StepKeepsRows
<1>3. Runtime /\ Inv => JournalSound BY SoundJournal
<1>4. Runtime => []Runtime
  <2> SUFFICES ASSUME Runtime PROVE []Runtime OBVIOUS
  <2> QED BY PTL
<1> QED BY <1>1, <1>2, <1>3, <1>4, PTL DEF Spec

-----------------------------------------------------------------------------
(***************************************************************************)
(* A captured cursor: it is anchored to a receipt that is retained, its    *)
(* stop is where that receipt ended, and what was returned is a piece of   *)
(* the outputs.                                                            *)
(***************************************************************************)
CursorHolds ==
    /\ cursor = [anchor |-> cursor.anchor, digest |-> cursor.digest,
                 stop |-> cursor.stop, next |-> cursor.next]
    /\ cursor.anchor \in 0 .. Len(commits)
    /\ cursor.digest = AnchorOf(cursor.anchor)
    /\ cursor.stop = PointAt(cursor.anchor).state.emitted
    /\ cursor.next \in 0 .. cursor.stop
    /\ IsSequence(taken) /\ Len(taken) <= cursor.next
    /\ taken = SubSeq(outputs, cursor.next - Len(taken) + 1, cursor.next)

CursorInv == cursor # None => CursorHolds

\* A piece of a sequence.
LEMMA Piece ==
    ASSUME NEW s, NEW a \in Nat, NEW z \in Nat, IsSequence(s), a <= z, z <= Len(s)
    PROVE  LET p == SubSeq(s, a + 1, z) IN
           /\ IsSequence(p) /\ Len(p) = z - a
           /\ \A k \in 1 .. z - a : p[k] = s[a + k]
<1> DEFINE t == [k \in 1 .. z - a |-> s[a + k]]
<1>1. z - a \in Nat /\ z = a + (z - a) OBVIOUS
<1>2. IsSequence(t) /\ Len(t) = z - a BY <1>1, SequenceOfFunction
<1>3. \A k \in 1 .. z - a : t[k] = s[a + k] OBVIOUS
<1> HIDE DEF t
<1>4. SubSeq(s, a + 1, z) = t BY <1>1, <1>2, <1>3, PieceIs
<1> QED BY <1>2, <1>3, <1>4

\* It stays that piece when the sequence is extended.
LEMMA PieceStays ==
    ASSUME NEW u, NEW v, NEW a \in Nat, NEW z \in Nat, IsSequence(u), IsSequence(v),
           a <= z, z <= Len(u), Len(u) <= Len(v), \A i \in 1 .. Len(u) : v[i] = u[i]
    PROVE  SubSeq(v, a + 1, z) = SubSeq(u, a + 1, z)
<1>1. PICK t : t = SubSeq(u, a + 1, z) OBVIOUS
<1>2. IsSequence(t) /\ Len(t) = z - a /\ \A k \in 1 .. z - a : t[k] = u[a + k]
  BY <1>1, Piece
<1>3. Len(u) \in Nat /\ Len(v) \in Nat BY Elements
<1>4. ASSUME NEW k \in 1 .. Len(t) PROVE v[a + k] = t[k]
  <2>1. a + k \in 1 .. Len(u) BY <1>2, <1>3
  <2> QED BY <1>2, <2>1
<1>5. z = a + Len(t) /\ z <= Len(v) BY <1>2, <1>3
<1>6. SubSeq(v, a + 1, z) = t BY <1>2, <1>4, <1>5, PieceIs
<1> QED BY <1>1, <1>6

\* Two adjacent pieces are one.
LEMMA PiecesJoin ==
    ASSUME NEW s, NEW a \in Nat, NEW m \in Nat, NEW z \in Nat, IsSequence(s),
           a <= m, m <= z, z <= Len(s)
    PROVE  LET t == SubSeq(s, a + 1, m) \o SubSeq(s, m + 1, z) IN
           t = SubSeq(s, a + 1, z) /\ IsSequence(t) /\ Len(t) = z - a
<1>0. Len(s) \in Nat BY Elements
<1>1. PICK p, q : p = SubSeq(s, a + 1, m) /\ q = SubSeq(s, m + 1, z) OBVIOUS
<1>2. IsSequence(p) /\ Len(p) = m - a /\ \A k \in 1 .. m - a : p[k] = s[a + k]
  <2>1. m <= Len(s) BY <1>0
  <2> QED BY <1>1, <2>1, Piece
<1>3. IsSequence(q) /\ Len(q) = z - m /\ \A k \in 1 .. z - m : q[k] = s[m + k]
  BY <1>1, Piece
<1>4. /\ IsSequence(p \o q) /\ Len(p \o q) = Len(p) + Len(q)
      /\ \A i \in 1 .. Len(p) : (p \o q)[i] = p[i]
      /\ \A k \in 1 .. Len(q) : (p \o q)[Len(p) + k] = q[k]
  BY <1>2, <1>3, Concatenation
<1>5. PICK t : t = p \o q OBVIOUS
<1>6. Len(t) = z - a
  <2>1. Len(t) = (m - a) + (z - m) BY <1>2, <1>3, <1>4, <1>5
  <2>2. (m - a) + (z - m) = z - a OBVIOUS
  <2> QED BY <2>1, <2>2
<1>7. ASSUME NEW k \in 1 .. z - a PROVE s[a + k] = t[k]
  <2>1. CASE k <= m - a
    <3>1. k \in 1 .. m - a BY <2>1
    <3> QED BY <3>1, <1>2, <1>4, <1>5
  <2>2. CASE ~ (k <= m - a)
    <3>1. PICK j \in 1 .. z - m : j = k - (m - a) BY <2>2
    <3>2. k = (m - a) + j /\ a + k = m + j BY <3>1
    <3>3. t[k] = q[j] BY <1>2, <1>3, <1>4, <1>5, <3>2
    <3> QED BY <1>3, <3>2, <3>3
  <2> QED BY <2>1, <2>2
<1>8. IsSequence(t) /\ z = a + Len(t) BY <1>4, <1>5, <1>6
<1>9. SubSeq(s, a + 1, z) = t BY <1>6, <1>7, <1>8, PieceIs
<1> QED BY <1>1, <1>5, <1>6, <1>8, <1>9

\* What is retained stays where it is.
LEMMA HistoryStays ==
    ASSUME Runtime, IInv, RowsInv, [Next]_vars
    PROVE  /\ Len(commits) \in Nat /\ Len(commits') \in Nat
           /\ Len(commits) <= Len(commits')
           /\ \A g \in 1 .. Len(commits) : commits'[g] = commits[g]
           /\ Len(outputs) \in Nat /\ Len(outputs') \in Nat
           /\ Len(outputs) <= Len(outputs')
           /\ \A i \in 1 .. Len(outputs) : outputs'[i] = outputs[i]
<1>0. Len(commits) \in Nat /\ Len(outputs) \in Nat
  <2>1. JournalInv BY DEF IInv
  <2>2. IsSequence(outputs) BY DEF RowsInv
  <2> QED BY <2>1, <2>2, Points, Elements
<1>1. CASE UNCHANGED durable BY <1>0, <1>1 DEF durable
<1>2. CASE ~ UNCHANGED durable
  <2>1. PICK s \in Session : Publish(s) /\ ~ UNCHANGED durable
    BY <1>2 DEF Next, vars, Apply, Run, Observe, Fail, OutputCursor, ReadOutputs, Discard
  <2>2. /\ pc[s] = "publish" /\ head = before[s] /\ ~ HasReceipt(request[s].id) /\ Install(s)
    BY <2>1 DEF Publish
  <2>3. PICK n, run : n \in Nat /\ Extension(n, request[s], run) BY <2>2, Installed
  <2>4. PICK L \in Nat, E \in Nat, K \in Nat, W \in Nat : Enlarged(run, L, E, K, W)
    BY <2>3, NewRows
  <2>5. /\ Len(outputs) = E /\ Len(outputs') = E + W
        /\ \A i \in 1 .. E : outputs'[i] = outputs[i]
    BY <2>4 DEF Enlarged
  <2>6. /\ Len(commits) = n /\ Len(commits') = n + 1
        /\ \A g \in 1 .. n : commits'[g] = commits[g]
    BY <2>3 DEF Extension
  <2> QED BY <2>5, <2>6
<1> QED BY <1>1, <1>2

\* No stop lies beyond the outputs.
LEMMA StopIsReached ==
    ASSUME Runtime, IInv, RowsInv, CursorHolds
    PROVE  /\ cursor.stop \in Nat /\ cursor.next \in Nat /\ Len(outputs) \in Nat
           /\ cursor.next <= cursor.stop /\ cursor.stop <= Len(outputs)
<1> DEFINE n == Len(commits)
<1>1. n \in Nat /\ head = PointAt(n) BY Points DEF IInv, JournalInv
<1>2. PICK a \in 0 .. n : a = cursor.anchor /\ cursor.stop = PointAt(a).state.emitted
  BY DEF CursorHolds
<1>3. PointAt(a).state.emitted <= PointAt(n).state.emitted
  <2>1. n \in 0 .. n /\ a <= n BY <1>1
  <2> QED BY <2>1 DEF RowsInv
<1>4. PointAt(a).state.emitted \in Nat BY HeadStates
<1>5. IsSequence(outputs) /\ Len(outputs) = head.state.emitted BY DEF RowsInv
<1> QED BY <1>1, <1>2, <1>3, <1>4, <1>5, Elements DEF CursorHolds

\* Whatever is published leaves a cursor as it is.
LEMMA CursorStays ==
    ASSUME Runtime, IInv, RowsInv, RowsInv', CursorHolds, [Next]_vars, UNCHANGED readVars
    PROVE  CursorHolds'
<1>1. cursor' = cursor /\ taken' = taken BY DEF readVars
<1>2. /\ Len(commits) \in Nat /\ Len(commits') \in Nat
      /\ Len(commits) <= Len(commits')
      /\ \A g \in 1 .. Len(commits) : commits'[g] = commits[g]
      /\ Len(outputs) <= Len(outputs')
      /\ \A i \in 1 .. Len(outputs) : outputs'[i] = outputs[i]
  BY HistoryStays
<1>3. /\ cursor.stop \in Nat /\ cursor.next \in Nat
      /\ cursor.next <= cursor.stop /\ cursor.stop <= Len(outputs) /\ Len(outputs) \in Nat
  BY StopIsReached
<1>4. PICK a \in 0 .. Len(commits) : a = cursor.anchor BY DEF CursorHolds
<1>5. a \in 0 .. Len(commits') BY <1>2
<1>6. AnchorOf(a)' = AnchorOf(a) /\ PointAt(a)' = PointAt(a)
  <2>1. a = 0 \/ a \in 1 .. Len(commits) OBVIOUS
  <2> QED BY <1>2, <2>1 DEF AnchorOf, PointAt
<1>7. SubSeq(outputs', cursor.next - Len(taken) + 1, cursor.next)
         = SubSeq(outputs, cursor.next - Len(taken) + 1, cursor.next)
  <2>1. Len(taken) \in Nat /\ Len(taken) <= cursor.next BY Elements DEF CursorHolds
  <2>2. PICK f \in Nat, z \in Nat : f = cursor.next - Len(taken) /\ z = cursor.next
    BY <1>3, <2>1
  <2>3. f <= z /\ z <= Len(outputs) BY <1>3, <2>1, <2>2
  <2>4. IsSequence(outputs) /\ IsSequence(outputs') BY DEF RowsInv
  <2>5. SubSeq(outputs', f + 1, z) = SubSeq(outputs, f + 1, z)
    BY <1>2, <2>3, <2>4, PieceStays
  <2> QED BY <2>2, <2>5
<1>8. AnchorOf(cursor.anchor)' = AnchorOf(cursor.anchor)
      /\ PointAt(cursor.anchor)' = PointAt(cursor.anchor)
  BY <1>1, <1>4, <1>6
<1> QED BY <1>1, <1>4, <1>5, <1>7, <1>8 DEF CursorHolds

\* A cursor is captured at the head, anywhere up to its end.
LEMMA CursorCaptured ==
    ASSUME Runtime, IInv, RowsInv, NEW start \in CursorStarts, OutputCursor(start)
    PROVE  CursorHolds'
<1> DEFINE n == Len(commits)
<1>1. n \in Nat /\ head = PointAt(n) /\ head.generation = n
  <2>1. JournalInv BY DEF IInv
  <2>2. n \in Nat /\ head = PointAt(n) BY <2>1, Points DEF JournalInv
  <2>3. n \in 0 .. n BY <2>2
  <2> QED BY <2>1, <2>2, <2>3, Points
<1>2. /\ cursor' = [anchor |-> n, digest |-> AnchorOf(n),
                    stop |-> head.state.emitted, next |-> start]
      /\ taken' = <<>> /\ commits' = commits /\ outputs' = outputs
      /\ start <= head.state.emitted
  BY <1>1 DEF OutputCursor, durable
<1>3. /\ IsSequence(outputs) /\ Len(outputs) = head.state.emitted
      /\ Len(outputs) \in Nat
  BY Elements DEF RowsInv
<1>4. start \in Nat /\ start <= Len(outputs) BY <1>2, <1>3 DEF Runtime, BoundsAdmitted
<1>5. IsSequence(<<>>) /\ Len(<<>>) = 0 BY DEF IsSequence
<1>6. SubSeq(outputs, start + 1, start) = <<>>
  <2>1. start = start + Len(<<>>) BY <1>4, <1>5
  <2>2. \A k \in 1 .. Len(<<>>) : outputs[start + k] = <<>>[k] BY <1>5
  <2> QED BY <1>3, <1>4, <1>5, <2>1, <2>2, PieceIs
<1>7. PICK c : c = cursor' OBVIOUS
<1>8. /\ c = [anchor |-> n, digest |-> AnchorOf(n), stop |-> head.state.emitted, next |-> start]
      /\ c.anchor = n /\ c.digest = AnchorOf(n) /\ c.stop = head.state.emitted /\ c.next = start
  BY <1>2, <1>7
<1>9. AnchorOf(n)' = AnchorOf(n) /\ PointAt(n)' = head
  BY <1>1, <1>2 DEF AnchorOf, PointAt
<1>10. start - 0 + 1 = start + 1 BY <1>4
<1>11. /\ cursor' = [anchor |-> cursor'.anchor, digest |-> cursor'.digest,
                     stop |-> cursor'.stop, next |-> cursor'.next]
       /\ cursor'.anchor \in 0 .. Len(commits')
       /\ cursor'.next \in 0 .. cursor'.stop
  BY <1>1, <1>2, <1>3, <1>4, <1>7, <1>8
<1>12. /\ cursor'.digest = AnchorOf(cursor.anchor)'
       /\ cursor'.stop = (PointAt(cursor.anchor).state.emitted)'
  BY <1>1, <1>2, <1>7, <1>8 DEF AnchorOf, PointAt
<1>13. /\ IsSequence(taken') /\ Len(taken') <= cursor'.next
       /\ taken' = SubSeq(outputs', cursor'.next - Len(taken') + 1, cursor'.next)
  BY <1>2, <1>4, <1>5, <1>6, <1>7, <1>8, <1>10
<1> QED BY <1>11, <1>12, <1>13 DEF CursorHolds

\* A page goes on where the one before it ended, and never beyond the stop.
LEMMA PageReturned ==
    ASSUME Runtime, IInv, RowsInv, CursorHolds,
           NEW limit \in PageRows, NEW bytes \in PageBytes, ReadOutputs(limit, bytes)
    PROVE  CursorHolds'
<1>1. /\ cursor.stop \in Nat /\ cursor.next \in Nat /\ Len(outputs) \in Nat
      /\ cursor.next <= cursor.stop /\ cursor.stop <= Len(outputs)
  BY StopIsReached
<1>2. PICK n \in PageSizes(cursor, limit, bytes) :
          /\ taken' = taken \o SubSeq(outputs, cursor.next + 1, cursor.next + n)
          /\ cursor' = [cursor EXCEPT !.next = @ + n]
  BY DEF ReadOutputs
<1>3. limit \in Nat BY DEF Runtime, BoundsAdmitted
<1>4. n \in 0 .. cursor.stop - cursor.next
  <2>1. CASE cursor.next = cursor.stop
    <3>1. n = 0 BY <1>2, <2>1 DEF PageSizes
    <3> QED BY <1>1, <3>1
  <2>2. CASE cursor.next # cursor.stop
    <3>1. PICK left \in Nat : left = cursor.stop - cursor.next BY <1>1
    <3>2. n \in 0 .. Min({limit, left}) BY <1>2, <2>2, <3>1 DEF PageSizes
    <3>3. Min({limit, left}) \in {limit, left} /\ Min({limit, left}) <= left
      BY <1>3, MinOfTwo
    <3>4. PICK m : m = Min({limit, left}) OBVIOUS
    <3>5. n \in 0 .. m /\ m \in Nat /\ m <= left BY <1>3, <3>2, <3>3, <3>4
    <3> QED BY <3>1, <3>5
  <2> QED BY <2>1, <2>2
<1>5. PICK next \in Nat : next = cursor.next + n BY <1>1, <1>4
<1>6. next <= cursor.stop /\ cursor.next <= next /\ next <= Len(outputs)
  BY <1>1, <1>4, <1>5
<1>7. cursor' = [anchor |-> cursor.anchor, digest |-> cursor.digest,
                 stop |-> cursor.stop, next |-> next]
  <2>1. cursor = [anchor |-> cursor.anchor, digest |-> cursor.digest,
                  stop |-> cursor.stop, next |-> cursor.next]
    BY DEF CursorHolds
  <2> QED BY <1>2, <1>5, <2>1
<1>8. /\ cursor'.anchor = cursor.anchor /\ cursor'.digest = cursor.digest
      /\ cursor'.stop = cursor.stop /\ cursor'.next = next
  BY <1>7
<1>9. commits' = commits /\ outputs' = outputs BY DEF ReadOutputs, durable
<1>10. Len(taken) \in Nat /\ Len(taken) <= cursor.next BY Elements DEF CursorHolds
<1>11. PICK f \in Nat, z \in Nat : f = cursor.next - Len(taken) /\ z = cursor.next
  BY <1>1, <1>10
<1>12. /\ taken' = SubSeq(outputs, f + 1, next)
       /\ IsSequence(taken') /\ Len(taken') = next - f
  <2>1. taken = SubSeq(outputs, f + 1, z) BY <1>11 DEF CursorHolds
  <2>2. f <= z /\ z <= next BY <1>6, <1>10, <1>11
  <2>3. PICK t : t = SubSeq(outputs, f + 1, z) \o SubSeq(outputs, z + 1, next) OBVIOUS
  <2>4. t = SubSeq(outputs, f + 1, next) /\ IsSequence(t) /\ Len(t) = next - f
    <3>1. IsSequence(outputs) BY DEF RowsInv
    <3> QED BY <1>6, <2>2, <2>3, <3>1, PiecesJoin
  <2>5. taken' = t BY <1>2, <1>5, <1>11, <2>1, <2>3
  <2> QED BY <2>4, <2>5
<1>13. next - Len(taken') = f /\ Len(taken') <= next
  <2>1. f <= next BY <1>6, <1>10, <1>11
  <2>2. next - (next - f) = f /\ next - f <= next BY <2>1
  <2> QED BY <1>12, <2>2
<1>14. /\ cursor.anchor \in 0 .. Len(commits)
       /\ cursor.digest = AnchorOf(cursor.anchor)
       /\ cursor.stop = PointAt(cursor.anchor).state.emitted
  BY DEF CursorHolds
<1>15. /\ AnchorOf(cursor.anchor)' = AnchorOf(cursor.anchor)
       /\ PointAt(cursor.anchor)' = PointAt(cursor.anchor)
  BY <1>8, <1>9 DEF AnchorOf, PointAt
<1>16. cursor'.next \in 0 .. cursor'.stop BY <1>1, <1>6, <1>8
<1>17. cursor' = [anchor |-> cursor'.anchor, digest |-> cursor'.digest,
                  stop |-> cursor'.stop, next |-> cursor'.next]
  BY <1>7, <1>8
<1>18. taken' = SubSeq(outputs', cursor'.next - Len(taken') + 1, cursor'.next)
  BY <1>8, <1>9, <1>12, <1>13
<1>19. Len(taken') <= cursor'.next BY <1>8, <1>13
<1> QED BY <1>8, <1>9, <1>12, <1>14, <1>15, <1>16, <1>17, <1>18, <1>19 DEF CursorHolds

LEMMA StepKeepsCursor ==
    ASSUME Runtime, IInv, RowsInv, RowsInv', CursorInv, [Next]_vars PROVE CursorInv'
<1> SUFFICES ASSUME cursor' # None PROVE CursorHolds' BY DEF CursorInv
<1>1. CASE UNCHANGED readVars
  <2>1. CursorHolds BY <1>1 DEF CursorInv, readVars
  <2> QED BY <1>1, <2>1, CursorStays
<1>2. CASE \E start \in CursorStarts : OutputCursor(start) BY <1>2, CursorCaptured
<1>3. CASE \E limit \in PageRows, bytes \in PageBytes : ReadOutputs(limit, bytes)
  <2>1. CursorHolds BY <1>3 DEF CursorInv, ReadOutputs
  <2> QED BY <1>3, <2>1, PageReturned
<1>4. CASE Discard BY <1>4 DEF Discard
<1> QED BY <1>1, <1>2, <1>3, <1>4 DEF Next, vars, Apply, Run, Observe, Publish, Fail

-----------------------------------------------------------------------------
(***************************************************************************)
(* A page of one row: its bytes are those of the row, its metadata those   *)
(* of the one receipt.                                                     *)
(***************************************************************************)
LEMMA BytesOfOne ==
    ASSUME NEW S, NEW x, S = {x}, OutputSize(outputs[x].output) \in Nat
    PROVE  MapThenSumSet(LAMBDA i : OutputSize(outputs[i].output), S)
               = OutputSize(outputs[x].output)
<1> DEFINE size(i) == OutputSize(outputs[i].output)
           step(f, s) == IF s = {} THEN 0
                         ELSE size(CHOOSE y \in s : TRUE) + f[s \ {CHOOSE y \in s : TRUE}]
           IsFold(f) == f = [s \in SUBSET {x} |-> step(f, s)]
           fold == CHOOSE f : IsFold(f)
           one == [s \in SUBSET {x} |-> IF s = {} THEN 0 ELSE size(x)]
<1>1. MapThenSumSet(LAMBDA i : OutputSize(outputs[i].output), S) = fold[{x}]
  BY DEF MapThenSumSet, MapThenFoldSet
<1>2. /\ (CHOOSE y \in {x} : TRUE) = x /\ {x} \ {x} = {} /\ {x} # {}
      /\ SUBSET {x} = {{}, {x}}
  OBVIOUS
<1>3. size(x) \in Nat OBVIOUS
<1> HIDE DEF size
<1>4. IsFold(one)
  <2>1. one[{}] = 0 /\ one[{x}] = size(x) BY <1>2
  <2>2. step(one, {}) = 0 OBVIOUS
  <2>3. step(one, {x}) = size(x) BY <1>2, <1>3, <2>1
  <2> QED BY <1>2, <2>1, <2>2, <2>3
<1>5. IsFold(fold)
  <2> HIDE DEF IsFold
  <2> QED BY <1>4
<1> HIDE DEF fold
<1>6. fold[{}] = 0 BY <1>2, <1>5
<1>7. fold[{x}] = size(x)
  <2>1. fold[{x}] = step(fold, {x}) BY <1>2, <1>5
  <2>2. step(fold, {x}) = size(x) + fold[{}] BY <1>2
  <2> QED BY <1>3, <1>6, <2>1, <2>2
<1> QED BY <1>1, <1>7 DEF size

LEMMA MetadataOfOne ==
    ASSUME NEW S, NEW x, S = {x}, OperationCount(commits[x]) \in Nat
    PROVE  MapThenSumSet(LAMBDA g : OperationCount(commits[g]), S) = OperationCount(commits[x])
<1> DEFINE size(g) == OperationCount(commits[g])
           step(f, s) == IF s = {} THEN 0
                         ELSE size(CHOOSE y \in s : TRUE) + f[s \ {CHOOSE y \in s : TRUE}]
           IsFold(f) == f = [s \in SUBSET {x} |-> step(f, s)]
           fold == CHOOSE f : IsFold(f)
           one == [s \in SUBSET {x} |-> IF s = {} THEN 0 ELSE size(x)]
<1>1. MapThenSumSet(LAMBDA g : OperationCount(commits[g]), S) = fold[{x}]
  BY DEF MapThenSumSet, MapThenFoldSet
<1>2. /\ (CHOOSE y \in {x} : TRUE) = x /\ {x} \ {x} = {} /\ {x} # {}
      /\ SUBSET {x} = {{}, {x}}
  OBVIOUS
<1>3. size(x) \in Nat OBVIOUS
<1> HIDE DEF size
<1>4. IsFold(one)
  <2>1. one[{}] = 0 /\ one[{x}] = size(x) BY <1>2
  <2>2. step(one, {}) = 0 OBVIOUS
  <2>3. step(one, {x}) = size(x) BY <1>2, <1>3, <2>1
  <2> QED BY <1>2, <2>1, <2>2, <2>3
<1>5. IsFold(fold)
  <2> HIDE DEF IsFold
  <2> QED BY <1>4
<1> HIDE DEF fold
<1>6. fold[{}] = 0 BY <1>2, <1>5
<1>7. fold[{x}] = size(x)
  <2>1. fold[{x}] = step(fold, {x}) BY <1>2, <1>5
  <2>2. step(fold, {x}) = size(x) + fold[{}] BY <1>2
  <2> QED BY <1>3, <1>6, <2>1, <2>2
<1> QED BY <1>1, <1>7 DEF size

LEMMA OneRowFits ==
    ASSUME NEW c, c.next \in Nat, NEW bytes \in Nat, NEW x, x = c.next + 1,
           OutputSize(outputs[x].output) \in Nat, OutputSize(outputs[x].output) <= bytes,
           OperationCount(commits[GenerationOf(x)]) \in Nat,
           OperationCount(commits[GenerationOf(x)]) <= MetadataRows
    PROVE  PageFits(c, 1, bytes)
<1> DEFINE S == c.next + 1 .. c.next + 1
           T == {GenerationOf(i) : i \in S}
<1>1. S = {x} OBVIOUS
<1>2. T = {GenerationOf(x)} BY <1>1
<1> HIDE DEF S
<1>3. MapThenSumSet(LAMBDA i : OutputSize(outputs[i].output), S)
          = OutputSize(outputs[x].output)
  BY <1>1, BytesOfOne
<1> HIDE DEF T
<1>4. MapThenSumSet(LAMBDA g : OperationCount(commits[g]), T)
          = OperationCount(commits[GenerationOf(x)])
  BY <1>2, MetadataOfOne
<1>5. /\ MapThenSumSet(LAMBDA i : OutputSize(outputs[i].output), S) <= bytes
      /\ MapThenSumSet(LAMBDA g : OperationCount(commits[g]), T) <= MetadataRows
  BY <1>3, <1>4
<1> QED BY <1>5 DEF PageFits, Touched, S, T

\* Among finitely many sizes of which one is not 0, one cannot be enlarged.
LEMMA LargestSize ==
    ASSUME NEW m \in Nat, NEW F, F \subseteq 0 .. m, 1 \in F
    PROVE  \E n \in F \ {0} : n + 1 \notin F
<1> DEFINE Left == {m - n : n \in F}
<1>1. Left \in SUBSET Nat /\ Left # {} OBVIOUS
<1>2. PICK l \in Left : \A k \in Left : l <= k
  <2> HIDE DEF Left
  <2> QED BY <1>1, LeastNatural
<1>3. PICK n \in F : l = m - n OBVIOUS
<1>4. m - 1 \in Left OBVIOUS
<1>5. n \in 0 .. m /\ 1 \in 0 .. m OBVIOUS
<1>6. n # 0
  <2>1. l <= m - 1 BY <1>2, <1>4
  <2> QED BY <1>3, <1>5, <2>1
<1>7. n + 1 \notin F
  <2> SUFFICES ASSUME n + 1 \in F PROVE FALSE OBVIOUS
  <2>1. m - (n + 1) \in Left OBVIOUS
  <2>2. l <= m - (n + 1) BY <1>2, <2>1
  <2> QED BY <1>3, <1>5, <2>2
<1> QED BY <1>6, <1>7

\* A row before the stop belongs to a receipt of the prefix.
LEMMA RowAccepted ==
    ASSUME Runtime, IInv, RowsInv, CursorHolds, NEW i \in Nat, i > 0, i <= cursor.stop
    PROVE  /\ i \in 1 .. Len(outputs) /\ OutputCovered(i)
           /\ GenerationOf(i) \in 1 .. Len(commits)
           /\ RowAdmitted(cursor, i)
<1>1. i \in 1 .. Len(outputs) /\ cursor.stop \in Nat BY StopIsReached
<1>2. OutputCovered(i) BY <1>1 DEF RowsInv
<1>3. PICK m \in 1 .. Len(operations) :
          /\ m = outputs[i].operation
          /\ operations[m].start < i /\ i <= operations[m].stop
          /\ PointAt(operations[m].generation - 1).state.emitted < i
  BY <1>2 DEF OutputCovered
<1>4. PICK g \in 1 .. Len(commits) : g = operations[m].generation
  <2>1. OperationCovered(m) BY DEF RowsInv
  <2> QED BY <2>1 DEF OperationCovered
<1>5. PICK a \in 0 .. Len(commits) : a = cursor.anchor /\ cursor.stop = PointAt(a).state.emitted
  BY DEF CursorHolds
<1>6. g <= a
  <2> SUFFICES ASSUME ~ (g <= a) PROVE FALSE OBVIOUS
  <2>1. Len(commits) \in Nat BY Points DEF IInv
  <2>2. g - 1 \in 0 .. Len(commits) /\ a <= g - 1 BY <2>1
  <2>3. PointAt(a).state.emitted <= PointAt(g - 1).state.emitted BY <2>2 DEF RowsInv
  <2>4. PointAt(g - 1).state.emitted \in Nat BY <2>2, HeadStates
  <2>5. PointAt(g - 1).state.emitted < i BY <1>3, <1>4
  <2> QED BY <1>1, <1>5, <2>3, <2>4, <2>5
<1>7. CommitVerified(g) BY CommitAccepted
<1>8. RowAdmitted(cursor, i) BY <1>3, <1>4, <1>5, <1>6, <1>7 DEF RowAdmitted
<1> QED BY <1>1, <1>2, <1>3, <1>4, <1>8 DEF GenerationOf

\* What is left before the stop is admitted, in one page or several.
LEMMA RestAdmitted ==
    ASSUME Runtime, IInv, RowsInv, CursorHolds
    PROVE  PageAdmitted(cursor, cursor.stop - cursor.next)
<1>1. /\ cursor.stop \in Nat /\ cursor.next \in Nat /\ Len(outputs) \in Nat
      /\ cursor.next <= cursor.stop /\ cursor.stop <= Len(outputs)
  BY StopIsReached
<1>2. CursorAdmitted(cursor)
  <2>1. PICK a \in 0 .. Len(commits) :
            a = cursor.anchor /\ cursor.stop = PointAt(a).state.emitted
            /\ cursor.digest = AnchorOf(a)
    BY DEF CursorHolds
  <2>2. Len(commits) \in Nat /\ head.generation = Len(commits)
    <3>1. JournalInv BY DEF IInv
    <3>2. Len(commits) \in Nat /\ head = PointAt(Len(commits)) BY <3>1, Points DEF JournalInv
    <3>3. Len(commits) \in 0 .. Len(commits) BY <3>2
    <3> QED BY <3>1, <3>2, <3>3, Points
  <2>3. a > 0 => ChainHolds(a) BY ChainAccepted
  <2>4. PointAt(a).state.emitted = StopOf(a)
    <3>1. CASE a = 0
      <4>1. InitialState.emitted = 0 BY DEF Runtime, RuntimeExplains
      <4> QED BY <3>1, <4>1 DEF PointAt, StopOf, InitialPoint
    <3>2. CASE a # 0 BY <3>2 DEF PointAt, StopOf, OutputStop
    <3> QED BY <3>1, <3>2
  <2> QED BY <2>1, <2>2, <2>3, <2>4 DEF CursorAdmitted
<1>3. PICK n \in Nat : n = cursor.stop - cursor.next BY <1>1
<1>4. cursor.next + n = cursor.stop BY <1>1, <1>3
<1>5. ASSUME NEW i \in cursor.next + 1 .. cursor.next + n PROVE RowAdmitted(cursor, i)
  <2>1. i \in Nat /\ i > 0 /\ i <= cursor.stop BY <1>1, <1>4
  <2> QED BY <2>1, RowAccepted
<1>6. ASSUME NEW i \in cursor.next .. cursor.next + n - 1, i > 0
      PROVE  InOrder(outputs[i], outputs[i + 1])
  <2>1. PICK j \in Nat : j = i + 1 BY <1>1
  <2>2. j > 0 /\ j <= cursor.stop /\ j > 1 /\ j - 1 = i BY <1>1, <1>4, <1>6, <2>1
  <2>3. OutputCovered(j) BY <2>2, RowAccepted
  <2>4. InOrder(outputs[j - 1], outputs[j]) BY <2>2, <2>3 DEF OutputCovered
  <2> QED BY <2>1, <2>2, <2>4
<1>7. PageAdmitted(cursor, n) BY <1>1, <1>2, <1>4, <1>5, <1>6 DEF PageAdmitted, InOrder
<1> QED BY <1>3, <1>7

\* A reader whose budget admits the next row has a page to return.
LEMMA SomePageFits ==
    ASSUME Runtime, IInv, RowsInv, CursorHolds, NEW limit \in PageRows, NEW bytes \in PageBytes
    PROVE  \/ PageSizes(cursor, limit, bytes) # {}
           \/ OutputSize(outputs[cursor.next + 1].output) > bytes
<1>1. /\ cursor.stop \in Nat /\ cursor.next \in Nat
      /\ cursor.next <= cursor.stop
  BY StopIsReached
<1>2. limit \in Nat /\ limit # 0 /\ bytes \in Nat BY DEF Runtime, BoundsAdmitted
<1>3. CASE cursor.next = cursor.stop BY <1>3 DEF PageSizes
<1>4. CASE cursor.next # cursor.stop
  <2>1. PICK x \in Nat : x = cursor.next + 1 BY <1>1
  <2>2. x > 0 /\ x <= cursor.stop BY <1>1, <1>4, <2>1
  <2>3. OutputCovered(x) /\ GenerationOf(x) \in 1 .. Len(commits) BY <2>2, RowAccepted
  <2>4. OutputSize(outputs[x].output) \in Nat BY <2>3 DEF OutputCovered
  <2>5. PICK g \in 1 .. Len(commits) : g = GenerationOf(x) BY <2>3
  <2>6. OperationCount(commits[g]) \in Nat /\ OperationCount(commits[g]) <= MetadataRows
    <3>1. JournalInv BY DEF IInv
    <3> DEFINE r   == commits[g].request
               run == EffectOf(PointAt(g - 1), r)
    <3>2. /\ OperationCount(commits[g]) = Len(run.operations)
          /\ r \in Submitted
          /\ Explained(PointAt(g - 1), run, Len(r.commands))
      BY <3>1, ChainAccepted, ReceiptExplained
    <3> HIDE DEF r, run
    <3>3. IsSequence(run.operations) /\ Len(run.operations) <= Len(r.commands)
      BY <3>2 DEF Explained
    <3>4. Len(run.operations) \in Nat BY <3>3, Elements
    <3>5. /\ Len(r.commands) \in Nat /\ Len(r.commands) <= MaxCommands
          /\ MaxCommands \in Nat /\ MetadataRows \in Nat /\ MaxCommands <= MetadataRows
      BY <3>2 DEF Runtime, RequestsAdmitted, BoundsAdmitted
    <3> QED BY <3>2, <3>3, <3>4, <3>5
  <2>7. CASE ~ (OutputSize(outputs[x].output) <= bytes)
    <3>1. OutputSize(outputs[x].output) > bytes BY <1>2, <2>4, <2>7
    <3> QED BY <2>1, <3>1
  <2>8. CASE OutputSize(outputs[x].output) <= bytes
    <3>1. PICK left \in Nat : left = cursor.stop - cursor.next /\ left >= 1 BY <1>1, <1>4
    <3>2. PICK m \in Nat : m = Min({limit, left}) /\ m >= 1
      <4>1. PICK y : y = Min({limit, left}) OBVIOUS
      <4>2. y \in {limit, left} BY <1>2, <4>1, MinOfTwo
      <4>3. y \in Nat /\ y >= 1
        <5>1. limit >= 1 BY <1>2
        <5> QED BY <1>2, <3>1, <4>2, <5>1
      <4> QED BY <4>1, <4>3
    <3>3. PageFits(cursor, 1, bytes) BY <1>1, <1>2, <2>1, <2>4, <2>5, <2>6, <2>8, OneRowFits
    <3> DEFINE F == {n \in 0 .. m : PageFits(cursor, n, bytes)}
    <3>4. F \subseteq 0 .. m /\ 1 \in F BY <3>2, <3>3
    <3> HIDE DEF F
    <3>5. PICK n \in F \ {0} : n + 1 \notin F BY <3>4, LargestSize
    <3>6. F = {k \in 0 .. Min({limit, cursor.stop - cursor.next}) : PageFits(cursor, k, bytes)}
      BY <3>1, <3>2 DEF F
    <3>7. n \in PageSizes(cursor, limit, bytes) BY <1>4, <3>5, <3>6 DEF PageSizes
    <3> QED BY <3>7
  <2> QED BY <2>7, <2>8
<1> QED BY <1>3, <1>4

LEMMA PagesGoOn ==
    ASSUME Runtime, IInv, RowsInv, CursorInv PROVE PagesArePrefix
<1> SUFFICES ASSUME cursor # None
             PROVE  /\ cursor.next <= cursor.stop
                    /\ PageAdmitted(cursor, cursor.stop - cursor.next)
                    /\ taken = SubSeq(outputs, cursor.next - Len(taken) + 1, cursor.next)
                    /\ \A limit \in PageRows, bytes \in PageBytes :
                          \/ PageSizes(cursor, limit, bytes) # {}
                          \/ OutputSize(outputs[cursor.next + 1].output) > bytes
  BY DEF PagesArePrefix
<1>1. CursorHolds BY DEF CursorInv
<1>2. cursor.next <= cursor.stop BY <1>1, StopIsReached
<1>3. PageAdmitted(cursor, cursor.stop - cursor.next) BY <1>1, RestAdmitted
<1>4. taken = SubSeq(outputs, cursor.next - Len(taken) + 1, cursor.next)
  BY <1>1 DEF CursorHolds
<1>5. \A limit \in PageRows, bytes \in PageBytes :
          \/ PageSizes(cursor, limit, bytes) # {}
          \/ OutputSize(outputs[cursor.next + 1].output) > bytes
  BY <1>1, SomePageFits
<1> QED BY <1>2, <1>3, <1>4, <1>5

\* A cursor stays readable whatever is published after it: its pages are a
\* contiguous part of the outputs up to its stop, every row still to come
\* passes the reader's checks, and a reader whose budget admits one row is
\* never stuck before the stop.
THEOREM PagesStayReadable == Runtime /\ Spec => []PagesArePrefix
<1> DEFINE Inv == IInv /\ RowsInv /\ CursorInv
<1>1. Runtime /\ Init => Inv
  <2>1. Runtime => RequestsAdmitted BY DEF Runtime
  <2>2. Init => CursorInv BY DEF Init, CursorInv
  <2> QED BY <2>1, <2>2, InitHolds, InitRows
<1>2. Runtime /\ Inv /\ [Next]_vars => Inv' BY StepKeeps, StepKeepsRows, StepKeepsCursor
<1>3. Runtime /\ Inv => PagesArePrefix BY PagesGoOn
<1>4. Runtime => []Runtime
  <2> SUFFICES ASSUME Runtime PROVE []Runtime OBVIOUS
  <2> QED BY PTL
<1> QED BY <1>1, <1>2, <1>3, <1>4, PTL DEF Spec
=============================================================================
