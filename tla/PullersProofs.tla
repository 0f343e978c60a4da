----------------------------- MODULE PullersProofs ----------------------------
(***************************************************************************)
(* Proofs about the programs that pull a source.                           *)
(*                                                                         *)
(* FilePublication, for any crew of runners and publishers, any file and   *)
(* any number of faults and failures.                                      *)
(*                                                                         *)
(* PullHelper, for any number of helpers, any source, caps, batch sizes and*)
(* failures.                                                               *)
(***************************************************************************)
EXTENDS FilePublication, PullHelper, ProofLemmas

-----------------------------------------------------------------------------
(***************************************************************************)
(* Proofs about FileRunner, for any number of runners, any file, limit,    *)
(* caps and batch sizes, and any number of faults.                         *)
(***************************************************************************)

\* The calls that apply a request.
Applying == {"lookup", "commit", "inspect", "confirm"}

\* What a request of runner r asks for, at the generation it was made for.
WellAsked(r) ==
    LET req == request[r] IN
    /\ req.generation \in 0 .. Generation
    /\ req.position = PositionAt(req.generation)
    /\ req.position = from[r] + processed[r] /\ processed[r] < Cap[r]
    /\ \/ /\ req.cause = "wave" /\ req.count > 0
          /\ Admissible(req.position, req.count)
          /\ req.position + req.count <= RecordCount
          /\ processed[r] + req.count <= Cap[r]
       \/ req.cause = "eof" /\ req.count = 0 /\ req.position = RecordCount

\* A call under way: what it asks for, and what it published.
CallInv(r) ==
    /\ pc[r] \in Applying => WellAsked(r)
    /\ pc[r] = "commit" => ~ ClosedAt(request[r].generation)
    /\ published[r] \subseteq 1 .. Generation

\* CapRespected and ReturnsHold, of one runner.
CapOf(r) ==
    \A g \in published[r] :
        /\ from[r] <= log[g].position /\ PositionAt(g) <= from[r] + Cap[r]
        /\ log[g].cause = "eof" => PositionAt(g) < from[r] + Cap[r]

ReturnOf(r) ==
    answer[r] = "returned" /\ pc[r] = "idle" =>
        /\ \A g \in published[r] : g <= point[r]
        /\ ClosedAt(point[r]) \/ PositionAt(point[r]) = from[r] + Cap[r]

\* The part of TypeOK that every action touches.
CallTypes ==
    /\ pc \in [Runner -> {"idle", "lookup", "commit", "inspect", "confirm"}]
    /\ request \in [Runner -> Request]
    /\ \A r \in Runner : (request[r] = NoRequest) = (pc[r] = "idle")
    /\ point \in [Runner -> Nat]
    /\ answer \in [Runner -> {"none", "returned", "reconciled", "raised"}]

\* A step of r leaves the other calls alone.
OthersRest(r) ==
    \A q \in Runner : q # r =>
        /\ pc'[q] = pc[q] /\ request'[q] = request[q] /\ processed'[q] = processed[q]
        /\ point'[q] = point[q] /\ answer'[q] = answer[q]
        /\ published'[q] = published[q] /\ from'[q] = from[q]

RunnerInv ==
    /\ TypeOK /\ HoldsFilePrefix /\ CapRespected /\ ReturnsHold
    /\ \A g \in DOMAIN log : log[g].cause \in {"wave", "eof"}
    /\ \A r \in Runner : CallInv(r)
    /\ \A r \in Runner : point[r] <= Generation

-----------------------------------------------------------------------------

LEMMA RecordCountIsNat == RecordCount \in Nat
BY RunnerAssumption DEF RecordCount

LEMMA PositionIsNat ==
    ASSUME log \in Seq(Request), NEW g \in 0 .. Generation
    PROVE  PositionAt(g) \in Nat
<1>1. CASE g = 0 BY <1>1 DEF PositionAt
<1>2. CASE g # 0
  <2>1. g \in 1 .. Len(log) BY <1>2 DEF Generation
  <2>2. log[g] \in Request BY <2>1
  <2>3. log[g].position \in Nat /\ log[g].count \in Nat BY <2>2 DEF Request
  <2> QED BY <1>2, <2>3 DEF PositionAt
<1> QED BY <1>1, <1>2

\* The least of three numbers.
LEMMA LeastOfThree ==
    ASSUME NEW a \in Int, NEW b \in Int, NEW c \in Int
    PROVE  LET m == Min({a, b, c}) IN m \in {a, b, c} /\ m <= a /\ m <= b /\ m <= c
<1>1. \E x \in {a, b, c} : \A y \in {a, b, c} : x <= y
  <2>1. CASE a <= b /\ a <= c BY <2>1
  <2>2. CASE b <= a /\ b <= c BY <2>2
  <2>3. CASE c <= a /\ c <= b BY <2>3
  <2> QED BY <2>1, <2>2, <2>3
<1> QED BY <1>1 DEF Min

\* A set of naturals up to a bound has a greatest element.
LEMMA GreatestBounded ==
    ASSUME NEW m \in Nat, NEW S \in SUBSET (0 .. m), S # {}
    PROVE  Max(S) \in S
<1> DEFINE T == {m - n : n \in S}
<1>1. T \in SUBSET Nat /\ T # {}
  <2>1. \A n \in S : m - n \in Nat OBVIOUS
  <2>2. PICK n \in S : TRUE OBVIOUS
  <2>3. m - n \in T BY <2>2
  <2> QED BY <2>1, <2>3
<1>2. PICK t \in T : \A u \in T : t <= u BY <1>1, LeastNatural
<1>3. PICK x \in S : t = m - x OBVIOUS
<1>4. \A y \in S : x >= y
  <2> SUFFICES ASSUME NEW y \in S PROVE x >= y OBVIOUS
  <2>1. m - y \in T OBVIOUS
  <2>2. m - x <= m - y BY <1>2, <1>3, <2>1
  <2>3. x \in 0 .. m /\ y \in 0 .. m OBVIOUS
  <2> QED BY <2>2, <2>3
<1>5. \E z \in S : \A y \in S : z >= y BY <1>4
<1> QED BY <1>5 DEF Max

\* A batch stays within the file and the cap, and a wave of it is admitted.
LEMMA BatchFits ==
    ASSUME NEW r \in Runner, NEW position \in Nat, NEW done \in Nat,
           done < Cap[r], position < RecordCount
    PROVE  LET n == Batch(r, position, done) IN
           /\ n \in Nat /\ n <= Cap[r] - done /\ position + n <= RecordCount
           /\ n > 0 => Admissible(position, n)
<1> DEFINE most == Min({BatchSize[r], Cap[r] - done, RecordCount - position})
           S == {0} \cup {n \in 1 .. most : Admissible(position, n)}
<1>1. BatchSize[r] \in Nat \ {0} /\ Cap[r] \in Nat /\ RecordCount \in Nat
  BY RunnerAssumption, RecordCountIsNat
<1>2. /\ most \in {BatchSize[r], Cap[r] - done, RecordCount - position}
      /\ most <= Cap[r] - done /\ most <= RecordCount - position
  <2>1. BatchSize[r] \in Int /\ Cap[r] - done \in Int /\ RecordCount - position \in Int
    BY <1>1
  <2> QED BY <2>1, LeastOfThree, Zenon
<1>3. most \in Nat BY <1>1, <1>2
<1>4. S \in SUBSET (0 .. most) /\ S # {} BY <1>3
<1>5. Max(S) \in S BY <1>3, <1>4, GreatestBounded
<1>6. Batch(r, position, done) = Max(S) BY DEF Batch, LongestAdmissible
<1> HIDE DEF most, S
<1>7. Max(S) \in 0 .. most BY <1>4, <1>5
<1>8. Max(S) > 0 => Admissible(position, Max(S))
  BY <1>5, <1>3 DEF S
<1> QED BY <1>1, <1>2, <1>3, <1>6, <1>7, <1>8

-----------------------------------------------------------------------------

\* What an appended receipt leaves as it was.
LEMMA AppendKeeps ==
    ASSUME log \in Seq(Request), NEW req \in Request, log' = Append(log, req)
    PROVE  /\ log' \in Seq(Request)
           /\ Generation \in Nat /\ Generation' = Generation + 1
           /\ \A g \in 1 .. Generation : log'[g] = log[g]
           /\ log'[Generation + 1] = req
           /\ \A g \in 0 .. Generation :
                 PositionAt(g)' = PositionAt(g) /\ ClosedAt(g)' = ClosedAt(g)
<1>1. Generation \in Nat /\ Generation' = Generation + 1 BY DEF Generation
<1>2. \A g \in 1 .. Generation : log'[g] = log[g] BY DEF Generation
<1>3. \A g \in 0 .. Generation :
          PositionAt(g)' = PositionAt(g) /\ ClosedAt(g)' = ClosedAt(g)
  <2> SUFFICES ASSUME NEW g \in 0 .. Generation
               PROVE  PositionAt(g)' = PositionAt(g) /\ ClosedAt(g)' = ClosedAt(g)
    OBVIOUS
  <2>1. CASE g = 0 BY <2>1 DEF PositionAt, ClosedAt
  <2>2. CASE g # 0
    <3>1. g \in 1 .. Generation BY <1>1, <2>2
    <3>2. log'[g] = log[g] BY <1>2, <3>1
    <3> QED BY <2>2, <3>2 DEF PositionAt, ClosedAt
  <2> QED BY <2>1, <2>2
<1> QED BY <1>1, <1>2, <1>3 DEF Generation

LogGrows == log' = log \/ \E req \in Request : log' = Append(log, req)

\* What was recorded of a generation stays.
LEMMA HistorySurvives ==
    ASSUME log \in Seq(Request), LogGrows
    PROVE  /\ Generation \in Nat /\ Generation' \in Nat /\ Generation <= Generation'
           /\ \A g \in 1 .. Generation : log'[g] = log[g]
           /\ \A g \in 0 .. Generation :
                 PositionAt(g)' = PositionAt(g) /\ ClosedAt(g)' = ClosedAt(g)
<1>1. Generation \in Nat BY DEF Generation
<1>2. CASE log' = log BY <1>1, <1>2 DEF Generation, PositionAt, ClosedAt
<1>3. CASE \E req \in Request : log' = Append(log, req)
  <2>1. PICK req \in Request : log' = Append(log, req) BY <1>3
  <2>2. /\ Generation' = Generation + 1
        /\ \A g \in 1 .. Generation : log'[g] = log[g]
        /\ \A g \in 0 .. Generation :
              PositionAt(g)' = PositionAt(g) /\ ClosedAt(g)' = ClosedAt(g)
    BY <2>1, AppendKeeps
  <2> QED BY <1>1, <2>2
<1> QED BY <1>2, <1>3 DEF LogGrows

\* A request means the same after a receipt was appended.
LEMMA RequestSurvives ==
    ASSUME log \in Seq(Request), LogGrows, NEW q \in Runner, WellAsked(q),
           request'[q] = request[q], processed'[q] = processed[q], from'[q] = from[q]
    PROVE  WellAsked(q)' /\ ClosedAt(request[q].generation)' = ClosedAt(request[q].generation)
<1>1. PICK k \in 0 .. Generation : k = request[q].generation BY DEF WellAsked
<1>2. PositionAt(k)' = PositionAt(k) /\ ClosedAt(k)' = ClosedAt(k) BY HistorySurvives
<1>3. k \in 0 .. Generation' BY HistorySurvives
<1>4. WellAsked(q)'
  <2>1. request'[q].position = PositionAt(k)' BY <1>1, <1>2 DEF WellAsked
  <2>2. PositionAt(request[q].generation)' = PositionAt(k)' BY <1>1 DEF PositionAt
  <2> QED BY <1>1, <1>3, <2>1, <2>2 DEF WellAsked
<1>5. ClosedAt(request[q].generation)' = ClosedAt(k)'
      /\ ClosedAt(request[q].generation) = ClosedAt(k)
  BY <1>1 DEF ClosedAt
<1> QED BY <1>2, <1>4, <1>5

\* A call under way or ended is as it was after a receipt was appended.
LEMMA CallSurvives ==
    ASSUME RunnerInv, NEW q \in Runner, LogGrows,
           pc'[q] = pc[q], request'[q] = request[q], processed'[q] = processed[q],
           point'[q] = point[q], answer'[q] = answer[q], published'[q] = published[q],
           from'[q] = from[q]
    PROVE  CallInv(q)' /\ CapOf(q)' /\ ReturnOf(q)' /\ point'[q] <= Generation'
<1>1. log \in Seq(Request) /\ Generation \in Nat BY DEF RunnerInv, TypeOK, Generation
<1>2. /\ Generation' \in Nat /\ Generation <= Generation'
      /\ \A g \in 1 .. Generation : log'[g] = log[g]
      /\ \A g \in 0 .. Generation :
            PositionAt(g)' = PositionAt(g) /\ ClosedAt(g)' = ClosedAt(g)
  BY <1>1, HistorySurvives
<1>3. /\ CallInv(q) /\ published[q] \subseteq 1 .. Generation
      /\ point[q] \in 0 .. Generation /\ CapOf(q) /\ ReturnOf(q)
  BY <1>1 DEF RunnerInv, CallInv, TypeOK, CapRespected, ReturnsHold, CapOf, ReturnOf
<1>4. CallInv(q)'
  <2>1. published[q] \subseteq 1 .. Generation' BY <1>1, <1>2, <1>3
  <2>2. CASE pc[q] \notin Applying BY <2>1, <2>2 DEF CallInv, Applying
  <2>3. CASE pc[q] \in Applying
    <3>1. WellAsked(q)' /\ ClosedAt(request[q].generation)' = ClosedAt(request[q].generation)
      BY <1>1, <1>3, <2>3, RequestSurvives DEF CallInv
    <3> QED BY <1>3, <2>1, <3>1 DEF CallInv
  <2> QED BY <2>2, <2>3
<1>5. CapOf(q)'
  <2> SUFFICES ASSUME NEW g \in published[q]
               PROVE  /\ from[q] <= log'[g].position /\ PositionAt(g)' <= from[q] + Cap[q]
                      /\ log'[g].cause = "eof" => PositionAt(g)' < from[q] + Cap[q]
    BY DEF CapOf
  <2>1. g \in 1 .. Generation /\ g \in 0 .. Generation BY <1>1, <1>3
  <2> QED BY <1>2, <1>3, <2>1 DEF CapOf
<1>6. ReturnOf(q)'
  <2>1. ClosedAt(point[q])' = ClosedAt(point[q]) /\ PositionAt(point[q])' = PositionAt(point[q])
    BY <1>2, <1>3 DEF ClosedAt, PositionAt
  <2> QED BY <1>3, <2>1 DEF ReturnOf, ClosedAt, PositionAt
<1>7. point'[q] <= Generation' BY <1>1, <1>2, <1>3
<1> QED BY <1>4, <1>5, <1>6, <1>7

\* A step of one runner that appends nothing and keeps what concerns itself
\* keeps all.
LEMMA OwnStepKeeps ==
    ASSUME RunnerInv, NEW r \in Runner, log' = log, OthersRest(r), TypeOK',
           CallInv(r)', CapOf(r)', ReturnOf(r)', point'[r] <= Generation'
    PROVE  RunnerInv'
<1>1. HoldsFilePrefix' /\ \A g \in DOMAIN log' : log'[g].cause \in {"wave", "eof"}
  <2>1. Generation' = Generation /\ PositionAt(Generation)' = PositionAt(Generation)
    BY DEF Generation, PositionAt
  <2>2. \A g \in DOMAIN log : PositionAt(g - 1)' = PositionAt(g - 1) BY DEF PositionAt
  <2> QED BY <2>1, <2>2 DEF RunnerInv, HoldsFilePrefix
<1>2. ASSUME NEW q \in Runner
      PROVE  CallInv(q)' /\ CapOf(q)' /\ ReturnOf(q)' /\ point'[q] <= Generation'
  <2>1. CASE q = r BY <2>1
  <2>2. CASE q # r BY <2>2, CallSurvives DEF OthersRest, LogGrows
  <2> QED BY <2>1, <2>2
<1>3. CapRespected' /\ ReturnsHold' BY <1>2 DEF CapRespected, ReturnsHold, CapOf, ReturnOf
<1> QED BY <1>1, <1>2, <1>3 DEF RunnerInv

-----------------------------------------------------------------------------

\* Where a call goes, what it asks for and what it answers have their types.
LEMMA GotoTypes ==
    ASSUME CallTypes, NEW r \in Runner, NEW label \in Applying, Goto(r, label),
           pc[r] # "idle", UNCHANGED <<request, point, answer>>
    PROVE  /\ CallTypes' /\ pc'[r] = label
           /\ \A q \in Runner : q # r => pc'[q] = pc[q]
<1>1. pc' \in [Runner -> {"idle", "lookup", "commit", "inspect", "confirm"}]
  BY DEF CallTypes, Goto, Applying
<1>2. pc'[r] = label /\ \A q \in Runner : q # r => pc'[q] = pc[q]
  BY DEF CallTypes, Goto
<1>3. label # "idle" BY DEF Applying
<1> QED BY <1>1, <1>2, <1>3 DEF CallTypes

LEMMA EndTypes ==
    ASSUME CallTypes, Generation \in Nat, NEW r \in Runner,
           NEW how \in {"returned", "reconciled", "raised"}, End(r, how)
    PROVE  /\ CallTypes'
           /\ pc'[r] = "idle" /\ answer'[r] = how /\ point'[r] = Generation
           /\ \A q \in Runner : q # r =>
                 /\ pc'[q] = pc[q] /\ request'[q] = request[q]
                 /\ point'[q] = point[q] /\ answer'[q] = answer[q]
<1>1. NoRequest \in Request BY DEF NoRequest, Request
<1>2. /\ pc' \in [Runner -> {"idle", "lookup", "commit", "inspect", "confirm"}]
      /\ request' \in [Runner -> Request]
      /\ point' \in [Runner -> Nat]
      /\ answer' \in [Runner -> {"none", "returned", "reconciled", "raised"}]
  BY <1>1 DEF CallTypes, End, Goto
<1>3. /\ pc'[r] = "idle" /\ answer'[r] = how /\ point'[r] = Generation /\ request'[r] = NoRequest
      /\ \A q \in Runner : q # r =>
            /\ pc'[q] = pc[q] /\ request'[q] = request[q]
            /\ point'[q] = point[q] /\ answer'[q] = answer[q]
  BY DEF CallTypes, End, Goto
<1> QED BY <1>2, <1>3 DEF CallTypes

LEMMA ApplyTypes ==
    ASSUME CallTypes, NEW r \in Runner, NEW req \in Request, req # NoRequest, Apply(r, req)
    PROVE  /\ CallTypes'
           /\ pc'[r] = "lookup" /\ request'[r] = req /\ point' = point /\ answer' = answer
           /\ \A q \in Runner : q # r => pc'[q] = pc[q] /\ request'[q] = request[q]
<1>1. /\ pc' \in [Runner -> {"idle", "lookup", "commit", "inspect", "confirm"}]
      /\ request' \in [Runner -> Request]
  BY DEF CallTypes, Apply, Goto
<1>2. /\ pc'[r] = "lookup" /\ request'[r] = req
      /\ \A q \in Runner : q # r => pc'[q] = pc[q] /\ request'[q] = request[q]
  BY DEF CallTypes, Apply, Goto
<1> QED BY <1>1, <1>2 DEF CallTypes, Apply

\* What a turn of the loop comes to.
LEMMA TurnBranches ==
    ASSUME RunnerInv, NEW r \in Runner, NEW done \in Nat, Turn(r, done)
    PROVE  LET position == PositionAt(Generation)
               Asking(cause, n) == Apply(r, [generation |-> Generation, cause |-> cause,
                                          position |-> position, count |-> n])
           IN  \/ /\ done < Cap[r]
                  /\ \E n \in Nat : /\ n > 0 /\ done + n <= Cap[r] /\ position + n <= RecordCount
                                    /\ Admissible(position, n) /\ Asking("wave", n)
               \/ done < Cap[r] /\ End(r, "raised")
               \/ done < Cap[r] /\ position = RecordCount /\ Asking("eof", 0)
               \/ ~ (done < Cap[r]) /\ End(r, "returned")
<1> DEFINE position == PositionAt(Generation)
           count == Batch(r, position, done)
<1>1. position \in Nat /\ position <= RecordCount /\ RecordCount \in Nat /\ Cap[r] \in Nat
  BY PositionIsNat, RecordCountIsNat, RunnerAssumption
  DEF RunnerInv, TypeOK, HoldsFilePrefix, Generation
<1>2. CASE done < Cap[r] /\ position < RecordCount
  <2>1. /\ count \in Nat /\ count <= Cap[r] - done /\ position + count <= RecordCount
        /\ count > 0 => Admissible(position, count)
    BY <1>1, <1>2, BatchFits, Zenon
  <2>2. position # RecordCount BY <1>1, <1>2
  <2>3. CASE count > 0
    <3>1. count # 0 BY <2>1, <2>3
    <3>2. Apply(r, [generation |-> Generation, cause |-> "wave",
                    position |-> position, count |-> count])
      BY <1>2, <2>2, <2>3, <3>1, Zenon DEF Turn
    <3>3. done + count <= Cap[r] BY <1>1, <2>1
    <3> QED BY <1>2, <2>1, <2>3, <3>2, <3>3
  <2>4. CASE count = 0
    <3>1. ~ (count > 0) BY <2>4
    <3>2. End(r, "raised") BY <1>2, <2>2, <2>4, <3>1, Zenon DEF Turn
    <3> QED BY <1>2, <3>2
  <2> QED BY <2>1, <2>3, <2>4
<1>3. CASE done < Cap[r] /\ position = RecordCount
  <2>1. ~ (position < RecordCount) BY <1>1, <1>3
  <2>2. Apply(r, [generation |-> Generation, cause |-> "eof", position |-> position, count |-> 0])
    BY <1>3, <2>1, Zenon DEF Turn
  <2> QED BY <1>3, <2>2
<1>4. CASE ~ (done < Cap[r])
  <2>1. End(r, "returned") BY <1>4, Zenon DEF Turn
  <2> QED BY <1>4, <2>1
<1> QED BY <1>1, <1>2, <1>3, <1>4

\* The parts of RunnerInv that the steps of one runner start from.
LEMMA RunnerFacts ==
    ASSUME RunnerInv, NEW r \in Runner
    PROVE  /\ log \in Seq(Request) /\ Generation \in Nat /\ CallTypes
           /\ processed \in [Runner -> Nat] /\ from \in [Runner -> Nat]
           /\ published \in [Runner -> SUBSET Nat] /\ faults \in 0 .. MaxFaults
           /\ CallInv(r) /\ CapOf(r) /\ ReturnOf(r)
           /\ PositionAt(Generation) \in Nat /\ PositionAt(Generation) <= RecordCount
           /\ RecordCount \in Nat /\ Cap[r] \in Nat /\ MaxFaults \in Nat
<1>1. log \in Seq(Request) /\ Generation \in Nat BY DEF RunnerInv, TypeOK, Generation
<1>2. PositionAt(Generation) \in Nat BY <1>1, PositionIsNat
<1>3. PositionAt(Generation) <= RecordCount BY DEF RunnerInv, HoldsFilePrefix
<1>4. RecordCount \in Nat /\ Cap[r] \in Nat /\ MaxFaults \in Nat
  BY RecordCountIsNat, RunnerAssumption
<1>5. CallTypes BY DEF RunnerInv, TypeOK, CallTypes
<1>6. CapOf(r) /\ ReturnOf(r) BY DEF RunnerInv, CapRespected, ReturnsHold, CapOf, ReturnOf
<1> QED BY <1>1, <1>2, <1>3, <1>4, <1>5, <1>6 DEF RunnerInv, TypeOK

\* A call that ends without a new receipt and without having returned, or with
\* what a return promises.
LEMMA EndKeeps ==
    ASSUME RunnerInv, NEW r \in Runner, NEW how \in {"returned", "reconciled", "raised"},
           End(r, how), log' = log,
           processed' \in [Runner -> Nat], published' \in [Runner -> SUBSET Nat],
           from' \in [Runner -> Nat], faults' \in 0 .. MaxFaults,
           \A q \in Runner : q # r =>
               processed'[q] = processed[q] /\ published'[q] = published[q] /\ from'[q] = from[q],
           published'[r] \subseteq 1 .. Generation, CapOf(r)',
           how = "returned" =>
               ClosedAt(Generation) \/ PositionAt(Generation) = from'[r] + Cap[r]
    PROVE  RunnerInv'
<1>1. /\ CallTypes' /\ pc'[r] = "idle" /\ answer'[r] = how /\ point'[r] = Generation
      /\ \A q \in Runner : q # r =>
            /\ pc'[q] = pc[q] /\ request'[q] = request[q]
            /\ point'[q] = point[q] /\ answer'[q] = answer[q]
  BY RunnerFacts, EndTypes
<1>2. TypeOK' BY <1>1, RunnerFacts DEF TypeOK, CallTypes
<1>3. OthersRest(r) BY <1>1 DEF OthersRest
<1>4. Generation' = Generation /\ Generation \in Nat BY RunnerFacts DEF Generation
<1>5. CallInv(r)' BY <1>1, <1>4 DEF CallInv, Applying
<1>6. ReturnOf(r)'
  <2>1. ClosedAt(point[r])' = ClosedAt(Generation)
        /\ PositionAt(point[r])' = PositionAt(Generation)
    BY <1>1 DEF ClosedAt, PositionAt
  <2>2. \A g \in published'[r] : g <= point'[r] BY <1>1, <1>4
  <2> QED BY <1>1, <2>1, <2>2 DEF ReturnOf
<1>7. point'[r] <= Generation' BY <1>1, <1>4
<1> QED BY <1>2, <1>3, <1>5, <1>6, <1>7, OwnStepKeeps

\* A turn of the loop at the position that the call's count says.
LEMMA TurnKeeps ==
    ASSUME RunnerInv, NEW r \in Runner, NEW done \in Nat, Turn(r, done), done <= Cap[r], log' = log,
           processed' \in [Runner -> Nat], published' \in [Runner -> SUBSET Nat],
           from' \in [Runner -> Nat], faults' \in 0 .. MaxFaults,
           \A q \in Runner : q # r =>
               processed'[q] = processed[q] /\ published'[q] = published[q] /\ from'[q] = from[q],
           published'[r] \subseteq 1 .. Generation, CapOf(r)',
           processed'[r] = done, PositionAt(Generation) = from'[r] + done
    PROVE  RunnerInv'
<1> DEFINE position == PositionAt(Generation)
<1>1. Cap[r] \in Nat /\ position \in Nat /\ Generation \in Nat BY RunnerFacts
<1>2. CASE done < Cap[r] /\ End(r, "raised") BY <1>2, EndKeeps
<1>3. CASE ~ (done < Cap[r]) /\ End(r, "returned")
  <2>1. done = Cap[r] BY <1>1, <1>3
  <2> QED BY <1>3, <2>1, EndKeeps
<1>4. ASSUME done < Cap[r],
             NEW cause \in {"wave", "eof"}, NEW n \in Nat,
             Apply(r, [generation |-> Generation, cause |-> cause, position |-> position, count |-> n]),
             \/ /\ cause = "wave" /\ n > 0 /\ done + n <= Cap[r] /\ position + n <= RecordCount
                /\ Admissible(position, n)
             \/ cause = "eof" /\ n = 0 /\ position = RecordCount
      PROVE  RunnerInv'
  <2> DEFINE req == [generation |-> Generation, cause |-> cause, position |-> position, count |-> n]
  <2>1. req \in Request /\ req # NoRequest BY <1>1 DEF Request, NoRequest
  <2>2. /\ CallTypes' /\ pc'[r] = "lookup" /\ request'[r] = req /\ point' = point /\ answer' = answer
        /\ \A q \in Runner : q # r => pc'[q] = pc[q] /\ request'[q] = request[q]
    BY <1>4, <2>1, RunnerFacts, ApplyTypes, Zenon
  <2>3. TypeOK' BY <2>2, RunnerFacts DEF TypeOK, CallTypes
  <2>4. OthersRest(r) BY <2>2 DEF OthersRest
  <2>5. Generation' = Generation BY DEF Generation
  <2>6. WellAsked(r)'
    <3>1. PositionAt(request[r].generation)' = position
      BY <2>2, <2>5 DEF PositionAt
    <3> QED BY <1>1, <1>4, <2>2, <2>5, <3>1 DEF WellAsked
  <2>7. CallInv(r)' BY <2>2, <2>5, <2>6 DEF CallInv
  <2>8. ReturnOf(r)' BY <2>2 DEF ReturnOf
  <2>9. point'[r] <= Generation' BY <2>2, <2>5 DEF RunnerInv
  <2> QED BY <2>3, <2>4, <2>7, <2>8, <2>9, OwnStepKeeps
<1> QED BY <1>2, <1>3, <1>4, TurnBranches

-----------------------------------------------------------------------------

LEMMA StartKeeps ==
    ASSUME RunnerInv, NEW r \in Runner, Start(r)
    PROVE  RunnerInv'
<1>1. /\ Generation \in Nat /\ PositionAt(Generation) \in Nat /\ Cap[r] \in Nat
      /\ faults' \in 0 .. MaxFaults /\ log' = log
  BY RunnerFacts DEF Start
<1>2. /\ processed' \in [Runner -> Nat] /\ published' \in [Runner -> SUBSET Nat]
      /\ from' \in [Runner -> Nat]
      /\ processed'[r] = 0 /\ published'[r] = {} /\ from'[r] = PositionAt(Generation)
      /\ \A q \in Runner : q # r =>
            processed'[q] = processed[q] /\ published'[q] = published[q] /\ from'[q] = from[q]
  BY <1>1, RunnerFacts DEF Start
<1>3. published'[r] \subseteq 1 .. Generation /\ CapOf(r)' BY <1>2 DEF CapOf
<1>4. PositionAt(Generation) = from'[r] + 0 BY <1>1, <1>2
<1>5. CASE (ClosedAt(Generation) \/ Cap[r] = 0) /\ End(r, "returned")
  BY <1>1, <1>2, <1>3, <1>4, <1>5, EndKeeps
<1>6. CASE Turn(r, 0)
  <2>1. 0 \in Nat /\ 0 <= Cap[r] BY <1>1
  <2> QED BY <1>1, <1>2, <1>3, <1>4, <1>6, <2>1, TurnKeeps
<1> QED BY <1>5, <1>6 DEF Start

\* A step that only goes on within apply.
LEMMA GotoKeeps ==
    ASSUME RunnerInv, NEW r \in Runner, NEW label \in Applying, Goto(r, label),
           pc[r] \in Applying, faults' \in 0 .. MaxFaults,
           UNCHANGED <<log, request, processed, point, answer, published, from>>,
           label = "commit" => ~ ClosedAt(request[r].generation)
    PROVE  RunnerInv'
<1>1. CallTypes' /\ pc'[r] = label /\ \A q \in Runner : q # r => pc'[q] = pc[q]
  <2>1. pc[r] # "idle" BY DEF Applying
  <2> QED BY <2>1, RunnerFacts, GotoTypes
<1>2. TypeOK' BY <1>1, RunnerFacts DEF TypeOK, CallTypes
<1>3. OthersRest(r) BY <1>1 DEF OthersRest
<1>4. Generation' = Generation BY DEF Generation
<1>5. CallInv(r)'
  <2>1. WellAsked(r) /\ published[r] \subseteq 1 .. Generation BY RunnerFacts DEF CallInv
  <2>2. WellAsked(r)' /\ ClosedAt(request[r].generation)' = ClosedAt(request[r].generation)
    BY <2>1, RunnerFacts, RequestSurvives DEF LogGrows
  <2> QED BY <1>1, <1>4, <2>1, <2>2 DEF CallInv
<1>6. CapOf(r)'
  <2>1. CapOf(r) BY RunnerFacts
  <2> QED BY <2>1 DEF CapOf, PositionAt
<1>7. ReturnOf(r)' BY <1>1 DEF ReturnOf, Applying
<1>8. point'[r] <= Generation' BY <1>4 DEF RunnerInv
<1> QED BY <1>2, <1>3, <1>5, <1>6, <1>7, <1>8, OwnStepKeeps

LEMMA LookupKeeps ==
    ASSUME RunnerInv, NEW r \in Runner, Lookup(r)
    PROVE  RunnerInv'
<1>1. pc[r] = "lookup" /\ UNCHANGED <<log, request, processed, point, answer, published, from, faults>>
  BY DEF Lookup
<1>2. PICK label \in {"confirm", "inspect", "commit"} :
          Goto(r, label) /\ (label = "commit" => ~ ClosedAt(request[r].generation))
  <2>1. CASE HasReceipt(request[r]) BY <2>1, Zenon DEF Lookup
  <2>2. CASE ~ HasReceipt(request[r]) /\ Generation # request[r].generation
    BY <2>2, Zenon DEF Lookup
  <2>3. CASE ~ HasReceipt(request[r]) /\ Generation = request[r].generation
    <3>1. Goto(r, IF ClosedAt(Generation) THEN "confirm" ELSE "commit")
      BY <2>3, Zenon DEF Lookup
    <3>2. CASE ClosedAt(Generation) BY <3>1, <3>2
    <3>3. CASE ~ ClosedAt(Generation)
      <4>1. ~ ClosedAt(request[r].generation) BY <2>3, <3>3
      <4> QED BY <3>1, <3>3, <4>1
    <3> QED BY <3>2, <3>3
  <2> QED BY <2>1, <2>2, <2>3
<1>3. label \in Applying /\ pc[r] \in Applying BY <1>1 DEF Applying
<1>4. faults' \in 0 .. MaxFaults BY <1>1, RunnerFacts
<1> QED BY <1>1, <1>2, <1>3, <1>4, GotoKeeps

\* The heart: a receipt is appended at the generation its request was made for,
\* so it goes on from where the journal ends.
LEMMA PublishKeeps ==
    ASSUME RunnerInv, NEW r \in Runner, pc[r] = "commit", Generation = request[r].generation,
           Publish(r), NEW label \in {"confirm", "inspect"}, Goto(r, label),
           faults' \in 0 .. MaxFaults, UNCHANGED <<request, processed, point, answer, from>>
    PROVE  RunnerInv'
<1> DEFINE req == request[r]
<1>1. /\ log \in Seq(Request) /\ Generation \in Nat /\ CallTypes /\ req \in Request
      /\ WellAsked(r) /\ ~ ClosedAt(Generation) /\ published[r] \subseteq 1 .. Generation
      /\ processed[r] \in Nat /\ from[r] \in Nat /\ Cap[r] \in Nat
  BY RunnerFacts DEF CallInv, CallTypes, Applying
<1>2. /\ log' \in Seq(Request) /\ Generation' = Generation + 1
      /\ \A g \in 1 .. Generation : log'[g] = log[g]
      /\ log'[Generation + 1] = req
      /\ \A g \in 0 .. Generation :
            PositionAt(g)' = PositionAt(g) /\ ClosedAt(g)' = ClosedAt(g)
  BY <1>1, AppendKeeps DEF Publish
<1>3. LogGrows BY <1>1 DEF Publish, LogGrows
<1>4. /\ CallTypes' /\ pc'[r] = label /\ \A q \in Runner : q # r => pc'[q] = pc[q]
  <2>1. label \in Applying BY DEF Applying
  <2> QED BY <1>1, <2>1, GotoTypes
<1>5. /\ published' \in [Runner -> SUBSET Nat]
      /\ published'[r] = published[r] \cup {Generation + 1}
      /\ \A q \in Runner : q # r => published'[q] = published[q]
  BY <1>1, RunnerFacts DEF Publish
<1>6. TypeOK' BY <1>2, <1>4, <1>5, RunnerFacts DEF TypeOK, CallTypes
<1>7. /\ req.generation = Generation /\ req.position = PositionAt(Generation)
      /\ req.position = from[r] + processed[r] /\ processed[r] < Cap[r]
      /\ req.position \in Nat /\ req.count \in Nat
      /\ \/ /\ req.cause = "wave" /\ req.count > 0 /\ Admissible(req.position, req.count)
            /\ req.position + req.count <= RecordCount /\ processed[r] + req.count <= Cap[r]
         \/ req.cause = "eof" /\ req.count = 0 /\ req.position = RecordCount
  BY <1>1 DEF WellAsked, Request
<1>8. ASSUME NEW g, g = Generation + 1 PROVE PositionAt(g)' = req.position + req.count
  BY <1>1, <1>2, <1>8 DEF PositionAt
<1>9. DOMAIN log = 1 .. Generation /\ DOMAIN log' = 1 .. Generation + 1
  BY <1>1, <1>2 DEF Generation
<1>10. HoldsFilePrefix' /\ \A g \in DOMAIN log' : log'[g].cause \in {"wave", "eof"}
  <2>1. RecordCount \in Nat BY RecordCountIsNat
  <2>2. ASSUME NEW g \in DOMAIN log'
        PROVE  /\ log'[g].generation = g - 1
               /\ log'[g].position = PositionAt(g - 1)'
               /\ log'[g].cause = "wave" =>
                     log'[g].count > 0 /\ Admissible(log'[g].position, log'[g].count)
               /\ log'[g].cause = "eof" =>
                     log'[g].count = 0 /\ log'[g].position = RecordCount /\ g = Len(log')
               /\ log'[g].cause \in {"wave", "eof"}
    <3>1. CASE g = Generation + 1
      <4>1. g - 1 = Generation /\ g - 1 \in 0 .. Generation /\ g = Len(log')
        BY <1>1, <1>2, <3>1 DEF Generation
      <4>2. PositionAt(g - 1)' = PositionAt(Generation) BY <1>1, <1>2, <4>1
      <4> QED BY <1>2, <1>7, <3>1, <4>1, <4>2
    <3>2. CASE g # Generation + 1
      <4>1. g \in 1 .. Generation /\ g - 1 \in 0 .. Generation /\ g \in DOMAIN log
        BY <1>1, <1>9, <3>2
      <4>2. log'[g] = log[g] /\ PositionAt(g - 1)' = PositionAt(g - 1) BY <1>2, <4>1
      <4>3. log[g].cause # "eof"
        <5>1. log[g].cause = "eof" => g = Generation
          BY <4>1 DEF RunnerInv, HoldsFilePrefix, Generation
        <5> QED BY <1>1, <4>1, <5>1 DEF ClosedAt
      <4> QED BY <4>1, <4>2, <4>3 DEF RunnerInv, HoldsFilePrefix
    <3> QED BY <3>1, <3>2
  <2>3. PositionAt(Generation)' = req.position + req.count
    <3>1. PICK g : g = Generation + 1 OBVIOUS
    <3>2. PositionAt(Generation)' = PositionAt(g)' BY <1>2, <3>1 DEF PositionAt
    <3> QED BY <1>8, <3>1, <3>2
  <2>4. PositionAt(Generation)' <= RecordCount BY <1>7, <2>1, <2>3
  <2> QED BY <2>2, <2>4 DEF HoldsFilePrefix
<1>11. CallInv(r)'
  <2>1. WellAsked(r)' BY <1>1, <1>3, RequestSurvives
  <2>2. published'[r] \subseteq 1 .. Generation' BY <1>1, <1>2, <1>5
  <2> QED BY <1>4, <2>1, <2>2 DEF CallInv
<1>12. CapOf(r)'
  <2> SUFFICES ASSUME NEW g \in published'[r]
               PROVE  /\ from[r] <= log'[g].position /\ PositionAt(g)' <= from[r] + Cap[r]
                      /\ log'[g].cause = "eof" => PositionAt(g)' < from[r] + Cap[r]
    BY DEF CapOf
  <2>1. CASE g = Generation + 1
    <3>1. log'[g] = req BY <1>2, <2>1
    <3>2. PositionAt(g)' = req.position + req.count BY <1>8, <2>1
    <3>3. from[r] <= req.position /\ req.position + req.count <= from[r] + Cap[r]
      BY <1>1, <1>7
    <3>4. req.cause = "eof" => req.position + req.count < from[r] + Cap[r]
      BY <1>1, <1>7
    <3> QED BY <3>1, <3>2, <3>3, <3>4
  <2>2. CASE g # Generation + 1
    <3>1. g \in published[r] /\ g \in 1 .. Generation /\ g \in 0 .. Generation
      BY <1>1, <1>5, <2>2
    <3>2. CapOf(r) BY RunnerFacts
    <3> QED BY <1>2, <3>1, <3>2 DEF CapOf
  <2> QED BY <2>1, <2>2
<1>13. ReturnOf(r)' BY <1>4 DEF ReturnOf
<1>14. point'[r] <= Generation'
  <2>1. point[r] <= Generation /\ point[r] \in Nat BY <1>1 DEF RunnerInv, CallTypes
  <2> QED BY <1>1, <1>2, <2>1
<1>15. ASSUME NEW q \in Runner
       PROVE  CallInv(q)' /\ CapOf(q)' /\ ReturnOf(q)' /\ point'[q] <= Generation'
  <2>1. CASE q = r BY <1>11, <1>12, <1>13, <1>14, <2>1
  <2>2. CASE q # r BY <1>3, <1>4, <1>5, <2>2, CallSurvives
  <2> QED BY <2>1, <2>2
<1>16. CapRespected' /\ ReturnsHold'
  BY <1>15 DEF CapRespected, ReturnsHold, CapOf, ReturnOf
<1> QED BY <1>6, <1>10, <1>15, <1>16 DEF RunnerInv

LEMMA CommitKeeps ==
    ASSUME RunnerInv, NEW r \in Runner, Commit(r)
    PROVE  RunnerInv'
<1>1. /\ pc[r] = "commit" /\ pc[r] \in Applying /\ faults' \in 0 .. MaxFaults
      /\ UNCHANGED <<request, processed, point, answer, from>>
  BY RunnerFacts DEF Commit, Applying
<1>2. CASE Generation = request[r].generation /\ Goto(r, "confirm") /\ Publish(r)
  BY <1>1, <1>2, PublishKeeps
<1>3. CASE \E label \in {"confirm", "inspect"} : Goto(r, label) /\ UNCHANGED <<log, published>>
  BY <1>1, <1>3, GotoKeeps DEF Applying
<1> QED BY <1>2, <1>3 DEF Commit

LEMMA CommitUnacknowledgedKeeps ==
    ASSUME RunnerInv, NEW r \in Runner, CommitUnacknowledged(r)
    PROVE  RunnerInv'
<1>1. faults' \in 0 .. MaxFaults
  BY RunnerFacts DEF CommitUnacknowledged
<1> QED BY <1>1, PublishKeeps DEF CommitUnacknowledged

LEMMA ApplyFailsKeeps ==
    ASSUME RunnerInv, NEW r \in Runner, ApplyFails(r)
    PROVE  RunnerInv'
<1>1. faults' \in 0 .. MaxFaults
  BY RunnerFacts DEF ApplyFails
<1>2. pc[r] \in Applying /\ "inspect" \in Applying BY DEF ApplyFails, Applying
<1> QED BY <1>1, <1>2, GotoKeeps DEF ApplyFails

\* A call that ends in an exception or with its receipt found.
LEMMA EndAsItIsKeeps ==
    ASSUME RunnerInv, NEW r \in Runner, NEW how \in {"returned", "reconciled", "raised"},
           End(r, how), how = "returned" => ClosedAt(Generation),
           UNCHANGED <<log, processed, published, from>>, faults' \in 0 .. MaxFaults
    PROVE  RunnerInv'
<1>1. CapOf(r) /\ published[r] \subseteq 1 .. Generation BY RunnerFacts DEF CallInv
<1>2. CapOf(r)' BY <1>1 DEF CapOf, PositionAt
<1> QED BY <1>1, <1>2, RunnerFacts, EndKeeps

LEMMA InspectKeeps ==
    ASSUME RunnerInv, NEW r \in Runner, Inspect(r)
    PROVE  RunnerInv'
<1>1. \E how \in {"reconciled", "raised"} : End(r, how) BY DEF Inspect
<1> QED BY <1>1, RunnerFacts, EndAsItIsKeeps DEF Inspect

LEMMA StopKeeps ==
    ASSUME RunnerInv, NEW r \in Runner, Stop(r)
    PROVE  RunnerInv'
<1>1. faults' \in 0 .. MaxFaults BY RunnerFacts DEF Stop
<1> QED BY <1>1, EndAsItIsKeeps DEF Stop

LEMMA ConfirmKeeps ==
    ASSUME RunnerInv, NEW r \in Runner, Confirm(r)
    PROVE  RunnerInv'
<1> DEFINE req == request[r]
<1>1. UNCHANGED <<log, published, from, faults>> /\ faults' \in 0 .. MaxFaults /\ pc[r] = "confirm"
  BY RunnerFacts DEF Confirm
<1>2. CASE req.cause = "eof"
  <2>1. /\ \E how \in {"returned", "raised"} :
              End(r, how) /\ (how = "returned" => ClosedAt(Generation))
        /\ UNCHANGED processed
    BY <1>2 DEF Confirm
  <2> QED BY <1>1, <2>1, EndAsItIsKeeps
<1>3. CASE req.cause # "eof" /\ PositionAt(Generation) # req.position + req.count
  <2>1. End(r, "raised") /\ UNCHANGED processed BY <1>3 DEF Confirm
  <2> QED BY <1>1, <2>1, EndAsItIsKeeps
<1>4. CASE req.cause # "eof" /\ PositionAt(Generation) = req.position + req.count
  <2>1. /\ processed' = [processed EXCEPT ![r] = @ + req.count]
        /\ Turn(r, processed[r] + req.count)
    BY <1>4 DEF Confirm
  <2>2. /\ req.position = from[r] + processed[r] /\ processed[r] + req.count <= Cap[r]
        /\ req.count \in Nat /\ processed[r] \in Nat /\ from[r] \in Nat
        /\ published[r] \subseteq 1 .. Generation
    BY <1>1, <1>4, RunnerFacts DEF CallInv, WellAsked, Applying, CallTypes, Request
  <2>3. /\ processed' \in [Runner -> Nat] /\ processed'[r] = processed[r] + req.count
        /\ \A q \in Runner : q # r => processed'[q] = processed[q]
    BY <2>1, <2>2, RunnerFacts
  <2>4. processed[r] + req.count \in Nat BY <2>2
  <2>5. PositionAt(Generation) = from'[r] + (processed[r] + req.count) BY <1>1, <1>4, <2>2
  <2>6. CapOf(r)'
    <3>1. CapOf(r) BY RunnerFacts
    <3> QED BY <1>1, <3>1 DEF CapOf, PositionAt
  <2>7. published' \in [Runner -> SUBSET Nat] /\ from' \in [Runner -> Nat]
        /\ published'[r] \subseteq 1 .. Generation
    BY <1>1, <2>2, RunnerFacts
  <2> QED BY <1>1, <2>1, <2>2, <2>3, <2>4, <2>5, <2>6, <2>7, TurnKeeps
<1> QED BY <1>2, <1>3, <1>4

-----------------------------------------------------------------------------

LEMMA RunnerInitHolds ==
    ASSUME Init
    PROVE  RunnerInv
<1>1. Generation = 0 /\ PositionAt(Generation) = 0 /\ DOMAIN log = {}
  BY DEF Init, Generation, PositionAt
<1>2. NoRequest \in Request /\ MaxFaults \in Nat /\ RecordCount \in Nat
  BY RunnerAssumption, RecordCountIsNat DEF NoRequest, Request
<1>3. TypeOK BY <1>2 DEF Init, TypeOK
<1>4. HoldsFilePrefix BY <1>1, <1>2 DEF HoldsFilePrefix
<1>5. CapRespected /\ ReturnsHold BY DEF Init, CapRespected, ReturnsHold
<1>6. \A r \in Runner : CallInv(r) /\ point[r] <= Generation
  BY <1>1 DEF Init, CallInv, Applying
<1> QED BY <1>1, <1>3, <1>4, <1>5, <1>6 DEF RunnerInv

LEMMA RunnerStepKeeps ==
    ASSUME RunnerInv, NEW r \in Runner, RunnerStep(r)
    PROVE  RunnerInv'
<1>1. CASE Start(r) BY <1>1, StartKeeps
<1>2. CASE Lookup(r) BY <1>2, LookupKeeps
<1>3. CASE Commit(r) BY <1>3, CommitKeeps
<1>4. CASE Inspect(r) BY <1>4, InspectKeeps
<1>5. CASE Confirm(r) BY <1>5, ConfirmKeeps
<1>6. CASE CommitUnacknowledged(r) BY <1>6, CommitUnacknowledgedKeeps
<1>7. CASE ApplyFails(r) BY <1>7, ApplyFailsKeeps
<1>8. CASE Stop(r) BY <1>8, StopKeeps
<1> QED BY <1>1, <1>2, <1>3, <1>4, <1>5, <1>6, <1>7, <1>8 DEF RunnerStep, Continue

LEMMA RunnersRest ==
    ASSUME RunnerInv, UNCHANGED runnerVars
    PROVE  RunnerInv'
<1>1. /\ log' = log /\ pc' = pc /\ request' = request /\ processed' = processed
      /\ point' = point /\ answer' = answer /\ published' = published /\ from' = from
      /\ faults' = faults
  BY DEF runnerVars
<1>2. TypeOK' BY <1>1 DEF RunnerInv, TypeOK
<1>3. HoldsFilePrefix' /\ \A g \in DOMAIN log' : log'[g].cause \in {"wave", "eof"}
  <2>1. Generation' = Generation /\ PositionAt(Generation)' = PositionAt(Generation)
    BY <1>1 DEF Generation, PositionAt
  <2>2. \A g \in DOMAIN log : PositionAt(g - 1)' = PositionAt(g - 1) BY <1>1 DEF PositionAt
  <2> QED BY <1>1, <2>1, <2>2 DEF RunnerInv, HoldsFilePrefix
<1>4. ASSUME NEW q \in Runner
      PROVE  CallInv(q)' /\ CapOf(q)' /\ ReturnOf(q)' /\ point'[q] <= Generation'
  BY <1>1, CallSurvives DEF LogGrows
<1>5. CapRespected' /\ ReturnsHold' BY <1>4 DEF CapRespected, ReturnsHold, CapOf, ReturnOf
<1> QED BY <1>2, <1>3, <1>4, <1>5 DEF RunnerInv

-----------------------------------------------------------------------------
(***************************************************************************)
(* The publishers.                                                         *)
(***************************************************************************)
Header == [journal : {"none", "ours", "foreign"}, anchor : Nat, stop : Nat]

\* The places of a publisher that has the lock.
Locked == {"capture", "inspect", "replace", "release"}

SinkTypes ==
    /\ at \in [Publisher -> {"idle", "locking"} \cup Locked]
    /\ cursor \in [Publisher -> Header] /\ file \in Header
    /\ outcome \in [Publisher -> {"none", "returned", "raised"}]

\* A header names what its journal has at that generation.
HeaderIsTrue(h) ==
    /\ h.journal = "ours" => h.anchor \in 0 .. Generation /\ h.stop = StopAt(h.anchor)
    /\ h.journal = "foreign" => h.anchor = 1 /\ h.stop = 1
    /\ h.journal = "none" => h = NoFile

\* The file and what the holder of the lock captured.
CursorInv(p) ==
    /\ HeaderIsTrue(cursor[p])
    /\ at[p] \in {"inspect", "replace", "release"} => cursor[p].journal # "none"
    /\ at[p] \in {"inspect", "replace"} /\ file.journal = cursor[p].journal =>
          file.anchor <= cursor[p].anchor
    /\ at[p] = "replace" /\ file # NoFile =>
          file.journal = cursor[p].journal /\ file.stop < cursor[p].stop
    /\ at[p] = "release" => file = cursor[p]
    /\ outcome[p] = "returned" /\ at[p] = "idle" =>
          /\ cursor[p].journal # "none"
          /\ file.journal = cursor[p].journal /\ file.stop >= cursor[p].stop

LockIsExact == \A p \in Publisher : (holder = p) = (at[p] \in Locked)

SinkInv ==
    /\ SinkTypes /\ LockIsExact /\ HeaderIsTrue(file)
    /\ \A p \in Publisher : CursorInv(p)

-----------------------------------------------------------------------------

\* The positions of the journal's generations only grow.
LEMMA PositionsGrow ==
    ASSUME RunnerInv, NEW g \in 0 .. Generation, NEW h \in 0 .. Generation, g <= h
    PROVE  /\ PositionAt(g) \in Nat /\ PositionAt(h) \in Nat
           /\ PositionAt(g) <= PositionAt(h)
<1>1. log \in Seq(Request) /\ Generation \in Nat BY DEF RunnerInv, TypeOK, Generation
<1>2. \A k \in 0 .. Generation : PositionAt(k) \in Nat BY <1>1, PositionIsNat
<1>3. \A k \in 1 .. Generation : PositionAt(k - 1) <= PositionAt(k)
  <2> SUFFICES ASSUME NEW k \in 1 .. Generation PROVE PositionAt(k - 1) <= PositionAt(k)
    OBVIOUS
  <2>1. k \in DOMAIN log /\ k - 1 \in 0 .. Generation /\ k # 0 BY <1>1 DEF Generation
  <2>2. log[k].position = PositionAt(k - 1) BY <2>1 DEF RunnerInv, HoldsFilePrefix
  <2>3. log[k].count \in Nat
    <3>1. log[k] \in Request BY <1>1, <2>1
    <3> QED BY <3>1 DEF Request
  <2>4. PositionAt(k) = log[k].position + log[k].count BY <2>1 DEF PositionAt
  <2> QED BY <1>2, <2>1, <2>2, <2>3, <2>4
<1> DEFINE T == {k \in Nat : k >= g /\ k <= Generation /\ ~ (PositionAt(g) <= PositionAt(k))}
<1>4. T = {}
  <2> SUFFICES ASSUME T # {} PROVE FALSE OBVIOUS
  <2>1. PICK m \in T : \A n \in T : m <= n BY LeastNatural
  <2>2. m # g BY <1>2, <2>1
  <2>3. m - 1 \in Nat /\ m - 1 >= g /\ m - 1 <= Generation /\ m \in 1 .. Generation
    BY <1>1, <2>1, <2>2
  <2>4. m - 1 \notin T BY <2>1, <2>3
  <2>5. PositionAt(g) <= PositionAt(m - 1) BY <2>3, <2>4
  <2>6. m - 1 \in 0 .. Generation /\ m \in 0 .. Generation BY <1>1, <2>3
  <2>7. PositionAt(g) <= PositionAt(m) BY <1>2, <1>3, <2>3, <2>5, <2>6
  <2> QED BY <2>1, <2>7
<1>5. h \in Nat /\ h >= g /\ h <= Generation BY <1>1
<1>6. PositionAt(g) <= PositionAt(h) BY <1>4, <1>5
<1> QED BY <1>2, <1>6

\* A later generation has all the rows of an earlier one.
LEMMA StopsGrow ==
    ASSUME RunnerInv, NEW g \in 0 .. Generation, NEW h \in 0 .. Generation, g <= h
    PROVE  StopAt(g) \in Nat /\ StopAt(h) \in Nat /\ StopAt(g) <= StopAt(h)
<1>1. Generation \in Nat BY DEF RunnerInv, TypeOK, Generation
<1>2. RecordCount \in Nat /\ RecordCount = Len(Weight) BY RecordCountIsNat DEF RecordCount
<1>3. PositionAt(Generation) <= RecordCount BY DEF RunnerInv, HoldsFilePrefix
<1>4. /\ PositionAt(g) \in Nat /\ PositionAt(h) \in Nat /\ PositionAt(Generation) \in Nat
      /\ PositionAt(g) <= PositionAt(h) /\ PositionAt(h) <= PositionAt(Generation)
  BY <1>1, PositionsGrow
<1>5. PositionAt(g) \in 0 .. Len(Weight) /\ PositionAt(h) \in 0 .. Len(Weight)
  BY <1>2, <1>3, <1>4
<1> QED BY <1>4, <1>5, PublicationAssumption DEF StopAt

\* What is said of a header stays true when the journal grows.
LEMMA HeaderSurvives ==
    ASSUME RunnerInv, LogGrows, NEW h, HeaderIsTrue(h)
    PROVE  HeaderIsTrue(h)'
<1>1. log \in Seq(Request) BY DEF RunnerInv, TypeOK
<1>2. CASE h.journal = "ours"
  <2>1. PICK g \in 0 .. Generation : g = h.anchor BY <1>2 DEF HeaderIsTrue
  <2>2. PositionAt(g)' = PositionAt(g) /\ g \in 0 .. Generation' BY <1>1, HistorySurvives
  <2>3. StopAt(h.anchor)' = StopAt(h.anchor) BY <2>1, <2>2 DEF StopAt
  <2> QED BY <1>2, <2>1, <2>2, <2>3 DEF HeaderIsTrue
<1>3. CASE h.journal # "ours" BY <1>3 DEF HeaderIsTrue
<1> QED BY <1>2, <1>3

\* A runner's step appends at most one receipt.
LEMMA RunnersAppend ==
    ASSUME RunnerInv, NEW r \in Runner, RunnerStep(r)
    PROVE  LogGrows
<1>1. request[r] \in Request BY DEF RunnerInv, TypeOK
<1>2. CASE log' = log BY <1>2 DEF LogGrows
<1>3. CASE Publish(r) BY <1>1, <1>3 DEF Publish, LogGrows
<1>4. log' = log \/ Publish(r)
  BY DEF RunnerStep, Continue, Start, Lookup, Commit, Inspect, Confirm, CommitUnacknowledged,
         ApplyFails, Stop
<1> QED BY <1>2, <1>3, <1>4

-----------------------------------------------------------------------------

LEMMA MoveTypes ==
    ASSUME SinkTypes, NEW p \in Publisher, NEW label \in {"idle", "locking"} \cup Locked,
           Move(p, label)
    PROVE  /\ at' \in [Publisher -> {"idle", "locking"} \cup Locked]
           /\ at'[p] = label
           /\ \A q \in Publisher : q # p => at'[q] = at[q]
BY DEF SinkTypes, Move

LEMMA LeaveTypes ==
    ASSUME SinkTypes, LockIsExact, NEW p \in Publisher, NEW how \in {"returned", "raised"},
           Leave(p, how), UNCHANGED <<cursor, file>>
    PROVE  /\ SinkTypes' /\ LockIsExact'
           /\ at'[p] = "idle" /\ outcome'[p] = how
           /\ \A q \in Publisher : q # p => at'[q] = at[q] /\ outcome'[q] = outcome[q]
<1>1. /\ at' \in [Publisher -> {"idle", "locking"} \cup Locked]
      /\ at'[p] = "idle" /\ \A q \in Publisher : q # p => at'[q] = at[q]
  BY MoveTypes DEF Leave
<1>2. /\ outcome' \in [Publisher -> {"none", "returned", "raised"}]
      /\ outcome'[p] = how /\ \A q \in Publisher : q # p => outcome'[q] = outcome[q]
  BY DEF Leave, SinkTypes
<1>3. "idle" \notin Locked BY DEF Locked
<1>4. Free \notin Publisher BY PublicationAssumption
<1>5. LockIsExact' BY <1>1, <1>3, <1>4 DEF LockIsExact, Leave
<1> QED BY <1>1, <1>2, <1>5 DEF SinkTypes

\* A step of one publisher that leaves the file keeps what concerns the others.
LEMMA PublisherKeeps ==
    ASSUME RunnerInv, SinkInv, NEW p \in Publisher, log' = log, file' = file,
           \A q \in Publisher : q # p =>
               at'[q] = at[q] /\ cursor'[q] = cursor[q] /\ outcome'[q] = outcome[q],
           SinkTypes', LockIsExact', CursorInv(p)'
    PROVE  SinkInv'
<1>1. LogGrows BY DEF LogGrows
<1>2. HeaderIsTrue(file)'
  <2>1. PICK h : h = file OBVIOUS
  <2>2. HeaderIsTrue(h)' BY <1>1, <2>1, HeaderSurvives DEF SinkInv
  <2> QED BY <2>1, <2>2 DEF HeaderIsTrue
<1>3. ASSUME NEW q \in Publisher PROVE CursorInv(q)'
  <2>1. CASE q = p BY <2>1
  <2>2. CASE q # p
    <3>1. PICK h : h = cursor[q] OBVIOUS
    <3>2. HeaderIsTrue(h)' BY <1>1, <3>1, HeaderSurvives DEF SinkInv, CursorInv
    <3>3. HeaderIsTrue(cursor[q])' BY <2>2, <3>1, <3>2 DEF HeaderIsTrue
    <3> QED BY <2>2, <3>3 DEF SinkInv, CursorInv
  <2> QED BY <2>1, <2>2
<1> QED BY <1>2, <1>3 DEF SinkInv

\* What a publisher knew of its capture, where log and cursor stay.
LEMMA CursorStaysTrue ==
    ASSUME SinkInv, NEW p \in Publisher, log' = log, cursor'[p] = cursor[p]
    PROVE  HeaderIsTrue(cursor[p])'
BY DEF SinkInv, CursorInv, HeaderIsTrue, StopAt, PositionAt, Generation

LEMMA BeginKeeps ==
    ASSUME RunnerInv, SinkInv, NEW p \in Publisher, Begin(p), log' = log
    PROVE  SinkInv'
<1>1. /\ at' \in [Publisher -> {"idle", "locking"} \cup Locked] /\ at'[p] = "locking"
      /\ \A q \in Publisher : q # p => at'[q] = at[q]
  BY MoveTypes DEF Begin, SinkInv
<1>2. at[p] = "idle" /\ UNCHANGED <<cursor, file, holder, outcome>> BY DEF Begin
<1>3. "idle" \notin Locked /\ "locking" \notin Locked BY DEF Locked
<1>4. SinkTypes' /\ LockIsExact' BY <1>1, <1>2, <1>3 DEF SinkInv, SinkTypes, LockIsExact
<1>5. CursorInv(p)' BY <1>1, <1>2, CursorStaysTrue DEF CursorInv
<1> QED BY <1>1, <1>2, <1>4, <1>5, PublisherKeeps

LEMMA LockKeeps ==
    ASSUME RunnerInv, SinkInv, NEW p \in Publisher, Lock(p), log' = log
    PROVE  SinkInv'
<1>1. "capture" \in Locked /\ "locking" \notin Locked BY DEF Locked
<1>2. /\ at' \in [Publisher -> {"idle", "locking"} \cup Locked] /\ at'[p] = "capture"
      /\ \A q \in Publisher : q # p => at'[q] = at[q]
  BY <1>1, MoveTypes DEF Lock, SinkInv
<1>3. at[p] = "locking" /\ holder = Free /\ holder' = p /\ UNCHANGED <<cursor, file, outcome>>
  BY DEF Lock
<1>4. Free \notin Publisher BY PublicationAssumption
<1>5. SinkTypes' /\ LockIsExact'
  BY <1>1, <1>2, <1>3, <1>4 DEF SinkInv, SinkTypes, LockIsExact
<1>6. CursorInv(p)' BY <1>2, <1>3, CursorStaysTrue DEF CursorInv
<1> QED BY <1>2, <1>3, <1>5, <1>6, PublisherKeeps

\* A call that fails leaves everything but the lock.
LEMMA FailureKeeps ==
    ASSUME RunnerInv, SinkInv, NEW p \in Publisher, Leave(p, "raised"),
           UNCHANGED <<log, cursor, file>>
    PROVE  SinkInv'
<1>1. /\ SinkTypes' /\ LockIsExact' /\ at'[p] = "idle" /\ outcome'[p] = "raised"
      /\ \A q \in Publisher : q # p => at'[q] = at[q] /\ outcome'[q] = outcome[q]
  BY LeaveTypes DEF SinkInv
<1>2. CursorInv(p)' BY <1>1, CursorStaysTrue DEF CursorInv
<1> QED BY <1>1, <1>2, PublisherKeeps

LEMMA CaptureKeeps ==
    ASSUME RunnerInv, SinkInv, NEW p \in Publisher, CapturePrefix(p), log' = log
    PROVE  SinkInv'
<1>1. "capture" \in Locked /\ "inspect" \in Locked BY DEF Locked
<1>2. /\ at' \in [Publisher -> {"idle", "locking"} \cup Locked] /\ at'[p] = "inspect"
      /\ \A q \in Publisher : q # p => at'[q] = at[q]
  BY <1>1, MoveTypes DEF CapturePrefix, SinkInv
<1>3. at[p] = "capture" /\ UNCHANGED <<file, holder, outcome>> BY DEF CapturePrefix
<1>4. Generation \in Nat /\ Generation' = Generation BY DEF RunnerInv, TypeOK, Generation
<1>5. StopAt(Generation) \in Nat BY <1>4, StopsGrow
<1>6. Captured(p) \in Header /\ Captured(p).journal # "none" /\ HeaderIsTrue(Captured(p))
  BY <1>4, <1>5 DEF Captured, Header, HeaderIsTrue
<1>7. /\ cursor' \in [Publisher -> Header] /\ cursor'[p] = Captured(p)
      /\ \A q \in Publisher : q # p => cursor'[q] = cursor[q]
  BY <1>6 DEF CapturePrefix, SinkInv, SinkTypes
<1>8. SinkTypes' /\ LockIsExact'
  BY <1>1, <1>2, <1>3, <1>7 DEF SinkInv, SinkTypes, LockIsExact
<1>9. CursorInv(p)'
  <2>1. HeaderIsTrue(cursor[p])'
    <3>1. PICK h : h = Captured(p) OBVIOUS
    <3>2. HeaderIsTrue(h)' BY <1>6, <3>1, HeaderSurvives DEF LogGrows
    <3> QED BY <1>7, <3>1, <3>2 DEF HeaderIsTrue
  <2>2. file.journal = Captured(p).journal => file.anchor <= Captured(p).anchor
    <3>1. HeaderIsTrue(file) BY DEF SinkInv
    <3> QED BY <1>4, <3>1 DEF HeaderIsTrue, Captured
  <2> QED BY <1>2, <1>3, <1>6, <1>7, <2>1, <2>2 DEF CursorInv
<1> QED BY <1>2, <1>3, <1>7, <1>8, <1>9, PublisherKeeps

\* What a publisher finds is the prefix of its own capture or another journal's.
LEMMA PreviousIsBehind ==
    ASSUME RunnerInv, SinkInv, NEW p \in Publisher, at[p] = "inspect",
           file.journal = cursor[p].journal
    PROVE  file.stop <= cursor[p].stop
<1>1. CursorInv(p) /\ HeaderIsTrue(file) BY DEF SinkInv
<1>2. HeaderIsTrue(cursor[p]) /\ file.anchor <= cursor[p].anchor /\ cursor[p].journal # "none"
  BY <1>1 DEF CursorInv
<1>3. file \in Header /\ cursor[p] \in Header BY DEF SinkInv, SinkTypes
<1>4. CASE file.journal = "ours"
  <2>1. /\ file.anchor \in 0 .. Generation /\ file.stop = StopAt(file.anchor)
        /\ cursor[p].anchor \in 0 .. Generation /\ cursor[p].stop = StopAt(cursor[p].anchor)
    BY <1>1, <1>2, <1>4 DEF HeaderIsTrue
  <2> QED BY <1>2, <2>1, StopsGrow
<1>5. CASE file.journal = "foreign" BY <1>1, <1>2, <1>5 DEF HeaderIsTrue
<1> QED BY <1>2, <1>3, <1>4, <1>5 DEF Header

LEMMA InspectPreviousKeeps ==
    ASSUME RunnerInv, SinkInv, NEW p \in Publisher, InspectPrevious(p), log' = log
    PROVE  SinkInv'
<1>1. at[p] = "inspect" /\ UNCHANGED <<cursor, file>> BY DEF InspectPrevious
<1>2. /\ CursorInv(p) /\ SinkTypes /\ LockIsExact /\ cursor[p].journal # "none"
      /\ file.stop \in Nat /\ cursor[p].stop \in Nat
  BY <1>1 DEF SinkInv, CursorInv, SinkTypes, Header
<1>3. \/ PreviousOutput(p) = "replace" /\ (file # NoFile =>
            file.journal = cursor[p].journal /\ file.stop < cursor[p].stop)
      \/ PreviousOutput(p) = "refused"
      \/ PreviousOutput(p) = "kept" /\ file.journal = cursor[p].journal
            /\ file.stop = cursor[p].stop
  <2>1. NoFile.journal = "none" BY DEF NoFile
  <2>2. CASE file = NoFile
    <3>1. PreviousOutput(p) = "replace" BY <1>2, <2>1, <2>2 DEF PreviousOutput
    <3> QED BY <2>2, <3>1
  <2>3. CASE file # NoFile /\ file.journal # cursor[p].journal
    <3>1. PreviousOutput(p) = "refused" BY <2>3, Zenon DEF PreviousOutput
    <3> QED BY <3>1
  <2>4. CASE file # NoFile /\ file.journal = cursor[p].journal
    <3>1. file.stop <= cursor[p].stop BY <1>1, <2>4, PreviousIsBehind
    <3>2. CASE file.stop = cursor[p].stop
      <4>1. ~ (file.stop > cursor[p].stop) /\ ~ (file.stop < cursor[p].stop) BY <1>2, <3>2
      <4>2. PreviousOutput(p) = "kept" BY <2>4, <3>2, <4>1, Zenon DEF PreviousOutput
      <4> QED BY <2>4, <3>2, <4>2
    <3>3. CASE file.stop < cursor[p].stop
      <4>1. ~ (file.stop > cursor[p].stop) /\ ~ (file.stop = cursor[p].stop) BY <1>2, <3>3
      <4>2. PreviousOutput(p) = "replace" BY <2>4, <3>3, <4>1, Zenon DEF PreviousOutput
      <4> QED BY <2>4, <3>3, <4>2
    <3> QED BY <1>2, <3>1, <3>2, <3>3
  <2> QED BY <2>2, <2>3, <2>4
<1>4. CASE PreviousOutput(p) = "refused"
  <2>1. Leave(p, "raised") BY <1>4 DEF InspectPrevious
  <2> QED BY <1>1, <2>1, FailureKeeps
<1>5. CASE PreviousOutput(p) = "kept"
  <2>1. Leave(p, "returned") BY <1>5 DEF InspectPrevious
  <2>2. /\ SinkTypes' /\ LockIsExact' /\ at'[p] = "idle" /\ outcome'[p] = "returned"
        /\ \A q \in Publisher : q # p => at'[q] = at[q] /\ outcome'[q] = outcome[q]
    BY <1>1, <1>2, <2>1, LeaveTypes
  <2>3. file.journal = cursor[p].journal /\ file.stop >= cursor[p].stop BY <1>2, <1>3, <1>5
  <2>4. CursorInv(p)' BY <1>1, <1>2, <2>2, <2>3, CursorStaysTrue DEF CursorInv
  <2> QED BY <1>1, <2>2, <2>4, PublisherKeeps
<1>6. CASE PreviousOutput(p) = "replace"
  <2>1. Move(p, "replace") /\ UNCHANGED <<holder, outcome>> BY <1>6 DEF InspectPrevious
  <2>2. "inspect" \in Locked /\ "replace" \in Locked BY DEF Locked
  <2>3. /\ at' \in [Publisher -> {"idle", "locking"} \cup Locked] /\ at'[p] = "replace"
        /\ \A q \in Publisher : q # p => at'[q] = at[q]
    BY <1>2, <2>1, <2>2, MoveTypes
  <2>4. SinkTypes' /\ LockIsExact'
    BY <1>1, <1>2, <2>1, <2>2, <2>3 DEF SinkTypes, LockIsExact
  <2>5. CursorInv(p)' BY <1>1, <1>2, <1>3, <1>6, <2>1, <2>3, CursorStaysTrue DEF CursorInv
  <2> QED BY <1>1, <2>1, <2>3, <2>4, <2>5, PublisherKeeps
<1> QED BY <1>3, <1>4, <1>5, <1>6

\* The holder replaces the file by a later prefix of the same journal.
LEMMA ReplaceMovesForward ==
    ASSUME RunnerInv, SinkInv, NEW p \in Publisher, Replace(p), file # NoFile
    PROVE  /\ file'.journal = file.journal /\ file'.anchor >= file.anchor
           /\ file'.stop > file.stop
<1>1. at[p] = "replace" /\ file' = cursor[p] /\ CursorInv(p) BY DEF Replace, SinkInv
<1>2. file \in Header /\ cursor[p] \in Header BY DEF SinkInv, SinkTypes
<1>3. /\ file.journal = cursor[p].journal /\ file.stop < cursor[p].stop
      /\ file.anchor <= cursor[p].anchor
  BY <1>1 DEF CursorInv
<1> QED BY <1>1, <1>2, <1>3 DEF Header

LEMMA ReplaceKeeps ==
    ASSUME RunnerInv, SinkInv, NEW p \in Publisher, Replace(p), log' = log
    PROVE  SinkInv'
<1>1. "replace" \in Locked /\ "release" \in Locked /\ "idle" \notin Locked BY DEF Locked
<1>2. /\ at' \in [Publisher -> {"idle", "locking"} \cup Locked] /\ at'[p] = "release"
      /\ \A q \in Publisher : q # p => at'[q] = at[q]
  BY <1>1, MoveTypes DEF Replace, SinkInv
<1>3. at[p] = "replace" /\ file' = cursor[p] /\ UNCHANGED <<cursor, holder, outcome>>
  BY DEF Replace
<1>4. SinkTypes' /\ LockIsExact'
  BY <1>1, <1>2, <1>3 DEF SinkInv, SinkTypes, LockIsExact
<1>5. CursorInv(p) /\ cursor[p].journal # "none" BY <1>3 DEF SinkInv, CursorInv
<1>6. HeaderIsTrue(file)'
  BY <1>3, <1>5 DEF CursorInv, HeaderIsTrue, StopAt, PositionAt, Generation
<1>7. ASSUME NEW q \in Publisher PROVE CursorInv(q)'
  <2>1. HeaderIsTrue(cursor[q])' BY <1>3, CursorStaysTrue
  <2>2. CASE q = p BY <1>2, <1>3, <1>5, <2>1, <2>2 DEF CursorInv
  <2>3. CASE q # p
    <3>1. at[q] \notin Locked BY <1>1, <1>3, <2>3 DEF SinkInv, LockIsExact
    <3>2. CASE outcome[q] = "returned" /\ at[q] = "idle"
      <4>1. /\ cursor[q].journal # "none"
            /\ file.journal = cursor[q].journal /\ file.stop >= cursor[q].stop
        BY <3>2 DEF SinkInv, CursorInv
      <4>2. file # NoFile BY <4>1 DEF NoFile
      <4>3. file'.journal = file.journal /\ file'.stop > file.stop BY <4>2, ReplaceMovesForward
      <4>4. file.stop \in Nat /\ file'.stop \in Nat /\ cursor[q].stop \in Nat
        BY <1>4 DEF SinkInv, SinkTypes, Header
      <4>5. file'.stop >= cursor[q].stop BY <4>1, <4>3, <4>4
      <4> QED BY <1>2, <1>3, <2>1, <2>3, <3>1, <4>1, <4>3, <4>5 DEF CursorInv, Locked
    <3>3. CASE ~ (outcome[q] = "returned" /\ at[q] = "idle")
      BY <1>2, <1>3, <2>1, <2>3, <3>1, <3>3 DEF CursorInv, Locked
    <3> QED BY <3>2, <3>3
  <2> QED BY <2>2, <2>3
<1> QED BY <1>4, <1>6, <1>7 DEF SinkInv

LEMMA ReleaseKeeps ==
    ASSUME RunnerInv, SinkInv, NEW p \in Publisher, Release(p), log' = log
    PROVE  SinkInv'
<1>1. at[p] = "release" /\ Leave(p, "returned") /\ UNCHANGED <<cursor, file>> BY DEF Release
<1>2. /\ SinkTypes' /\ LockIsExact' /\ at'[p] = "idle" /\ outcome'[p] = "returned"
      /\ \A q \in Publisher : q # p => at'[q] = at[q] /\ outcome'[q] = outcome[q]
  BY <1>1, LeaveTypes DEF SinkInv
<1>3. file = cursor[p] /\ cursor[p].journal # "none" /\ cursor[p].stop \in Nat
  BY <1>1 DEF SinkInv, CursorInv, SinkTypes, Header
<1>4. CursorInv(p)' BY <1>1, <1>2, <1>3, CursorStaysTrue DEF CursorInv
<1> QED BY <1>1, <1>2, <1>4, PublisherKeeps

LEMMA PublisherStepKeeps ==
    ASSUME RunnerInv, SinkInv, NEW p \in Publisher, PublisherStep(p), log' = log
    PROVE  SinkInv'
<1>1. CASE Begin(p) BY <1>1, BeginKeeps
<1>2. CASE Lock(p) BY <1>2, LockKeeps
<1>3. CASE LockTimesOut(p) BY <1>3, FailureKeeps DEF LockTimesOut
<1>4. CASE CapturePrefix(p) BY <1>4, CaptureKeeps
<1>5. CASE InspectPrevious(p) BY <1>5, InspectPreviousKeeps
<1>6. CASE Replace(p) BY <1>6, ReplaceKeeps
<1>7. CASE Release(p) BY <1>7, ReleaseKeeps
<1>8. CASE StopPublisher(p) BY <1>8, FailureKeeps DEF StopPublisher
<1> QED BY <1>1, <1>2, <1>3, <1>4, <1>5, <1>6, <1>7, <1>8 DEF PublisherStep, GoOn

\* Publishers are not disturbed by what runners append.
LEMMA SinkRests ==
    ASSUME RunnerInv, SinkInv, LogGrows, UNCHANGED sinkVars
    PROVE  SinkInv'
<1>1. UNCHANGED <<at, cursor, file, holder, outcome>> BY DEF sinkVars
<1>2. SinkTypes' /\ LockIsExact' BY <1>1 DEF SinkInv, SinkTypes, LockIsExact
<1>3. HeaderIsTrue(file)'
  <2>1. PICK h : h = file OBVIOUS
  <2>2. HeaderIsTrue(h)' BY <2>1, HeaderSurvives DEF SinkInv
  <2> QED BY <1>1, <2>1, <2>2 DEF HeaderIsTrue
<1>4. ASSUME NEW q \in Publisher PROVE CursorInv(q)'
  <2>1. PICK h : h = cursor[q] OBVIOUS
  <2>2. HeaderIsTrue(h)' BY <2>1, HeaderSurvives DEF SinkInv, CursorInv
  <2>3. HeaderIsTrue(cursor[q])' BY <1>1, <2>1, <2>2 DEF HeaderIsTrue
  <2> QED BY <1>1, <2>3 DEF SinkInv, CursorInv
<1> QED BY <1>2, <1>3, <1>4 DEF SinkInv

-----------------------------------------------------------------------------

PublicationInv == RunnerInv /\ SinkInv

LEMMA PublicationInitHolds ==
    ASSUME PublicationInit
    PROVE  PublicationInv
<1>1. RunnerInv BY RunnerInitHolds DEF PublicationInit
<1>2. NoFile \in Header /\ NoFile.journal = "none" BY DEF NoFile, Header
<1>3. SinkTypes BY <1>2 DEF PublicationInit, SinkInit, SinkTypes
<1>4. LockIsExact
  BY PublicationAssumption DEF PublicationInit, SinkInit, LockIsExact, Locked
<1>5. HeaderIsTrue(NoFile) BY <1>2 DEF HeaderIsTrue
<1>6. file = NoFile BY DEF PublicationInit, SinkInit
<1>7. ASSUME NEW p \in Publisher PROVE CursorInv(p)
  <2>1. cursor[p] = NoFile /\ at[p] = "idle" /\ outcome[p] = "none"
    BY DEF PublicationInit, SinkInit
  <2> QED BY <1>5, <2>1 DEF CursorInv
<1> QED BY <1>1, <1>3, <1>4, <1>5, <1>6, <1>7 DEF PublicationInv, SinkInv

LEMMA PublicationStepKeeps ==
    ASSUME PublicationInv, [PublicationNext]_allVars
    PROVE  PublicationInv'
<1>1. CASE \E r \in Runner : ByRunner(r, RunnerStep)
  <2>1. PICK r \in Runner : RunnerStep(r) /\ UNCHANGED sinkVars BY <1>1 DEF ByRunner
  <2> QED BY <2>1, RunnerStepKeeps, RunnersAppend, SinkRests DEF PublicationInv
<1>2. CASE \E p \in Publisher : ByPublisher(p, PublisherStep)
  <2>1. PICK p \in Publisher : PublisherStep(p) /\ UNCHANGED runnerVars
    BY <1>2 DEF ByPublisher
  <2>2. log' = log BY <2>1 DEF runnerVars
  <2> QED BY <2>1, <2>2, RunnersRest, PublisherStepKeeps DEF PublicationInv
<1>3. CASE UNCHANGED allVars
  <2>1. UNCHANGED runnerVars /\ UNCHANGED sinkVars /\ log' = log
    BY <1>3 DEF allVars, runnerVars, sinkVars
  <2> QED BY <2>1, RunnersRest, SinkRests DEF PublicationInv, LogGrows
<1> QED BY <1>1, <1>2, <1>3 DEF PublicationNext

LEMMA PublicationInvStays ==
    PublicationSpec => []PublicationInv
<1>1. PublicationInit => PublicationInv BY PublicationInitHolds
<1>2. PublicationInv /\ [PublicationNext]_allVars => PublicationInv' BY PublicationStepKeeps
<1> QED BY <1>1, <1>2, PTL DEF PublicationSpec

\* However many processes race in run_file_journal, die and call again, the
\* journal is a prefix of the file, no call exceeds its cap, and a call that
\* returned has reached the end of the file or its cap.
THEOREM JournalStaysFilePrefix ==
    PublicationSpec => []JournalIsFilePrefix
<1>1. PublicationInv => JournalIsFilePrefix
  BY DEF PublicationInv, RunnerInv, JournalIsFilePrefix
<1> QED BY <1>1, PublicationInvStays, PTL

\* A publication whose reply was lost is found again: run_file_journal answers an
\* exception of apply by the receipt it looks up.
THEOREM LostRepliesAreReconciled ==
    PublicationSpec => LostReplyIsReconciled
<1> DEFINE Found ==
        \A r \in Runner :
          /\ pc[r] = "inspect" /\ pc'[r] = "idle" /\ faults' = faults
          /\ \E g \in published[r] : log[g] = request[r]
          => answer'[r] = "reconciled"
<1>1. PublicationInv /\ [PublicationNext]_allVars => [Found]_runnerVars
  <2> SUFFICES ASSUME PublicationInv, PublicationNext, ~ UNCHANGED runnerVars,
                      NEW r \in Runner, pc[r] = "inspect", pc'[r] = "idle", faults' = faults,
                      NEW g \in published[r], log[g] = request[r]
               PROVE  answer'[r] = "reconciled"
    BY DEF allVars, runnerVars
  <2>1. PICK q \in Runner : RunnerStep(q)
    BY DEF PublicationNext, ByRunner, ByPublisher
  <2>2. /\ CallTypes /\ faults \in Nat /\ published[r] \subseteq 1 .. Generation
        /\ log \in Seq(Request)
    BY RunnerFacts DEF PublicationInv, CallInv
  <2>3. q = r
    <3>1. ASSUME q # r PROVE pc'[r] = pc[r]
      BY <2>1, <2>2, <3>1
      DEF RunnerStep, Continue, Start, Turn, Lookup, Commit, Inspect, Confirm, CommitUnacknowledged,
          ApplyFails, Stop, End, Apply, Goto, CallTypes
    <3> QED BY <3>1
  <2>4. Inspect(r)
    BY <2>1, <2>2, <2>3
    DEF RunnerStep, Continue, Start, Lookup, Commit, Confirm, CommitUnacknowledged, ApplyFails, Stop
  <2>5. HasReceipt(request[r]) BY <2>2 DEF HasReceipt, Contains, Generation
  <2> QED BY <2>2, <2>4, <2>5 DEF Inspect, End, CallTypes
<1> QED BY <1>1, PublicationInvStays, PTL DEF PublicationSpec, LostReplyIsReconciled

\* Whoever publishes, at whatever point calls fail and processes die, the file is
\* the rows of one generation of its journal, and what a call of materialize_file
\* returned stays in it.
THEOREM FileStaysPrefix ==
    PublicationSpec => []FileIsPrefix
<1>1. PublicationInv => FileIsPrefix
  <2> SUFFICES ASSUME PublicationInv PROVE FileIsPrefix OBVIOUS
  <2>1. NamesGeneration BY DEF PublicationInv, SinkInv, HeaderIsTrue, NamesGeneration
  <2>2. NeverAhead BY PreviousIsBehind DEF PublicationInv, NeverAhead
  <2> QED BY <2>1, <2>2 DEF PublicationInv, SinkInv, CursorInv, FileIsPrefix
<1> QED BY <1>1, PublicationInvStays, PTL

\* A publisher that captured an older prefix never replaces a newer file.
THEOREM FileMovesForward ==
    PublicationSpec => FileOnlyMovesForward
<1> DEFINE Forward == file # NoFile => /\ file'.journal = file.journal
                                       /\ file'.anchor >= file.anchor
                                       /\ file'.stop > file.stop
<1>1. PublicationInv /\ [PublicationNext]_allVars => [Forward]_file
  <2> SUFFICES ASSUME PublicationInv, PublicationNext, file' # file, file # NoFile
               PROVE  /\ file'.journal = file.journal /\ file'.anchor >= file.anchor
                      /\ file'.stop > file.stop
    BY DEF allVars
  <2>1. PICK p \in Publisher : PublisherStep(p)
    BY DEF PublicationNext, ByRunner, ByPublisher, sinkVars
  <2>2. Replace(p)
    BY <2>1 DEF PublisherStep, GoOn, Begin, Lock, LockTimesOut, CapturePrefix, InspectPrevious,
                Release, StopPublisher
  <2> QED BY <2>2, ReplaceMovesForward DEF PublicationInv
<1> QED BY <1>1, PublicationInvStays, PTL DEF PublicationSpec, FileOnlyMovesForward
-----------------------------------------------------------------------------
(***************************************************************************)
(* Proofs about PullHelper.                                                *)
(***************************************************************************)

\* The records after position p, up to position q.
Between(p, q) == [n \in 1 .. q - p |-> p + n]

Collecting == {"ask", "next", "wave"}
Settled == {"open", "suspended", "eof"}

\* A helper that has not started is as it was created.
FreshInv(h) ==
    place[h] = "new" => values[h] = <<>> /\ left[h] = PullCap[h] /\ ~ exhausted[h]

\* What the holder of the lease has pulled, against what the source has handed
\* out and the session has published.
HoldingInv(h) ==
    place[h] \in Holding =>
        /\ place[h] \in Settled => values[h] = <<>> /\ taken = Position
        /\ place[h] \in Collecting =>
              /\ values[h] = Between(Position, taken)
              /\ Len(values[h]) <= left[h] /\ Len(values[h]) <= PullSize[h]
              /\ place[h] = "next" => Len(values[h]) < left[h] /\ Len(values[h]) < PullSize[h]
        /\ exhausted[h] => taken = SourceLength
        /\ place[h] = "eof" => exhausted[h]

PullInv ==
    /\ PullTypes /\ LeaseIsExact /\ HolderMovesAlone /\ PulledInOrder
    /\ Position <= taken
    /\ \A h \in Helper : FreshInv(h) /\ HoldingInv(h)

-----------------------------------------------------------------------------

LEMMA LeastOfTwo ==
    ASSUME NEW a \in Nat, NEW b \in Nat
    PROVE  Min({a, b}) \in {a, b} /\ Min({a, b}) <= a /\ Min({a, b}) <= b
<1>1. \E x \in {a, b} : \A y \in {a, b} : x <= y
  <2>1. CASE a <= b BY <2>1
  <2>2. CASE b <= a BY <2>2
  <2> QED BY <2>1, <2>2
<1> QED BY <1>1 DEF Min

\* The records from p to q, and one more.
LEMMA BetweenExtended ==
    ASSUME NEW p \in Nat, NEW q \in Nat, p <= q
    PROVE  /\ Between(p, q) \in Seq(Nat)
           /\ Len(Between(p, q)) = q - p
           /\ Append(Between(p, q), q + 1) = Between(p, q + 1)
           /\ Between(p, p) = <<>>
<1>1. Between(p, q) \in Seq(Nat) /\ Len(Between(p, q)) = q - p
  BY DEF Between
<1>2. Between(p, q + 1) \in Seq(Nat) /\ Len(Between(p, q + 1)) = q + 1 - p
  BY DEF Between
<1>3. Append(Between(p, q), q + 1) = Between(p, q + 1)
  <2> DEFINE s == Append(Between(p, q), q + 1)
             t == Between(p, q + 1)
  <2>1. s \in Seq(Nat) /\ t \in Seq(Nat) /\ Len(s) = Len(t) BY <1>1, <1>2
  <2>2. ASSUME NEW i \in 1 .. Len(s) PROVE s[i] = t[i]
    BY <1>1, <1>2 DEF Between
  <2> HIDE DEF s, t
  <2>3. s = t BY <2>1, <2>2
  <2> QED BY <2>3 DEF s, t
<1> QED BY <1>1, <1>3 DEF Between

\* The first q records are the first p and those between.
LEMMA BetweenConcatenated ==
    ASSUME NEW p \in Nat, NEW q \in Nat, p <= q
    PROVE  [n \in 1 .. p |-> n] \o Between(p, q) = [n \in 1 .. q |-> n]
<1> DEFINE s == [n \in 1 .. p |-> n]
           b == Between(p, q)
           t == [n \in 1 .. q |-> n]
<1>1. s \in Seq(Nat) /\ Len(s) = p OBVIOUS
<1>2. t \in Seq(Nat) /\ Len(t) = q OBVIOUS
<1>3. b \in Seq(Nat) /\ Len(b) = q - p BY BetweenExtended
<1>4. \A i \in 1 .. q - p : b[i] = p + i BY DEF Between
<1>5. (\A i \in 1 .. p : s[i] = i) /\ (\A i \in 1 .. q : t[i] = i) OBVIOUS
<1> HIDE DEF s, b, t
<1>6. s \o b \in Seq(Nat) /\ Len(s \o b) = q BY <1>1, <1>3
<1>7. ASSUME NEW i \in 1 .. q PROVE (s \o b)[i] = t[i]
  BY <1>1, <1>3, <1>4, <1>5
<1>8. s \o b = t
  <2> DEFINE c == s \o b
  <2>1. c \in Seq(Nat) /\ Len(c) = Len(t) BY <1>2, <1>6
  <2>2. \A j \in 1 .. Len(c) : c[j] = t[j] BY <1>2, <1>7, <2>1
  <2> HIDE DEF c
  <2>3. c = t BY <2>1, <2>2, <1>2
  <2> QED BY <2>3 DEF c
<1> QED BY <1>8 DEF s, b, t

-----------------------------------------------------------------------------

Places == Holding \cup {"new", "ended"}

LEMMA PulledIsNat ==
    ASSUME PullConstants, PullInv
    PROVE  Position \in Nat /\ taken \in Nat /\ Position <= taken /\ taken <= SourceLength
BY DEF PullInv, PullTypes, Position, PullConstants

\* The lease holder goes where it is sent, with the lease or without; nobody
\* else was on the way.
LEMMA HolderMoves ==
    ASSUME PullConstants, PullInv, NEW g \in Helper, place[g] \in Holding,
           NEW p \in Holding \cup {"ended"}, MoveHelper(g, p),
           lease' = IF p = "ended" THEN Unleased ELSE lease
    PROVE  /\ lease = g
           /\ lease' \in Helper \cup {Unleased}
           /\ place' \in [Helper -> Places]
           /\ place'[g] = p
           /\ \A h \in Helper : h # g => place'[h] = place[h] /\ place'[h] \notin Holding
           /\ LeaseIsExact'
<1>1. lease = g BY DEF PullInv, LeaseIsExact
<1>2. \A h \in Helper : h # g => place[h] \notin Holding BY <1>1 DEF PullInv, LeaseIsExact
<1>3. place \in [Helper -> Places] BY DEF PullInv, PullTypes, Places
<1>4. p \in Places BY DEF Places
<1>5. place' \in [Helper -> Places] /\ place'[g] = p /\ \A h \in Helper : h # g => place'[h] = place[h]
  BY <1>3, <1>4 DEF MoveHelper
<1>6. "ended" \notin Holding BY DEF Holding, Calling, Computing
<1>7. Unleased \notin Helper BY DEF PullConstants
<1>8. LeaseIsExact' BY <1>1, <1>2, <1>5, <1>6, <1>7 DEF LeaseIsExact
<1> QED BY <1>1, <1>2, <1>5, <1>8

\* A step of the lease holder that keeps what concerns itself keeps all.
LEMMA HolderKeeps ==
    ASSUME PullConstants, PullInv, NEW g \in Helper, place[g] \in Holding,
           NEW p \in Holding \cup {"ended"}, MoveHelper(g, p),
           lease' = IF p = "ended" THEN Unleased ELSE lease,
           PullTypes', PulledInOrder', Position' <= taken',
           \A h \in Helper : h # g =>
               values'[h] = values[h] /\ left'[h] = left[h] /\ exhausted'[h] = exhausted[h],
           p # "ended" =>
               /\ Position' = since'[g] + PullCap[g] - left'[g]
               /\ closed' # "nobody" => closed' = "helper" /\ p = "close",
           HoldingInv(g)'
    PROVE  PullInv'
<1>1. /\ lease = g /\ LeaseIsExact' /\ place'[g] = p
      /\ \A h \in Helper : h # g => place'[h] = place[h] /\ place'[h] \notin Holding
  BY HolderMoves
<1>2. Unleased \notin Helper /\ "new" \notin Holding \cup {"ended"}
  BY DEF PullConstants, Holding, Calling, Computing
<1>3. HolderMovesAlone' BY <1>1, <1>2 DEF HolderMovesAlone
<1>4. ASSUME NEW h \in Helper PROVE FreshInv(h)' /\ HoldingInv(h)'
  <2>1. CASE h = g BY <2>1, <1>1, <1>2 DEF FreshInv
  <2>2. CASE h # g
    <3>1. HoldingInv(h)' BY <2>2, <1>1 DEF HoldingInv
    <3>2. FreshInv(h) BY DEF PullInv
    <3>3. FreshInv(h)' BY <2>2, <1>1, <3>2 DEF FreshInv
    <3> QED BY <3>1, <3>3
  <2> QED BY <2>1, <2>2
<1> QED BY <1>1, <1>3, <1>4 DEF PullInv

\* Ending a helper, with an iterator of its own to close or without.
LEMMA Finishing ==
    ASSUME PullConstants, PullInv, NEW g \in Helper, place[g] \in Holding,
           NEW how \in {"returned", "exited", "raised"}, Finish(g, how)
    PROVE  /\ \E p \in {"close", "ended"} :
                 /\ MoveHelper(g, p)
                 /\ lease' = IF p = "ended" THEN Unleased ELSE lease
                 /\ place'[g] = p
           /\ lease' \in Helper \cup {Unleased}
           /\ place' \in [Helper -> Places]
           /\ ending' \in [Helper -> {"none", "returned", "exited", "raised"}]
<1>1. PICK p \in {"close", "ended"} :
          MoveHelper(g, p) /\ lease' = IF p = "ended" THEN Unleased ELSE lease
  BY DEF Finish
<1>2. p \in Holding \cup {"ended"} BY DEF Holding, Calling, Computing
<1>3. ending' \in [Helper -> {"none", "returned", "exited", "raised"}]
  BY DEF Finish, PullInv, PullTypes
<1> QED BY <1>1, <1>2, <1>3, HolderMoves

\* A failure that the bound allows.
LEMMA BreaksBounded ==
    ASSUME PullConstants, PullInv, Break \/ UNCHANGED breaks
    PROVE  breaks' \in 0 .. MaxBreaks
BY DEF PullConstants, PullInv, PullTypes, Break

-----------------------------------------------------------------------------

LEMMA OpenedKeeps ==
    ASSUME PullConstants, PullInv, NEW g \in Helper, Opened(g)
    PROVE  PullInv'
<1>1. place[g] = "open" /\ place[g] \in Holding BY DEF Opened, Holding, Calling
<1>2. PICK p \in {"ask", "ended"} :
          MoveHelper(g, p) /\ lease' = IF p = "ended" THEN Unleased ELSE lease
  BY DEF Opened
<1>3. p \in Holding \cup {"ended"} BY DEF Holding, Computing
<1>4. /\ lease' \in Helper \cup {Unleased} /\ place' \in [Helper -> Places] /\ place'[g] = p
  BY <1>1, <1>2, <1>3, HolderMoves
<1>5. ending' \in [Helper -> {"none", "returned", "exited", "raised"}] /\ breaks' \in 0 .. MaxBreaks
  BY BreaksBounded DEF Opened, PullInv, PullTypes
<1>6. PullTypes' BY <1>4, <1>5 DEF Opened, PullInv, PullTypes, Places
<1>7. PulledInOrder' /\ Position' <= taken' BY DEF Opened, PullInv, PulledInOrder, Position
<1>8. Position' = since'[g] + PullCap[g] - left'[g] /\ closed' = "nobody"
  BY <1>1 DEF Opened, PullInv, LeaseIsExact, HolderMovesAlone, Position
<1>9. HoldingInv(g)'
  <2>1. values[g] = <<>> /\ taken = Position /\ left[g] \in Nat
        /\ (exhausted[g] => taken = SourceLength)
    BY <1>1 DEF PullInv, HoldingInv, Settled, PullTypes, PullConstants
  <2>2. values'[g] = <<>> /\ taken' = taken /\ Position' = Position /\ left'[g] = left[g]
        /\ exhausted'[g] = exhausted[g]
    BY <2>1 DEF Opened, Position
  <2>3. Between(Position, taken) = <<>> BY <2>1, PulledIsNat, BetweenExtended
  <2>4. Len(values'[g]) = 0 /\ left'[g] \in Nat /\ PullSize[g] \in Nat BY <2>1, <2>2 DEF PullConstants
  <2> QED BY <1>2, <1>4, <2>1, <2>2, <2>3, <2>4 DEF HoldingInv, Settled, Collecting
<1> QED BY <1>1, <1>2, <1>3, <1>6, <1>7, <1>8, <1>9, HolderKeeps DEF Opened

\* What the turn of the loop comes to.
LEMMA AskBranches ==
    ASSUME PullConstants, PullInv, NEW g \in Helper, Ask(g)
    PROVE  \/ left[g] = 0 /\ Finish(g, "returned")
           \/ Finish(g, "raised")
           \/ MoveHelper(g, "wave") /\ UNCHANGED <<lease, ending>>
           \/ /\ MoveHelper(g, "next") /\ UNCHANGED <<lease, ending>>
              /\ Len(values[g]) < left[g] /\ Len(values[g]) < PullSize[g]
<1>1. place[g] = "ask" /\ place[g] \in Holding BY DEF Ask, Holding, Computing
<1>2. /\ left[g] \in Nat /\ PullSize[g] \in Nat /\ Len(values[g]) \in Nat
      /\ Len(values[g]) <= left[g] /\ Len(values[g]) <= PullSize[g]
  <2>1. left[g] \in Nat /\ PullSize[g] \in Nat /\ values[g] \in Seq(1 .. SourceLength)
    BY DEF PullInv, PullTypes, PullConstants
  <2> QED BY <1>1, <2>1 DEF PullInv, HoldingInv, Collecting
<1>3. PICK most \in Nat : /\ most = Min({left[g], PullSize[g]})
                          /\ most \in {left[g], PullSize[g]} /\ most <= left[g] /\ most <= PullSize[g]
  BY <1>2, LeastOfTwo
<1>4. CASE left[g] = 0
  <2>1. Finish(g, "returned") BY <1>2, <1>4 DEF Ask
  <2> QED BY <1>4, <2>1
<1>5. CASE left[g] > 0 /\ Len(values[g]) = most
  <2>1. /\ left[g] > 0 /\ left[g] # 0
        /\ Len(values[g]) = Min({left[g], PullSize[g]})
        /\ ~ (Len(values[g]) < Min({left[g], PullSize[g]}))
    BY <1>2, <1>3, <1>5
  <2>2. MoveHelper(g, "wave") /\ UNCHANGED <<lease, ending>> BY <2>1, Zenon DEF Ask
  <2> QED BY <2>2
<1>6. CASE left[g] > 0 /\ Len(values[g]) < most
  <2>1. /\ left[g] > 0 /\ left[g] # 0
        /\ Len(values[g]) < Min({left[g], PullSize[g]})
        /\ Len(values[g]) # Min({left[g], PullSize[g]})
    BY <1>2, <1>3, <1>6
  <2>2. IF phase # "ready" \/ cancelled
          THEN Finish(g, "raised")
          ELSE MoveHelper(g, "next") /\ UNCHANGED <<lease, ending>>
    BY <2>1, Zenon DEF Ask
  <2>3. Len(values[g]) < left[g] /\ Len(values[g]) < PullSize[g] BY <1>2, <1>3, <1>6
  <2> QED BY <2>2, <2>3
<1> QED BY <1>2, <1>3, <1>4, <1>5, <1>6

LEMMA AskKeeps ==
    ASSUME PullConstants, PullInv, NEW g \in Helper, Ask(g)
    PROVE  PullInv'
<1>1. place[g] = "ask" /\ place[g] \in Holding BY DEF Ask, Holding, Computing
<1>2. Len(values[g]) <= left[g] /\ Len(values[g]) <= PullSize[g]
  BY <1>1 DEF PullInv, HoldingInv, Collecting
<1>3. PICK p \in {"wave", "next", "close", "ended"} :
          /\ MoveHelper(g, p) /\ lease' = IF p = "ended" THEN Unleased ELSE lease
          /\ ending' \in [Helper -> {"none", "returned", "exited", "raised"}]
          /\ p = "next" => Len(values[g]) < left[g] /\ Len(values[g]) < PullSize[g]
  <2>1. ending \in [Helper -> {"none", "returned", "exited", "raised"}]
    BY DEF PullInv, PullTypes
  <2>2. CASE \E how \in {"returned", "raised"} : Finish(g, how) BY <1>1, <2>2, Finishing
  <2>3. CASE MoveHelper(g, "wave") /\ UNCHANGED <<lease, ending>> BY <2>1, <2>3
  <2>4. CASE /\ MoveHelper(g, "next") /\ UNCHANGED <<lease, ending>>
             /\ Len(values[g]) < left[g] /\ Len(values[g]) < PullSize[g]
    BY <2>1, <2>4
  <2> QED BY <2>2, <2>3, <2>4, AskBranches
<1>4. p \in Holding \cup {"ended"} BY DEF Holding, Calling, Computing
<1>5. /\ lease' \in Helper \cup {Unleased} /\ place' \in [Helper -> Places] /\ place'[g] = p
  BY <1>1, <1>3, <1>4, HolderMoves
<1>6. PullTypes' BY <1>3, <1>5 DEF Ask, PullInv, PullTypes, Places
<1>7. PulledInOrder' /\ Position' <= taken' BY DEF Ask, PullInv, PulledInOrder, Position
<1>8. Position' = since'[g] + PullCap[g] - left'[g] /\ closed' = "nobody"
  BY <1>1 DEF Ask, PullInv, LeaseIsExact, HolderMovesAlone, Position
<1>9. HoldingInv(g)'
  <2>1. values[g] = Between(Position, taken) /\ (exhausted[g] => taken = SourceLength)
    BY <1>1 DEF PullInv, HoldingInv, Collecting
  <2>2. /\ values'[g] = values[g] /\ taken' = taken /\ Position' = Position /\ left'[g] = left[g]
        /\ exhausted'[g] = exhausted[g] /\ Between(Position', taken') = Between(Position, taken)
    BY DEF Ask, Position
  <2>3. p = "next" => Len(values[g]) < left[g] /\ Len(values[g]) < PullSize[g]
    BY <1>2, <1>3
  <2> QED BY <1>2, <1>5, <2>1, <2>2, <2>3 DEF HoldingInv, Settled, Collecting
<1> QED BY <1>1, <1>3, <1>4, <1>6, <1>7, <1>8, <1>9, HolderKeeps DEF Ask

LEMMA NextReturnsKeeps ==
    ASSUME PullConstants, PullInv, NEW g \in Helper, NextReturns(g)
    PROVE  PullInv'
<1>1. place[g] = "next" /\ place[g] \in Holding BY DEF NextReturns, Holding, Calling
<1>2. "ask" \in Holding /\ "ask" # "ended" BY DEF Holding, Computing
<1>3. MoveHelper(g, "ask") /\ lease' = lease BY DEF NextReturns, sessionVars
<1>4. /\ lease' \in Helper \cup {Unleased} /\ place' \in [Helper -> Places] /\ place'[g] = "ask"
  BY <1>1, <1>2, <1>3, HolderMoves
<1>5. Position \in Nat /\ taken \in Nat /\ Position <= taken /\ SourceLength \in Nat
  BY PulledIsNat DEF PullConstants
<1>6. taken + 1 \in 1 .. SourceLength BY <1>5 DEF NextReturns
<1>7. values \in [Helper -> Seq(1 .. SourceLength)] BY DEF PullInv, PullTypes
<1>8. /\ values' \in [Helper -> Seq(1 .. SourceLength)]
      /\ values'[g] = Append(values[g], taken + 1)
      /\ \A h \in Helper : h # g => values'[h] = values[h]
  BY <1>6, <1>7 DEF NextReturns
<1>9. PullTypes' BY <1>4, <1>6, <1>8 DEF NextReturns, sessionVars, PullInv, PullTypes, Places
<1>10. PulledInOrder' /\ Position' = Position /\ taken' = taken + 1
  BY DEF NextReturns, sessionVars, PullInv, PulledInOrder, Position
<1>11. Position' = since'[g] + PullCap[g] - left'[g] /\ closed' = "nobody"
  BY <1>1 DEF NextReturns, sessionVars, PullInv, LeaseIsExact, HolderMovesAlone, Position
<1>12. HoldingInv(g)'
  <2>1. /\ values[g] = Between(Position, taken)
        /\ Len(values[g]) < left[g] /\ Len(values[g]) < PullSize[g]
        /\ exhausted[g] => taken = SourceLength
    BY <1>1 DEF PullInv, HoldingInv, Collecting
  <2>2. values'[g] = Between(Position, taken + 1) BY <1>5, <1>8, <2>1, BetweenExtended
  <2>3. Len(values[g]) = taken - Position BY <1>5, <2>1, BetweenExtended
  <2>4. Len(values'[g]) = taken + 1 - Position
    <3>1. taken + 1 \in Nat /\ Position \in Nat /\ Position <= taken + 1 BY <1>5
    <3>2. Len(Between(Position, taken + 1)) = (taken + 1) - Position BY <3>1, BetweenExtended
    <3> QED BY <1>5, <2>2, <3>2
  <2>5. left[g] \in Nat /\ PullSize[g] \in Nat BY DEF PullInv, PullTypes, PullConstants
  <2>6. left'[g] = left[g] BY DEF NextReturns
  <2>7. Len(values'[g]) <= left'[g] /\ Len(values'[g]) <= PullSize[g]
    BY <1>5, <2>1, <2>3, <2>4, <2>5, <2>6
  <2>8. values'[g] = Between(Position', taken') BY <1>10, <2>2
  <2>9. ~ exhausted'[g] BY <1>5, <2>1 DEF NextReturns
  <2> QED BY <1>4, <2>7, <2>8, <2>9 DEF HoldingInv, Settled, Collecting
<1>13. Position' <= taken' BY <1>5, <1>10
<1> QED BY <1>1, <1>2, <1>3, <1>8, <1>9, <1>10, <1>11, <1>12, <1>13, HolderKeeps DEF NextReturns

LEMMA NextStopsKeeps ==
    ASSUME PullConstants, PullInv, NEW g \in Helper, NextStops(g)
    PROVE  PullInv'
<1>1. place[g] = "next" /\ place[g] \in Holding BY DEF NextStops, Holding, Calling
<1> DEFINE p == IF values[g] = <<>> THEN "eof" ELSE "wave"
<1>2. p \in Holding /\ p # "ended" BY DEF Holding, Computing
<1>3. MoveHelper(g, p) /\ lease' = lease BY DEF NextStops, sessionVars
<1>4. /\ lease' \in Helper \cup {Unleased} /\ place' \in [Helper -> Places] /\ place'[g] = p
  BY <1>1, <1>2, <1>3, HolderMoves
<1>5. Position \in Nat /\ taken \in Nat /\ Position <= taken /\ SourceLength \in Nat
  BY PulledIsNat DEF PullConstants
<1>6. /\ exhausted' \in [Helper -> BOOLEAN]
      /\ \A h \in Helper : h # g => exhausted'[h] = exhausted[h]
  BY DEF NextStops, PullInv, PullTypes
<1>7. PullTypes' BY <1>4, <1>6 DEF NextStops, sessionVars, PullInv, PullTypes, Places
<1>8. PulledInOrder' /\ Position' <= taken' /\ Position' = Position
  BY <1>5 DEF NextStops, sessionVars, PullInv, PulledInOrder, Position
<1>9. Position' = since'[g] + PullCap[g] - left'[g] /\ closed' = "nobody"
  BY <1>1 DEF NextStops, sessionVars, PullInv, LeaseIsExact, HolderMovesAlone, Position
<1>10. HoldingInv(g)'
  <2>1. /\ values[g] = Between(Position, taken)
        /\ Len(values[g]) < left[g] /\ Len(values[g]) < PullSize[g]
        /\ left[g] \in Nat /\ PullSize[g] \in Nat
    BY <1>1 DEF PullInv, PullTypes, PullConstants, HoldingInv, Collecting
  <2>2. Len(values[g]) = taken - Position BY <1>5, <2>1, BetweenExtended
  <2>3. values[g] = <<>> => taken = Position
    <3>1. Len(<<>>) = 0 OBVIOUS
    <3> QED BY <1>5, <2>2, <3>1
  <2>4. exhausted'[g] /\ taken' = SourceLength /\ taken' = taken
    BY DEF NextStops, PullInv, PullTypes
  <2>5. values'[g] = values[g] /\ Len(values'[g]) <= left'[g] /\ Len(values'[g]) <= PullSize[g]
    BY <1>5, <2>1, <2>2 DEF NextStops
  <2>6. values'[g] = Between(Position', taken') BY <1>8, <2>1, <2>4, <2>5
  <2> QED BY <1>4, <1>8, <2>3, <2>4, <2>5, <2>6 DEF HoldingInv, Settled, Collecting
<1> QED BY <1>1, <1>2, <1>3, <1>6, <1>7, <1>8, <1>9, <1>10, HolderKeeps DEF NextStops

LEMMA NextRaisesKeeps ==
    ASSUME PullConstants, PullInv, NEW g \in Helper, NextRaises(g)
    PROVE  PullInv'
<1>1. place[g] = "next" /\ place[g] \in Holding BY DEF NextRaises, Holding, Calling
<1>2. PICK p \in {"close", "ended"} :
          MoveHelper(g, p) /\ lease' = (IF p = "ended" THEN Unleased ELSE lease) /\ place'[g] = p
  BY <1>1, Finishing DEF NextRaises
<1>3. /\ lease' \in Helper \cup {Unleased} /\ place' \in [Helper -> Places]
      /\ ending' \in [Helper -> {"none", "returned", "exited", "raised"}]
      /\ breaks' \in 0 .. MaxBreaks
  BY <1>1, Finishing, BreaksBounded DEF NextRaises
<1>4. PullTypes' BY <1>3 DEF NextRaises, PullInv, PullTypes, Places
<1>5. PulledInOrder' /\ Position' <= taken' BY DEF NextRaises, PullInv, PulledInOrder, Position
<1>6. Position' = since'[g] + PullCap[g] - left'[g] /\ closed' = "nobody"
  BY <1>1 DEF NextRaises, PullInv, LeaseIsExact, HolderMovesAlone, Position
<1>7. HoldingInv(g)'
  BY <1>1, <1>2 DEF NextRaises, PullInv, HoldingInv, Settled, Collecting
<1>8. p \in Holding \cup {"ended"} BY DEF Holding, Calling
<1> QED BY <1>1, <1>2, <1>4, <1>5, <1>6, <1>7, <1>8, HolderKeeps DEF NextRaises

LEMMA WaveKeeps ==
    ASSUME PullConstants, PullInv, NEW g \in Helper, Wave(g)
    PROVE  PullInv'
<1>1. place[g] = "wave" /\ place[g] \in Holding BY DEF Wave, Holding, Computing
<1>2. /\ Position \in Nat /\ taken \in Nat /\ Position <= taken /\ SourceLength \in Nat
      /\ taken <= SourceLength
  BY PulledIsNat DEF PullConstants
<1>3. /\ values[g] = Between(Position, taken) /\ Len(values[g]) <= left[g]
      /\ exhausted[g] => taken = SourceLength
  BY <1>1 DEF PullInv, HoldingInv, Collecting
<1>4. Position = since[g] + PullCap[g] - left[g] /\ closed = "nobody"
  BY <1>1 DEF PullInv, LeaseIsExact, HolderMovesAlone
<1>5. CASE Finish(g, "raised") /\ UNCHANGED <<output, values, left>>
  <2>1. PICK p \in {"close", "ended"} :
            MoveHelper(g, p) /\ lease' = (IF p = "ended" THEN Unleased ELSE lease) /\ place'[g] = p
    BY <1>1, <1>5, Finishing
  <2>2. /\ lease' \in Helper \cup {Unleased} /\ place' \in [Helper -> Places]
        /\ ending' \in [Helper -> {"none", "returned", "exited", "raised"}]
    BY <1>1, <1>5, Finishing
  <2>3. breaks' \in 0 .. MaxBreaks BY BreaksBounded DEF Wave
  <2>4. phase' \in {"ready", "failed", "closed"} BY DEF Wave, PullInv, PullTypes
  <2>5. PullTypes' BY <1>5, <2>2, <2>3, <2>4 DEF Wave, PullInv, PullTypes, Places
  <2>6. /\ output' = output /\ closed' = closed /\ since' = since /\ left' = left /\ taken' = taken
        /\ exhausted' = exhausted /\ values' = values
    BY <1>5 DEF Wave
  <2>7. PulledInOrder' /\ Position' <= taken' BY <1>2, <2>6 DEF PullInv, PulledInOrder, Position
  <2>8. Position' = since'[g] + PullCap[g] - left'[g] /\ closed' = "nobody"
    BY <1>4, <2>6 DEF Position
  <2>9. HoldingInv(g)' BY <1>3, <2>1, <2>6 DEF HoldingInv, Settled, Collecting
  <2>10. p \in Holding \cup {"ended"} BY DEF Holding, Calling
  <2> QED BY <1>1, <2>1, <2>5, <2>6, <2>7, <2>8, <2>9, <2>10, HolderKeeps
<1>6. CASE /\ output' = output \o values[g]
           /\ left' = [left EXCEPT ![g] = @ - Len(values[g])]
           /\ values' = [values EXCEPT ![g] = <<>>]
           /\ MoveHelper(g, "suspended")
           /\ UNCHANGED <<phase, lease, ending, breaks>>
  <2>1. "suspended" \in Holding /\ "suspended" # "ended" BY DEF Holding
  <2>2. /\ lease' \in Helper \cup {Unleased} /\ place' \in [Helper -> Places]
        /\ place'[g] = "suspended"
    BY <1>1, <1>6, <2>1, HolderMoves
  <2>3. Len(values[g]) = taken - Position BY <1>2, <1>3, BetweenExtended
  <2>4. output' = [n \in 1 .. taken |-> n]
    <3>1. output = [n \in 1 .. Position |-> n] BY DEF PullInv, PulledInOrder
    <3> QED BY <1>2, <1>3, <1>6, <3>1, BetweenConcatenated
  <2>5. output' \in Seq(1 .. SourceLength) /\ Position' = taken
    BY <1>2, <2>4 DEF Position
  <2>6. left[g] \in Nat /\ since[g] \in Nat /\ PullCap[g] \in Nat /\ left[g] <= PullCap[g]
    BY DEF PullInv, PullTypes, PullConstants
  <2>7. left'[g] = left[g] - (taken - Position) /\ left'[g] \in 0 .. PullCap[g]
    <3>1. left'[g] = left[g] - Len(values[g])
      BY <1>6, <2>6 DEF PullInv, PullTypes
    <3> QED BY <1>2, <1>3, <2>3, <2>6, <3>1
  <2>8. /\ \A h \in Helper : h # g => left'[h] = left[h] /\ values'[h] = values[h]
        /\ values'[g] = <<>> /\ values' \in [Helper -> Seq(1 .. SourceLength)]
    <3>1. values \in [Helper -> Seq(1 .. SourceLength)] /\ <<>> \in Seq(1 .. SourceLength)
      BY DEF PullInv, PullTypes
    <3>2. values' \in [Helper -> Seq(1 .. SourceLength)] /\ values'[g] = <<>>
      BY <1>6, <3>1
    <3>3. \A h \in Helper : h # g => left'[h] = left[h] /\ values'[h] = values[h]
      BY <1>6, <3>1 DEF PullInv, PullTypes
    <3> QED BY <3>2, <3>3
  <2>9. /\ DOMAIN left' = DOMAIN left /\ closed' = closed /\ cancelled' = cancelled
        /\ exhausted' = exhausted /\ since' = since /\ taken' = taken
    BY <1>6 DEF Wave
  <2>10. left' \in [Helper -> Nat] /\ \A h \in Helper : left'[h] \in 0 .. PullCap[h]
    <3>1. \A h \in Helper : left'[h] \in 0 .. PullCap[h]
      BY <2>7, <2>8 DEF PullInv, PullTypes
    <3>2. \A h \in Helper : PullCap[h] \in Nat BY DEF PullConstants
    <3>3. \A h \in Helper : left'[h] \in Nat BY <3>1, <3>2
    <3> QED BY <1>6, <3>1, <3>3 DEF PullInv, PullTypes
  <2>11. PullTypes' BY <1>6, <2>2, <2>5, <2>8, <2>9, <2>10 DEF PullInv, PullTypes, Places
  <2>12. PulledInOrder' BY <1>4, <2>4, <2>5, <2>9 DEF PulledInOrder
  <2>13. Position' <= taken' BY <1>2, <2>5, <2>9
  <2>14. Position' = since'[g] + PullCap[g] - left'[g]
    <3>1. /\ since'[g] = since[g] /\ Position' = taken
          /\ left'[g] = left[g] - (taken - Position)
      BY <2>5, <2>7, <2>9
    <3>2. Position = since[g] + PullCap[g] - left[g] BY <1>4
    <3>3. taken = since[g] + PullCap[g] - (left[g] - (taken - Position))
      BY <1>2, <2>6, <3>2
    <3> QED BY <3>1, <3>3
  <2>15. HoldingInv(g)'
    BY <1>3, <2>2, <2>5, <2>8, <2>9 DEF HoldingInv, Settled, Collecting
  <2>16. lease' = lease /\ closed' = "nobody" BY <1>4, <1>6, <2>9
  <2> QED BY <1>1, <1>6, <2>1, <2>8, <2>9, <2>11, <2>12, <2>13, <2>14, <2>15, <2>16, HolderKeeps
<1> QED BY <1>5, <1>6 DEF Wave

LEMMA ResumeKeeps ==
    ASSUME PullConstants, PullInv, NEW g \in Helper, Resume(g)
    PROVE  PullInv'
<1>1. place[g] = "suspended" /\ place[g] \in Holding BY DEF Resume, Holding
<1> DEFINE p == IF exhausted[g] THEN "eof" ELSE "ask"
<1>2. p \in Holding /\ p # "ended" BY DEF Holding, Computing
<1>3. MoveHelper(g, p) /\ lease' = lease BY DEF Resume, sessionVars
<1>4. /\ lease' \in Helper \cup {Unleased} /\ place' \in [Helper -> Places] /\ place'[g] = p
  BY <1>1, <1>2, <1>3, HolderMoves
<1>5. PullTypes' BY <1>4 DEF Resume, sessionVars, PullInv, PullTypes, Places
<1>6. PulledInOrder' /\ Position' <= taken' /\ Position' = Position
  BY DEF Resume, sessionVars, PullInv, PulledInOrder, Position
<1>7. Position' = since'[g] + PullCap[g] - left'[g] /\ closed' = "nobody"
  BY <1>1 DEF Resume, sessionVars, PullInv, LeaseIsExact, HolderMovesAlone, Position
<1>8. HoldingInv(g)'
  <2>1. /\ values[g] = <<>> /\ taken = Position /\ left[g] \in Nat /\ PullSize[g] \in Nat
        /\ exhausted[g] => taken = SourceLength
    BY <1>1 DEF PullInv, PullTypes, PullConstants, HoldingInv, Settled
  <2>2. /\ values'[g] = values[g] /\ taken' = taken /\ left'[g] = left[g]
        /\ exhausted'[g] = exhausted[g]
    BY DEF Resume
  <2>3. Between(Position, taken) = <<>> BY <2>1, PulledIsNat, BetweenExtended
  <2>4. Len(values'[g]) = 0 /\ values'[g] = Between(Position', taken')
    BY <1>6, <2>1, <2>2, <2>3
  <2>5. p = "eof" => exhausted[g] OBVIOUS
  <2> QED BY <1>4, <1>6, <2>1, <2>2, <2>4, <2>5 DEF HoldingInv, Settled, Collecting
<1> QED BY <1>1, <1>2, <1>3, <1>5, <1>6, <1>7, <1>8, HolderKeeps DEF Resume

LEMMA CloseAtEndKeeps ==
    ASSUME PullConstants, PullInv, NEW g \in Helper, CloseAtEnd(g)
    PROVE  PullInv'
<1>1. place[g] = "eof" /\ place[g] \in Holding BY DEF CloseAtEnd, Holding, Computing
<1>2. PICK p \in {"close", "ended"} :
          MoveHelper(g, p) /\ lease' = (IF p = "ended" THEN Unleased ELSE lease) /\ place'[g] = p
  BY <1>1, Finishing DEF CloseAtEnd
<1>3. /\ lease' \in Helper \cup {Unleased} /\ place' \in [Helper -> Places]
      /\ ending' \in [Helper -> {"none", "returned", "exited", "raised"}]
  BY <1>1, Finishing DEF CloseAtEnd
<1>4. closed' = closed \/ closed' = "helper" BY DEF CloseAtEnd
<1>5. PullTypes' BY <1>3, <1>4 DEF CloseAtEnd, PullInv, PullTypes, Places
<1>6. Position = SourceLength /\ taken = Position
  BY <1>1 DEF PullInv, HoldingInv, Settled
<1>7. Position' = Position /\ output' = output /\ taken' = taken BY DEF CloseAtEnd, Position
<1>8. PulledInOrder' /\ Position' <= taken' BY <1>6, <1>7 DEF PullInv, PulledInOrder
<1>9. /\ Position' = since'[g] + PullCap[g] - left'[g]
      /\ p # "ended" => (closed' # "nobody" => closed' = "helper" /\ p = "close")
  BY <1>1, <1>4 DEF CloseAtEnd, PullInv, LeaseIsExact, HolderMovesAlone, Position
<1>10. HoldingInv(g)'
  BY <1>1, <1>2 DEF CloseAtEnd, PullInv, HoldingInv, Settled, Collecting
<1>11. p \in Holding \cup {"ended"} BY DEF Holding, Calling
<1> QED BY <1>1, <1>2, <1>5, <1>8, <1>9, <1>10, <1>11, HolderKeeps DEF CloseAtEnd

LEMMA CloseIteratorKeeps ==
    ASSUME PullConstants, PullInv, NEW g \in Helper, CloseIterator(g)
    PROVE  PullInv'
<1>1. place[g] = "close" /\ place[g] \in Holding BY DEF CloseIterator, Holding, Calling
<1>2. MoveHelper(g, "ended") /\ lease' = Unleased BY DEF CloseIterator
<1>3. /\ lease' \in Helper \cup {Unleased} /\ place' \in [Helper -> Places]
      /\ place'[g] = "ended"
  BY <1>1, <1>2, HolderMoves
<1>4. ending' \in [Helper -> {"none", "returned", "exited", "raised"}] /\ breaks' \in 0 .. MaxBreaks
  BY BreaksBounded DEF CloseIterator, PullInv, PullTypes
<1>5. PullTypes' BY <1>3, <1>4 DEF CloseIterator, PullInv, PullTypes, Places
<1>6. PulledInOrder' /\ Position' <= taken'
  BY DEF CloseIterator, PullInv, PulledInOrder, Position
<1>7. HoldingInv(g)' BY <1>3 DEF HoldingInv, Holding, Calling, Computing
<1> QED BY <1>1, <1>2, <1>5, <1>6, <1>7, HolderKeeps DEF CloseIterator

-----------------------------------------------------------------------------

\* While nobody holds the lease, the owner answers for the order only.
LEMMA UnleasedKeeps ==
    ASSUME PullConstants, PullInv, lease = Unleased, UNCHANGED <<lease, helperVars>>,
           PullTypes', PulledInOrder', Position' <= taken'
    PROVE  PullInv'
<1>1. \A h \in Helper : lease # h /\ place[h] \notin Holding
  BY DEF PullConstants, PullInv, LeaseIsExact
<1>2. /\ place' = place /\ values' = values /\ left' = left /\ exhausted' = exhausted
      /\ lease' = lease
  BY DEF helperVars
<1>3. LeaseIsExact' /\ HolderMovesAlone' BY <1>1, <1>2 DEF LeaseIsExact, HolderMovesAlone
<1>4. ASSUME NEW h \in Helper PROVE FreshInv(h)' /\ HoldingInv(h)'
  BY <1>1, <1>2 DEF PullInv, FreshInv, HoldingInv
<1> QED BY <1>3, <1>4 DEF PullInv

\* A helper that is refused or closed before its first next() was not holding
\* the lease and does not return it.
LEMMA NeverStartedKeeps ==
    ASSUME PullConstants, PullInv, NEW g \in Helper, place[g] = "new", MoveHelper(g, "ended"),
           UNCHANGED <<sessionVars, values, exhausted, left, since, taken, breaks>>,
           ending' \in [Helper -> {"none", "returned", "exited", "raised"}]
    PROVE  PullInv'
<1>1. /\ output' = output /\ closed' = closed /\ phase' = phase /\ cancelled' = cancelled
      /\ lease' = lease /\ values' = values /\ exhausted' = exhausted /\ left' = left
      /\ since' = since /\ taken' = taken /\ breaks' = breaks /\ Position' = Position
  BY DEF sessionVars, Position
<1>2. place \in [Helper -> Places] BY DEF PullInv, PullTypes, Places
<1>3. /\ place' \in [Helper -> Places] /\ place'[g] = "ended"
      /\ \A h \in Helper : h # g => place'[h] = place[h]
  BY <1>2 DEF MoveHelper, Places
<1>4. "new" \notin Holding /\ "ended" \notin Holding BY DEF Holding, Calling, Computing
<1>5. PullTypes' BY <1>1, <1>3 DEF PullInv, PullTypes, Places
<1>6. LeaseIsExact' BY <1>1, <1>3, <1>4 DEF PullInv, LeaseIsExact
<1>7. lease # g BY <1>4 DEF PullInv, LeaseIsExact
<1>8. HolderMovesAlone' BY <1>1, <1>3, <1>7 DEF PullInv, HolderMovesAlone
<1>9. PulledInOrder' /\ Position' <= taken' BY <1>1 DEF PullInv, PulledInOrder
<1>10. ASSUME NEW h \in Helper PROVE FreshInv(h)' /\ HoldingInv(h)'
  <2>1. FreshInv(h) /\ HoldingInv(h) BY DEF PullInv
  <2>2. CASE h = g BY <1>3, <1>4, <2>2 DEF FreshInv, HoldingInv
  <2>3. CASE h # g BY <1>1, <1>3, <2>1, <2>3 DEF FreshInv, HoldingInv
  <2> QED BY <2>2, <2>3
<1> QED BY <1>5, <1>6, <1>8, <1>9, <1>10 DEF PullInv

LEMMA CloseHelperKeeps ==
    ASSUME PullConstants, PullInv, NEW g \in Helper, CloseHelper(g)
    PROVE  PullInv'
<1>1. CASE place[g] = "suspended" /\ Finish(g, "exited")
  <2>1. place[g] \in Holding BY <1>1 DEF Holding
  <2>2. PICK p \in {"close", "ended"} :
            MoveHelper(g, p) /\ lease' = (IF p = "ended" THEN Unleased ELSE lease) /\ place'[g] = p
    BY <1>1, <2>1, Finishing
  <2>3. /\ lease' \in Helper \cup {Unleased} /\ place' \in [Helper -> Places]
        /\ ending' \in [Helper -> {"none", "returned", "exited", "raised"}]
    BY <1>1, <2>1, Finishing
  <2>4. PullTypes' BY <2>3 DEF CloseHelper, PullInv, PullTypes, Places
  <2>5. PulledInOrder' /\ Position' <= taken'
    BY DEF CloseHelper, PullInv, PulledInOrder, Position
  <2>6. Position' = since'[g] + PullCap[g] - left'[g] /\ closed' = "nobody"
    BY <1>1, <2>1 DEF CloseHelper, PullInv, LeaseIsExact, HolderMovesAlone, Position
  <2>7. HoldingInv(g)'
    BY <1>1, <2>1, <2>2 DEF CloseHelper, PullInv, HoldingInv, Settled, Collecting
  <2>8. p \in Holding \cup {"ended"} BY DEF Holding, Calling
  <2> QED BY <2>1, <2>2, <2>4, <2>5, <2>6, <2>7, <2>8, HolderKeeps DEF CloseHelper
<1>2. CASE /\ place[g] = "new" /\ MoveHelper(g, "ended")
           /\ ending' = [ending EXCEPT ![g] = "exited"]
           /\ UNCHANGED lease
  <2>1. ending' \in [Helper -> {"none", "returned", "exited", "raised"}]
    BY <1>2 DEF PullInv, PullTypes
  <2> QED BY <1>2, <2>1, NeverStartedKeeps DEF CloseHelper, sessionVars
<1> QED BY <1>1, <1>2 DEF CloseHelper

LEMMA RefuseKeeps ==
    ASSUME PullConstants, PullInv, NEW g \in Helper, Refuse(g)
    PROVE  PullInv'
<1>1. ending' \in [Helper -> {"none", "returned", "exited", "raised"}]
  BY DEF Refuse, PullInv, PullTypes
<1> QED BY <1>1, NeverStartedKeeps DEF Refuse

LEMMA StartHelperKeeps ==
    ASSUME PullConstants, PullInv, NEW g \in Helper, StartHelper(g)
    PROVE  PullInv'
<1>1. /\ place[g] = "new" /\ lease = Unleased /\ closed = "nobody" /\ taken = Position
      /\ lease' = g /\ MoveHelper(g, "open")
  BY DEF StartHelper, Leasable, Operable
<1>2. /\ output' = output /\ closed' = closed /\ phase' = phase /\ cancelled' = cancelled
      /\ values' = values /\ exhausted' = exhausted /\ left' = left /\ ending' = ending
      /\ taken' = taken /\ breaks' = breaks /\ Position' = Position
  BY DEF StartHelper, Position
<1>3. \A h \in Helper : place[h] \notin Holding
  BY <1>1 DEF PullConstants, PullInv, LeaseIsExact
<1>4. "open" \in Holding /\ "open" # "new" BY DEF Holding, Calling
<1>5. place \in [Helper -> Places] BY DEF PullInv, PullTypes, Places
<1>6. /\ place' \in [Helper -> Places] /\ place'[g] = "open"
      /\ \A h \in Helper : h # g => place'[h] = place[h]
  BY <1>4, <1>5 DEF Places, MoveHelper, StartHelper
<1>7. Position \in 0 .. SourceLength BY PulledIsNat DEF PullConstants
<1>8. since' \in [Helper -> 0 .. SourceLength] /\ since'[g] = Position
  BY <1>7 DEF StartHelper, PullInv, PullTypes
<1>9. PullTypes' BY <1>1, <1>2, <1>6, <1>8 DEF PullInv, PullTypes, Places
<1>10. LeaseIsExact' BY <1>1, <1>3, <1>4, <1>6 DEF LeaseIsExact
<1>11. values[g] = <<>> /\ left[g] = PullCap[g] /\ ~ exhausted[g]
  BY <1>1 DEF PullInv, FreshInv
<1>12. HolderMovesAlone'
  <2>1. PullCap[g] \in Nat BY DEF PullConstants
  <2>2. Position' = since'[g] + PullCap[g] - left'[g] BY <1>2, <1>7, <1>8, <1>11, <2>1
  <2> QED BY <1>1, <1>2, <2>2 DEF HolderMovesAlone
<1>13. PulledInOrder' /\ Position' <= taken' BY <1>1, <1>2 DEF PullInv, PulledInOrder
<1>14. ASSUME NEW h \in Helper PROVE FreshInv(h)' /\ HoldingInv(h)'
  <2>1. CASE h = g
    BY <1>1, <1>2, <1>4, <1>6, <1>11, <2>1 DEF FreshInv, HoldingInv, Settled, Collecting
  <2>2. CASE h # g
    BY <1>2, <1>3, <1>6, <2>2 DEF PullInv, FreshInv, HoldingInv
  <2> QED BY <2>1, <2>2
<1> QED BY <1>9, <1>10, <1>12, <1>13, <1>14 DEF PullInv

LEMMA ProcessDirectlyKeeps ==
    ASSUME PullConstants, PullInv, ProcessDirectly
    PROVE  PullInv'
<1>1. /\ lease = Unleased /\ UNCHANGED <<lease, helperVars>> /\ closed = "nobody"
      /\ taken = Position /\ taken < SourceLength /\ taken' = taken + 1
      /\ closed' = closed /\ cancelled' = cancelled
  BY DEF ProcessDirectly, Operable
<1>2. Position \in Nat /\ taken \in Nat /\ SourceLength \in Nat
  BY PulledIsNat DEF PullConstants
<1>3. breaks' \in 0 .. MaxBreaks BY BreaksBounded DEF ProcessDirectly
<1>4. phase' \in {"ready", "failed", "closed"} BY DEF ProcessDirectly, PullInv, PullTypes
<1>5. /\ output' \in Seq(1 .. SourceLength) /\ Position' <= taken'
      /\ output' = [n \in 1 .. Position' |-> n]
  <2>1. output \in Seq(1 .. SourceLength) /\ output = [n \in 1 .. Position |-> n]
    BY DEF PullInv, PullTypes, PulledInOrder
  <2>2. CASE output' = output BY <1>1, <1>2, <2>1, <2>2 DEF Position
  <2>3. CASE output' = Append(output, taken + 1)
    <3>1. output = Between(0, Position) BY <1>2, <2>1 DEF Between
    <3>2. Append(Between(0, taken), taken + 1) = Between(0, taken + 1)
      <4>1. 0 \in Nat /\ 0 <= taken BY <1>2
      <4> QED BY <1>2, <4>1, BetweenExtended
    <3>3. output' = [n \in 1 .. taken + 1 |-> n]
      <4>1. output' = Between(0, taken + 1) BY <1>1, <2>3, <3>1, <3>2
      <4> QED BY <1>2, <4>1 DEF Between
    <3>4. Position' = taken + 1 BY <1>2, <3>3 DEF Position
    <3>5. output' \in Seq(1 .. SourceLength) BY <1>1, <1>2, <3>3
    <3> QED BY <1>1, <1>2, <3>3, <3>4, <3>5
  <2> QED BY <2>2, <2>3 DEF ProcessDirectly
<1>6. PullTypes'
  BY <1>1, <1>2, <1>3, <1>4, <1>5 DEF helperVars, PullInv, PullTypes
<1>7. PulledInOrder' BY <1>1, <1>5 DEF PulledInOrder
<1> QED BY <1>1, <1>5, <1>6, <1>7, UnleasedKeeps

LEMMA CloseDirectlyKeeps ==
    ASSUME PullConstants, PullInv, CloseDirectly
    PROVE  PullInv'
<1>1. /\ lease = Unleased /\ UNCHANGED <<lease, helperVars>> /\ closed' = "caller"
      /\ output' = output /\ taken' = taken /\ Position' = Position
  BY DEF CloseDirectly, Operable, Position
<1>2. PullTypes' BY <1>1 DEF CloseDirectly, helperVars, PullInv, PullTypes
<1>3. PulledInOrder' /\ Position' <= taken' BY <1>1 DEF PullInv, PulledInOrder
<1> QED BY <1>1, <1>2, <1>3, UnleasedKeeps

LEMMA SeekKeeps ==
    ASSUME PullConstants, PullInv, Seek
    PROVE  PullInv'
<1>1. /\ lease = Unleased /\ UNCHANGED <<sessionVars, helperVars, breaks>> /\ taken' = Position
  BY DEF Seek
<1>2. Position \in Nat /\ Position <= SourceLength /\ Position' = Position
  BY <1>1, PulledIsNat DEF PullConstants, sessionVars, Position
<1>3. taken' \in 0 .. SourceLength BY <1>1, <1>2 DEF PullConstants
<1>4. PullTypes' BY <1>1, <1>3 DEF sessionVars, helperVars, PullInv, PullTypes
<1>5. PulledInOrder' /\ Position' <= taken'
  BY <1>1, <1>2 DEF sessionVars, PullInv, PulledInOrder
<1> QED BY <1>1, <1>4, <1>5, UnleasedKeeps DEF sessionVars

\* Cancelling and closing touch nothing that the invariant relates.
LEMMA PhaseKeeps ==
    ASSUME PullConstants, PullInv,
           phase' \in {"ready", "failed", "closed"}, cancelled' \in BOOLEAN,
           UNCHANGED <<output, closed, lease, helperVars, taken, breaks>>
    PROVE  PullInv'
<1>1. Position' = Position BY DEF Position
<1>2. PullTypes' BY DEF helperVars, PullInv, PullTypes
<1>3. LeaseIsExact' BY DEF helperVars, PullInv, LeaseIsExact
<1>4. HolderMovesAlone' BY <1>1 DEF helperVars, PullInv, HolderMovesAlone
<1>5. PulledInOrder' /\ Position' <= taken' BY <1>1 DEF PullInv, PulledInOrder
<1>6. ASSUME NEW h \in Helper PROVE FreshInv(h)' /\ HoldingInv(h)'
  <2>1. FreshInv(h) /\ HoldingInv(h) BY DEF PullInv
  <2>2. /\ values' = values /\ place' = place /\ left' = left /\ exhausted' = exhausted
        /\ taken' = taken
    BY DEF helperVars
  <2> QED BY <1>1, <2>1, <2>2 DEF FreshInv, HoldingInv
<1> QED BY <1>2, <1>3, <1>4, <1>5, <1>6 DEF PullInv

\* Helpers as they are created make the invariant a matter of the session.
LEMMA FreshStart ==
    ASSUME PullConstants, FreshHelpers', lease' = Unleased,
           output' \in Seq(1 .. SourceLength), closed' \in {"nobody", "helper", "caller"},
           phase' \in {"ready", "failed", "closed"}, cancelled' \in BOOLEAN,
           taken' \in 0 .. SourceLength, breaks' \in 0 .. MaxBreaks,
           PulledInOrder', Position' <= taken'
    PROVE  PullInv'
<1>1. PullTypes'
  <2>1. left' \in [Helper -> Nat] /\ \A h \in Helper : left'[h] \in 0 .. PullCap[h]
    BY DEF FreshHelpers, PullConstants
  <2>2. since' \in [Helper -> 0 .. SourceLength] BY DEF FreshHelpers, PullConstants
  <2>3. values' \in [Helper -> Seq(1 .. SourceLength)] BY DEF FreshHelpers
  <2> QED BY <2>1, <2>2, <2>3 DEF FreshHelpers, PullTypes
<1>2. \A h \in Helper : place'[h] = "new" /\ values'[h] = <<>> /\ left'[h] = PullCap[h]
                        /\ ~ exhausted'[h] /\ lease' # h
  BY DEF FreshHelpers, PullConstants
<1>3. "new" \notin Holding BY DEF Holding, Calling, Computing
<1>4. LeaseIsExact' /\ HolderMovesAlone' BY <1>2, <1>3 DEF LeaseIsExact, HolderMovesAlone
<1>5. \A h \in Helper : FreshInv(h)' /\ HoldingInv(h)' BY <1>2, <1>3 DEF FreshInv, HoldingInv
<1> QED BY <1>1, <1>4, <1>5 DEF PullInv

LEMMA ReopenKeeps ==
    ASSUME PullConstants, PullInv, Reopen
    PROVE  PullInv'
<1>1. FreshHelpers' BY DEF Reopen, FreshHelpers
<1>2. /\ lease' = Unleased /\ output' = output /\ closed' = closed /\ phase' = "ready"
      /\ cancelled' = FALSE /\ taken' = Position /\ breaks' = breaks /\ Position' = Position
  BY DEF Reopen, Position
<1>3. Position \in 0 .. SourceLength BY PulledIsNat DEF PullConstants
<1>4. PulledInOrder' /\ Position' <= taken' BY <1>2, <1>3 DEF PullInv, PulledInOrder
<1> QED BY <1>1, <1>2, <1>3, <1>4, FreshStart DEF PullInv, PullTypes

-----------------------------------------------------------------------------

LEMMA PullInitHolds ==
    ASSUME PullConstants, PullInit
    PROVE  PullInv
<1>1. PullTypes
  <2>1. left \in [Helper -> Nat] /\ \A h \in Helper : left[h] \in 0 .. PullCap[h]
    BY DEF PullInit, FreshHelpers, PullConstants
  <2>2. since \in [Helper -> 0 .. SourceLength] BY DEF PullInit, FreshHelpers, PullConstants
  <2>3. values \in [Helper -> Seq(1 .. SourceLength)] BY DEF PullInit, FreshHelpers
  <2>4. taken \in 0 .. SourceLength /\ breaks \in 0 .. MaxBreaks BY DEF PullInit, PullConstants
  <2>5. /\ place \in [Helper -> Holding \cup {"new", "ended"}]
        /\ exhausted \in [Helper -> BOOLEAN]
        /\ ending \in [Helper -> {"none", "returned", "exited", "raised"}]
    BY DEF PullInit, FreshHelpers
  <2>6. output \in Seq(1 .. SourceLength) /\ lease \in Helper \cup {Unleased}
    BY DEF PullInit
  <2>7. /\ closed \in {"nobody", "helper", "caller"}
        /\ phase \in {"ready", "failed", "closed"} /\ cancelled \in BOOLEAN
    BY DEF PullInit
  <2> QED BY <2>1, <2>2, <2>3, <2>4, <2>5, <2>6, <2>7 DEF PullTypes
<1>2. \A h \in Helper : place[h] = "new" /\ values[h] = <<>> /\ left[h] = PullCap[h]
                        /\ ~ exhausted[h] /\ lease # h
  BY DEF PullInit, FreshHelpers, PullConstants
<1>3. "new" \notin Holding BY DEF Holding, Calling, Computing
<1>4. LeaseIsExact /\ HolderMovesAlone BY <1>2, <1>3 DEF LeaseIsExact, HolderMovesAlone
<1>5. \A h \in Helper : FreshInv(h) /\ HoldingInv(h) BY <1>2, <1>3 DEF FreshInv, HoldingInv
<1>6. Position = 0 /\ output = <<>> /\ closed = "nobody" /\ taken = 0
  BY DEF PullInit, Position
<1>7. PulledInOrder /\ Position <= taken
  <2>1. [n \in 1 .. 0 |-> n] = <<>> OBVIOUS
  <2> QED BY <1>6, <2>1 DEF PulledInOrder
<1> QED BY <1>1, <1>4, <1>5, <1>7 DEF PullInv

LEMMA PullStepKeeps ==
    ASSUME PullConstants, PullInv, [PullNext]_pullVars
    PROVE  PullInv'
<1>1. CASE \E h \in Helper : HelperRuns(h)
  <2>1. PICK h \in Helper : HelperRuns(h) BY <1>1
  <2>2. CASE Opened(h) BY <2>2, OpenedKeeps
  <2>3. CASE Ask(h) BY <2>3, AskKeeps
  <2>4. CASE NextReturns(h) BY <2>4, NextReturnsKeeps
  <2>5. CASE NextStops(h) BY <2>5, NextStopsKeeps
  <2>6. CASE NextRaises(h) BY <2>6, NextRaisesKeeps
  <2>7. CASE Wave(h) BY <2>7, WaveKeeps
  <2>8. CASE CloseAtEnd(h) BY <2>8, CloseAtEndKeeps
  <2>9. CASE CloseIterator(h) BY <2>9, CloseIteratorKeeps
  <2> QED BY <2>1, <2>2, <2>3, <2>4, <2>5, <2>6, <2>7, <2>8, <2>9 DEF HelperRuns
<1>2. CASE \E h \in Helper : StartHelper(h) \/ Refuse(h) \/ Resume(h) \/ CloseHelper(h)
  BY <1>2, StartHelperKeeps, RefuseKeeps, ResumeKeeps, CloseHelperKeeps
<1>3. CASE ProcessDirectly BY <1>3, ProcessDirectlyKeeps
<1>4. CASE CloseDirectly BY <1>4, CloseDirectlyKeeps
<1>5. CASE Seek BY <1>5, SeekKeeps
<1>6. CASE CloseSession BY <1>6, PhaseKeeps DEF CloseSession, PullInv, PullTypes
<1>7. CASE Reopen BY <1>7, ReopenKeeps
<1>8. CASE CancelPulls BY <1>8, PhaseKeeps DEF CancelPulls, PullInv, PullTypes
<1>9. CASE UNCHANGED pullVars
  <2>1. /\ UNCHANGED <<output, closed, lease, helperVars, taken, breaks>>
        /\ phase' = phase /\ cancelled' = cancelled
    BY <1>9 DEF pullVars, helperVars
  <2> QED BY <2>1, PhaseKeeps DEF PullInv, PullTypes
<1> QED BY <1>1, <1>2, <1>3, <1>4, <1>5, <1>6, <1>7, <1>8, <1>9 DEF PullNext, OwnerCalls

LEMMA PullInvStays ==
    ASSUME PullConstants
    PROVE  PullSpec => []PullInv
<1>1. PullInit => PullInv BY PullInitHolds
<1>2. PullInv /\ [PullNext]_pullVars => PullInv' BY PullStepKeeps
<1> QED BY <1>1, <1>2, PTL DEF PullSpec

\* Every helper leases the session alone and returns the lease however it ends;
\* what is published stays the source's next records, also with two helpers,
\* refused and closed ones and failures (LocalPartitionedFlow.run).
THEOREM PullStaysExact ==
    ASSUME PullConstants
    PROVE  PullSpec => []PullIsExact
<1>1. PullInv => PullIsExact
  <2> SUFFICES ASSUME PullInv PROVE PullIsExact
    OBVIOUS
  <2>1. ASSUME NEW h \in Helper, place[h] \in Collecting
        PROVE  taken = Position + Len(values[h])
    <3>1. Position \in Nat /\ taken \in Nat /\ Position <= taken BY PulledIsNat
    <3>2. values[h] = Between(Position, taken)
      BY <2>1 DEF PullInv, HoldingInv, Holding, Calling, Computing, Collecting
    <3>3. Len(Between(Position, taken)) = taken - Position BY <3>1, BetweenExtended
    <3> QED BY <3>1, <3>2, <3>3
  <2> QED BY <2>1 DEF PullInv, PullIsExact, PullsOneWave, Collecting
<1>2. PullSpec => []PullInv BY PullInvStays
<1> QED BY <1>1, <1>2, PTL

\* No helper takes a record out of the source that its next wave has no room
\* for, neither beyond max_inputs nor beyond batch_size.
THEOREM PullsWithinBounds ==
    ASSUME PullConstants
    PROVE  PullSpec => [](\A h \in Helper : place[h] \in Collecting =>
               /\ taken - Position <= PullSize[h]
               /\ taken <= since[h] + PullCap[h])
<1> DEFINE Bounds == \A h \in Helper : place[h] \in Collecting =>
                        /\ taken - Position <= PullSize[h]
                        /\ taken <= since[h] + PullCap[h]
<1>1. PullInv => Bounds
  <2> SUFFICES ASSUME PullInv, NEW h \in Helper, place[h] \in Collecting
                 PROVE  taken - Position <= PullSize[h] /\ taken <= since[h] + PullCap[h]
    OBVIOUS
  <2>1. Position \in Nat /\ taken \in Nat /\ Position <= taken BY PulledIsNat
  <2>2. place[h] \in Holding BY DEF Collecting, Holding, Calling, Computing
  <2>3. /\ values[h] = Between(Position, taken)
        /\ Len(values[h]) <= left[h] /\ Len(values[h]) <= PullSize[h]
    BY <2>2 DEF PullInv, HoldingInv
  <2>4. Len(values[h]) = taken - Position BY <2>1, <2>3, BetweenExtended
  <2>5. Position = since[h] + PullCap[h] - left[h]
    BY <2>2 DEF PullInv, LeaseIsExact, HolderMovesAlone
  <2>6. left[h] \in Nat /\ since[h] \in Nat /\ PullCap[h] \in Nat /\ PullSize[h] \in Nat
    BY DEF PullInv, PullTypes, PullConstants
  <2> QED BY <2>1, <2>3, <2>4, <2>5, <2>6
<1>2. PullSpec => []PullInv BY PullInvStays
<1> QED BY <1>1, <1>2, PTL

-----------------------------------------------------------------------------

\* What a helper that ends without an exception leaves behind.
CommittedEnd(h) ==
    /\ ending[h] \in {"returned", "exited"} => taken = Position
    /\ ending[h] = "returned" => closed = "helper" \/ left[h] = 0

EndInv == \A h \in Helper : place[h] = "close" => CommittedEnd(h)

\* A helper on its way out has published what it took, unless it raises.
LEMMA HolderEnds ==
    ASSUME PullConstants, PullInv, EndInv, NEW g \in Helper, HelperRuns(g) \/ CloseHelper(g),
           place[g] \in Holding, place'[g] \in {"close", "ended"}
    PROVE  CommittedEnd(g)'
<1>1. ending \in [Helper -> {"none", "returned", "exited", "raised"}] /\ place \in [Helper -> Places]
  BY DEF PullInv, PullTypes, Places
<1>2. ASSUME NEW how \in {"returned", "exited", "raised"}, Finish(g, how)
      PROVE  ending'[g] = how
  BY <1>1, <1>2 DEF Finish
<1>3. ASSUME NEW p, MoveHelper(g, p) PROVE place'[g] = p
  BY <1>1, <1>3 DEF MoveHelper
<1>4. ASSUME ending'[g] = "raised" PROVE CommittedEnd(g)' BY <1>4 DEF CommittedEnd
<1>5. CASE Opened(g)
  <2>1. CASE MoveHelper(g, "ask") BY <1>3, <2>1
  <2>2. CASE ending' = [ending EXCEPT ![g] = "raised"] BY <1>1, <1>4, <2>2
  <2> QED BY <1>5, <2>1, <2>2 DEF Opened
<1>6. CASE Ask(g)
  <2>1. place[g] = "ask" /\ taken' = taken /\ Position' = Position /\ left' = left
    BY <1>6 DEF Ask, Position
  <2>2. /\ left[g] \in Nat /\ Len(values[g]) <= left[g] /\ Len(values[g]) = taken - Position
        /\ Position \in Nat /\ taken \in Nat
    <3>1. Position \in Nat /\ taken \in Nat /\ Position <= taken BY PulledIsNat
    <3>2. values[g] = Between(Position, taken) /\ Len(values[g]) <= left[g] /\ left[g] \in Nat
      BY <2>1 DEF PullInv, PullTypes, HoldingInv, Collecting
    <3> QED BY <3>1, <3>2, BetweenExtended
  <2>3. CASE left[g] = 0
    <3>1. taken = Position BY <2>2, <2>3
    <3> QED BY <2>1, <2>3, <3>1 DEF CommittedEnd
  <2>4. CASE Finish(g, "raised") BY <1>2, <1>4, <2>4
  <2>5. CASE MoveHelper(g, "wave") \/ MoveHelper(g, "next") BY <1>3, <2>5
  <2> QED BY <1>6, <2>3, <2>4, <2>5, AskBranches
<1>7. CASE NextReturns(g) \/ NextStops(g)
  BY <1>3, <1>7 DEF NextReturns, NextStops
<1>8. CASE NextRaises(g) BY <1>2, <1>4, <1>8 DEF NextRaises
<1>9. CASE Wave(g)
  <2>1. CASE Finish(g, "raised") BY <1>2, <1>4, <2>1
  <2>2. CASE MoveHelper(g, "suspended") BY <1>3, <2>2
  <2> QED BY <1>9, <2>1, <2>2 DEF Wave
<1>10. CASE CloseAtEnd(g)
  <2>1. CASE Finish(g, "raised") BY <1>2, <1>4, <2>1
  <2>2. CASE closed' = "helper"
    <3>1. taken = Position /\ taken' = taken /\ Position' = Position
      BY <1>10 DEF CloseAtEnd, PullInv, HoldingInv, Settled, Position
    <3> QED BY <2>2, <3>1 DEF CommittedEnd
  <2> QED BY <1>10, <2>1, <2>2 DEF CloseAtEnd
<1>11. CASE CloseIterator(g)
  <2>1. CASE UNCHANGED ending
    <3>1. CommittedEnd(g) BY <1>11 DEF CloseIterator, EndInv
    <3> QED BY <1>11, <2>1, <3>1 DEF CloseIterator, CommittedEnd, Position
  <2>2. CASE ending' = [ending EXCEPT ![g] = "raised"] BY <1>1, <1>4, <2>2
  <2> QED BY <1>11, <2>1, <2>2 DEF CloseIterator
<1>12. CASE CloseHelper(g)
  <2>1. place[g] = "suspended" /\ Finish(g, "exited")
    BY <1>12 DEF CloseHelper, Holding, Calling, Computing
  <2>2. taken = Position /\ taken' = taken /\ Position' = Position
    BY <1>12, <2>1 DEF CloseHelper, PullInv, HoldingInv, Settled, Position
  <2>3. ending'[g] = "exited" BY <1>2, <2>1
  <2> QED BY <2>2, <2>3 DEF CommittedEnd
<1> QED BY <1>5, <1>6, <1>7, <1>8, <1>9, <1>10, <1>11, <1>12 DEF HelperRuns

\* While a helper holds the lease, a step is its own, starts everything over, or
\* leaves alone what it will be judged by.
LEMMA OtherHelpersRest ==
    ASSUME PullConstants, PullInv, PullNext, NEW h \in Helper, place[h] \in Holding
    PROVE  \/ HelperRuns(h) \/ CloseHelper(h) \/ Resume(h)
           \/ place'[h] = "new"
           \/ /\ place'[h] = place[h] /\ ending'[h] = ending[h] /\ left'[h] = left[h]
              /\ taken' = taken /\ Position' = Position /\ closed' = closed
<1>1. lease = h /\ lease # Unleased BY DEF PullConstants, PullInv, LeaseIsExact
<1>2. \A g \in Helper : g # h => place[g] \notin Holding BY <1>1 DEF PullInv, LeaseIsExact
<1>3. place \in [Helper -> Places] /\ ending \in [Helper -> {"none", "returned", "exited", "raised"}]
  BY DEF PullInv, PullTypes, Places
<1>4. "new" \notin Holding BY DEF Holding, Calling, Computing
<1>5. ASSUME NEW g \in Helper, g # h PROVE ~ HelperRuns(g) /\ ~ Resume(g) /\ ~ StartHelper(g)
  <2>1. place[g] \notin Holding BY <1>2, <1>5
  <2>2. ~ HelperRuns(g)
    BY <2>1 DEF HelperRuns, Opened, Ask, NextReturns, NextStops, NextRaises, Wave, CloseAtEnd,
                CloseIterator, Holding, Calling, Computing
  <2> QED BY <1>1, <2>1, <2>2 DEF Resume, StartHelper, Leasable, Operable, Holding
<1>6. ASSUME NEW g \in Helper, g # h, Refuse(g) \/ CloseHelper(g)
      PROVE  /\ place'[h] = place[h] /\ ending'[h] = ending[h] /\ left'[h] = left[h]
             /\ taken' = taken /\ Position' = Position /\ closed' = closed
  <2>1. place[g] # "suspended" BY <1>2, <1>6 DEF Holding
  <2>2. MoveHelper(g, "ended") /\ \E how : ending' = [ending EXCEPT ![g] = how]
    BY <1>6, <2>1 DEF Refuse, CloseHelper
  <2>3. left' = left /\ taken' = taken /\ output' = output /\ closed' = closed
    BY <1>6 DEF Refuse, CloseHelper, sessionVars
  <2> QED BY <1>3, <1>6, <2>2, <2>3 DEF MoveHelper, Position
<1>7. ~ StartHelper(h) /\ ~ Refuse(h) BY <1>4 DEF StartHelper, Refuse
<1>8. ~ ProcessDirectly /\ ~ CloseDirectly /\ ~ Seek
  BY <1>1 DEF ProcessDirectly, CloseDirectly, Seek, Operable
<1>9. CASE CloseSession \/ CancelPulls
  BY <1>9 DEF CloseSession, CancelPulls, helperVars, Position
<1>10. CASE Reopen BY <1>10 DEF Reopen
<1>11. CASE \E g \in Helper : HelperRuns(g) \/ StartHelper(g) \/ Refuse(g) \/ Resume(g) \/ CloseHelper(g)
  <2>1. PICK g \in Helper : HelperRuns(g) \/ StartHelper(g) \/ Refuse(g) \/ Resume(g) \/ CloseHelper(g)
    BY <1>11
  <2>2. CASE g = h BY <1>7, <2>1, <2>2
  <2>3. CASE g # h BY <1>5, <1>6, <2>1, <2>3
  <2> QED BY <2>2, <2>3
<1> QED BY <1>8, <1>9, <1>10, <1>11 DEF PullNext, OwnerCalls

LEMMA EndInvKept ==
    ASSUME PullConstants, PullInv, PullInv', EndInv, [PullNext]_pullVars
    PROVE  EndInv'
<1> SUFFICES ASSUME NEW h \in Helper, place'[h] = "close" PROVE CommittedEnd(h)'
  BY DEF EndInv
<1>1. CASE UNCHANGED pullVars BY <1>1 DEF pullVars, EndInv, CommittedEnd, Position
<1>2. CASE PullNext
  <2>1. CASE place[h] \in Holding
    <3>1. CASE HelperRuns(h) \/ CloseHelper(h) BY <2>1, <3>1, HolderEnds
    <3>2. ~ Resume(h)
      <4>1. place \in [Helper -> Places] BY DEF PullInv, PullTypes, Places
      <4> QED BY <4>1 DEF Resume, MoveHelper
    <3>3. CASE /\ place'[h] = place[h] /\ ending'[h] = ending[h] /\ left'[h] = left[h]
               /\ taken' = taken /\ Position' = Position /\ closed' = closed
      BY <3>3 DEF EndInv, CommittedEnd
    <3> QED BY <1>2, <2>1, <3>1, <3>2, <3>3, OtherHelpersRest
  <2>2. CASE place[h] \notin Holding
    <3>1. place[h] \in {"new", "ended"} BY <2>2 DEF PullInv, PullTypes
    <3>2. ~ HelperRuns(h) /\ ~ Resume(h)
      BY <3>1 DEF HelperRuns, Opened, Ask, NextReturns, NextStops, NextRaises, Wave, CloseAtEnd,
                  CloseIterator, Resume
    <3>3. \A g \in Helper, p \in {"open", "ended"} : MoveHelper(g, p) => place'[h] # "close"
      BY <3>1 DEF MoveHelper, PullInv, PullTypes
    <3>4. ~ StartHelper(h) /\ ~ Refuse(h) /\ ~ CloseHelper(h)
      BY <3>1, <3>3 DEF StartHelper, Refuse, CloseHelper
    <3>5. ASSUME NEW g \in Helper, g # h, NEW p, MoveHelper(g, p) PROVE place'[h] # "close"
      BY <3>1, <3>5 DEF MoveHelper, PullInv, PullTypes
    <3>6. ASSUME NEW g \in Helper, g # h,
                 HelperRuns(g) \/ StartHelper(g) \/ Refuse(g) \/ Resume(g) \/ CloseHelper(g)
          PROVE  FALSE
      <4>1. ASSUME NEW how, Finish(g, how) PROVE \E p : MoveHelper(g, p) BY <4>1 DEF Finish
      <4>2. CASE Opened(g) \/ NextReturns(g) \/ NextStops(g)
        BY <3>5, <3>6, <4>2 DEF Opened, NextReturns, NextStops
      <4>3. CASE Ask(g) BY <3>5, <3>6, <4>1, <4>3, AskBranches
      <4>4. CASE NextRaises(g) \/ Wave(g) \/ CloseAtEnd(g)
        BY <3>5, <3>6, <4>1, <4>4 DEF NextRaises, Wave, CloseAtEnd
      <4>5. CASE CloseIterator(g) \/ StartHelper(g) \/ Refuse(g) \/ Resume(g)
        BY <3>5, <3>6, <4>5 DEF CloseIterator, StartHelper, Refuse, Resume
      <4>6. CASE CloseHelper(g) BY <3>5, <3>6, <4>1, <4>6 DEF CloseHelper
      <4> QED BY <3>6, <4>2, <4>3, <4>4, <4>5, <4>6 DEF HelperRuns
    <3>7. ~ (ProcessDirectly \/ CloseDirectly \/ Seek \/ CloseSession \/ CancelPulls)
      BY <3>1 DEF ProcessDirectly, CloseDirectly, Seek, CloseSession, CancelPulls, helperVars
    <3>8. ~ Reopen BY DEF Reopen
    <3> QED BY <1>2, <3>2, <3>4, <3>6, <3>7, <3>8 DEF PullNext, OwnerCalls
  <2> QED BY <2>1, <2>2
<1> QED BY <1>1, <1>2

\* A helper's caller never misses a record: when it is yielded to, has closed the
\* helper or has seen its end, all that was taken out of the source is published,
\* and the end means the source's end or the cap (LocalPartitionedFlow.run).
THEOREM YieldsStayCommitted ==
    ASSUME PullConstants
    PROVE  PullSpec => YieldsAreCommitted
<1> DEFINE Step ==
        \A h \in Helper :
          place[h] \in Holding /\ place'[h] # place[h] =>
              /\ place'[h] = "suspended" \/ (place'[h] = "ended" /\ ending'[h] \in {"returned", "exited"})
                    => taken' = Position'
              /\ place'[h] = "ended" /\ ending'[h] = "returned" => closed' = "helper" \/ left'[h] = 0
<1>1. PullInit => EndInv BY DEF PullInit, FreshHelpers, EndInv
<1>2. PullInv /\ PullInv' /\ EndInv /\ [PullNext]_pullVars => EndInv' BY EndInvKept
<1>3. PullInv /\ PullInv' /\ EndInv /\ [PullNext]_pullVars => [Step]_pullVars
  <2> SUFFICES ASSUME PullInv, PullInv', EndInv, PullNext,
                      NEW h \in Helper, place[h] \in Holding, place'[h] # place[h]
               PROVE  /\ place'[h] = "suspended"
                            \/ (place'[h] = "ended" /\ ending'[h] \in {"returned", "exited"})
                            => taken' = Position'
                      /\ place'[h] = "ended" /\ ending'[h] = "returned"
                            => closed' = "helper" \/ left'[h] = 0
    OBVIOUS
  <2>1. CASE place'[h] = "suspended"
    BY <2>1 DEF PullInv, HoldingInv, Settled, Holding
  <2>2. CASE place'[h] = "ended"
    <3>1. HelperRuns(h) \/ CloseHelper(h)
      <4>1. ~ Resume(h)
        <5>1. place \in [Helper -> Places] BY DEF PullInv, PullTypes, Places
        <5> QED BY <2>2, <5>1 DEF Resume, MoveHelper
      <4> QED BY <2>2, <4>1, OtherHelpersRest
    <3>2. CommittedEnd(h)' BY <2>2, <3>1, HolderEnds
    <3> QED BY <2>2, <3>2 DEF CommittedEnd
  <2> QED BY <2>1, <2>2
<1>4. PullSpec => []PullInv BY PullInvStays
<1> QED BY <1>1, <1>2, <1>3, <1>4, PTL DEF PullSpec, YieldsAreCommitted
=============================================================================
