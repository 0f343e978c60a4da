--------------------------- MODULE WindowFoldProofs ---------------------------
(***************************************************************************)
(* Proofs about WindowFoldRuntime, for any keys, configurations,           *)
(* timestamps and drain sizes: every window is exact and emitted once, in  *)
(* order, and every reachable state passes its own restore.                *)
(***************************************************************************)
EXTENDS WindowFoldRuntime, ProofLemmas, SequenceTheorems

-----------------------------------------------------------------------------
(***************************************************************************)
(* Geometry: the windows first .. last are those the timestamp lies in.    *)
(***************************************************************************)

\* What is assumed of a configuration, in the arithmetic the proofs use.
LEMMA SpecTyped ==
    ASSUME NEW sp \in Specs
    PROVE  /\ MaxCount \in Nat /\ Key \subseteq Int
           /\ sp.width \in Nat \ {0} /\ sp.hop \in Nat \ {0} /\ sp.origin \in Int
           /\ sp.windowsPerInput \in Nat \ {0} /\ sp.rowsPerBatch \in Nat \ {0}
           /\ sp.rowBytes \in Nat \ {0} /\ sp.batchBytes \in Nat \ {0}
           /\ sp.rowBytes <= sp.batchBytes
<1>1. MaxCount \in Nat /\ Key \subseteq Int BY WindowAssumption DEF WindowConstants
<1>2. /\ sp.width \in 1 .. MaxCount /\ sp.hop \in 1 .. MaxCount
      /\ sp.origin \in -MaxCount .. MaxCount
  BY WindowAssumption DEF WindowConstants
<1>3. /\ \A field \in {"windowsPerInput", "keys", "windows", "inputs", "stateBytes",
                       "rowBytes", "rowsPerBatch", "batchBytes"} : sp[field] \in Nat \ {0}
      /\ sp.rowBytes <= sp.batchBytes
  BY WindowAssumption DEF WindowConstants
<1>4. /\ sp.windowsPerInput \in Nat \ {0} /\ sp.rowsPerBatch \in Nat \ {0}
      /\ sp.rowBytes \in Nat \ {0} /\ sp.batchBytes \in Nat \ {0}
  BY <1>3
<1> QED BY <1>1, <1>2, <1>3, <1>4

LEMMA LimitsTyped ==
    ASSUME NEW sp \in Specs
    PROVE  /\ sp.inputs \in Nat \ {0} /\ sp.windows \in Nat \ {0}
           /\ sp.keys \in Nat \ {0} /\ sp.stateBytes \in Nat \ {0}
<1>1. \A field \in {"windowsPerInput", "keys", "windows", "inputs", "stateBytes",
                    "rowBytes", "rowsPerBatch", "batchBytes"} : sp[field] \in Nat \ {0}
  BY WindowAssumption DEF WindowConstants
<1> QED BY <1>1

\* Division rounds down.
LEMMA DivAdjoint ==
    ASSUME NEW a \in Int, NEW h \in Nat \ {0}, NEW i \in Int
    PROVE  a \div h \in Int /\ (i <= a \div h <=> i * h <= a)
<1> DEFINE q == a \div h
<1>1. q \in Int /\ q * h <= a /\ a < q * h + h OBVIOUS
<1> HIDE DEF q
<1>2. ASSUME i <= q PROVE i * h <= a
  <2>1. i * h <= q * h BY <1>1, <1>2
  <2>2. i * h \in Int /\ q * h \in Int BY <1>1
  <2> QED BY <1>1, <2>1, <2>2
<1>3. ASSUME i * h <= a PROVE i <= q
  <2>1. i * h \in Int /\ q * h \in Int BY <1>1
  <2>2. i * h < q * h + h BY <1>1, <1>3, <2>1
  <2> QED BY <1>1, <2>2
<1> QED BY <1>1, <1>2, <1>3 DEF q

LEMMA Geometry ==
    ASSUME NEW sp \in Specs, NEW t \in Int, NEW i \in Int
    PROVE  i \in Members(sp, t) <=> Start(sp, i) <= t /\ t < End(sp, i)
<1> DEFINE h == sp.hop
           w == sp.width
           o == sp.origin
<1>1. h \in Nat \ {0} /\ w \in Nat \ {0} /\ o \in Int BY SpecTyped
<1> HIDE DEF h, w, o
<1>2. (t - o) \div h \in Int /\ (i <= (t - o) \div h <=> i * h <= t - o)
  BY <1>1, DivAdjoint
<1>3. /\ (t - o - w) \div h \in Int
      /\ i <= (t - o - w) \div h <=> i * h <= t - o - w
  <2>1. t - o - w \in Int BY <1>1
  <2> QED BY <1>1, <2>1, DivAdjoint
<1>4. i * h \in Int BY <1>1
<1>5. i \in Members(sp, t) <=> ~ (i <= (t - o - w) \div h) /\ i <= (t - o) \div h
  BY <1>2, <1>3 DEF Members, FirstWindow, LastWindow, h, w, o
<1>6. Start(sp, i) <= t /\ t < End(sp, i) <=> i * h <= t - o /\ ~ (i * h <= t - o - w)
  BY <1>1, <1>4 DEF Start, End, h, w, o
<1> QED BY <1>2, <1>3, <1>5, <1>6

\* A later window ends later.
LEMMA EndGrows ==
    ASSUME NEW sp \in Specs, NEW i \in Int, NEW j \in Int
    PROVE  /\ Start(sp, i) \in Int /\ End(sp, i) \in Int
           /\ End(sp, i) < End(sp, j) <=> i < j
<1> DEFINE h == sp.hop
<1>1. h \in Nat \ {0} /\ sp.width \in Int /\ sp.origin \in Int BY SpecTyped
<1> HIDE DEF h
<1>2. i * h \in Int /\ j * h \in Int BY <1>1
<1>3. i * h < j * h <=> i < j
  <2>1. ASSUME i < j PROVE i * h < j * h
    <3>1. (i + 1) * h <= j * h BY <1>1, <2>1
    <3>2. (i + 1) * h = i * h + h BY <1>1
    <3> QED BY <1>1, <1>2, <3>1, <3>2
  <2>2. ASSUME ~ (i < j) PROVE ~ (i * h < j * h)
    <3>1. j <= i BY <2>2
    <3>2. j * h <= i * h BY <1>1, <3>1
    <3> QED BY <1>2, <3>2
  <2> QED BY <2>1, <2>2
<1> QED BY <1>1, <1>2, <1>3 DEF Start, End, h

LEMMA MembersFinite ==
    ASSUME NEW sp \in Specs, NEW t \in Int
    PROVE  /\ Members(sp, t) \subseteq Int /\ IsFiniteSet(Members(sp, t))
           /\ FirstWindow(sp, t) \in Int /\ LastWindow(sp, t) \in Int
<1>1. sp.hop \in Nat \ {0} /\ sp.width \in Int /\ sp.origin \in Int BY SpecTyped
<1>2. t - sp.origin \in Int /\ t - sp.origin - sp.width \in Int BY <1>1
<1>3. FirstWindow(sp, t) \in Int /\ LastWindow(sp, t) \in Int
  BY <1>1, <1>2, DivAdjoint DEF FirstWindow, LastWindow
<1> QED BY <1>3, FS_Interval DEF Members

-----------------------------------------------------------------------------
(***************************************************************************)
(* The order of identities, and their ranks in a finite set.               *)
(***************************************************************************)
Identities == Int \X Key

Rank(ids, id) == Cardinality({e \in ids : Before(e, id)})

LEMMA BeforeOrders ==
    ASSUME NEW a \in Identities, NEW b \in Identities, NEW c \in Identities,
           Key \subseteq Int
    PROVE  /\ ~ Before(a, a)
           /\ Before(a, b) /\ Before(b, c) => Before(a, c)
           /\ Before(a, b) \/ a = b \/ Before(b, a)
<1>1. /\ a[1] \in Int /\ a[2] \in Int /\ b[1] \in Int /\ b[2] \in Int
      /\ c[1] \in Int /\ c[2] \in Int
  BY DEF Identities
<1>2. a[1] = b[1] /\ a[2] = b[2] => a = b BY DEF Identities
<1> QED BY <1>1, <1>2 DEF Before

LEMMA RankTyped ==
    ASSUME NEW ids, IsFiniteSet(ids), NEW id \in ids, ~ Before(id, id)
    PROVE  Rank(ids, id) \in 0 .. Cardinality(ids) - 1
<1> DEFINE below == {e \in ids : Before(e, id)}
           rest == ids \ {id}
<1>1. IsFiniteSet(rest) /\ Cardinality(rest) = Cardinality(ids) - 1
  BY FS_RemoveElement
<1>2. below \subseteq rest OBVIOUS
<1> HIDE DEF below, rest
<1>3. IsFiniteSet(below) /\ Cardinality(below) <= Cardinality(rest) BY <1>1, <1>2, FS_Subset
<1>4. Cardinality(below) \in Nat /\ Cardinality(ids) \in Nat BY <1>3, FS_CardinalityType
<1> QED BY <1>1, <1>3, <1>4 DEF Rank, below

\* Ranks grow with the order.
LEMMA RankGrows ==
    ASSUME NEW ids \in SUBSET Identities, IsFiniteSet(ids), Key \subseteq Int,
           NEW a \in Identities, NEW b \in Identities, Before(a, b), a \in ids
    PROVE  /\ Rank(ids, a) \in Nat /\ Rank(ids, b) \in Nat
           /\ Rank(ids, a) < Rank(ids, b)
<1> DEFINE A == {e \in ids : Before(e, a)}
           B == {e \in ids : Before(e, b)}
<1>1. A \subseteq ids /\ B \subseteq ids OBVIOUS
<1>2. a \notin A BY BeforeOrders
<1>3. \A e \in A : Before(e, b) BY BeforeOrders
<1>4. A \cup {a} \subseteq B BY <1>3
<1>5. Rank(ids, a) = Cardinality(A) /\ Rank(ids, b) = Cardinality(B) BY DEF Rank
<1> HIDE DEF A, B
<1>6. IsFiniteSet(A) /\ IsFiniteSet(B) BY <1>1, FS_Subset
<1>7. IsFiniteSet(A \cup {a}) /\ Cardinality(A \cup {a}) = Cardinality(A) + 1
  BY <1>2, <1>6, FS_AddElement
<1>8. Cardinality(A \cup {a}) <= Cardinality(B) BY <1>4, <1>6, FS_Subset
<1>9. Cardinality(A) \in Nat /\ Cardinality(B) \in Nat BY <1>6, FS_CardinalityType
<1> QED BY <1>5, <1>7, <1>8, <1>9

\* Whatever is below something of smaller rank precedes it.
LEMMA RankOrders ==
    ASSUME NEW ids \in SUBSET Identities, IsFiniteSet(ids), Key \subseteq Int,
           NEW a \in ids, NEW b \in ids
    PROVE  /\ Before(a, b) <=> Rank(ids, a) < Rank(ids, b)
           /\ Rank(ids, a) = Rank(ids, b) => a = b
<1>1. Before(a, b) \/ a = b \/ Before(b, a) BY BeforeOrders
<1>2. Before(a, b) => /\ Rank(ids, a) \in Nat /\ Rank(ids, b) \in Nat
                      /\ Rank(ids, a) < Rank(ids, b)
  BY RankGrows
<1>3. Before(b, a) => /\ Rank(ids, a) \in Nat /\ Rank(ids, b) \in Nat
                      /\ Rank(ids, b) < Rank(ids, a)
  BY RankGrows
<1>4. CASE a = b
  <2>1. ~ Before(a, a) BY BeforeOrders
  <2>2. Rank(ids, a) \in 0 .. Cardinality(ids) - 1 BY <2>1, RankTyped
  <2>3. ~ (Rank(ids, a) < Rank(ids, a)) BY <2>2
  <2> QED BY <1>4, <2>1, <2>3
<1> QED BY <1>1, <1>2, <1>3, <1>4

\* There is one of every rank.
LEMMA RankReached ==
    ASSUME NEW ids \in SUBSET Identities, IsFiniteSet(ids), Key \subseteq Int,
           NEW n \in 0 .. Cardinality(ids) - 1
    PROVE  \E id \in ids : Rank(ids, id) = n
<1> DEFINE m == Cardinality(ids)
           T == 0 .. m - 1
           f == [id \in ids |-> Rank(ids, id)]
<1>1. m \in Nat BY FS_CardinalityType
<1>2. IsFiniteSet(T) /\ Cardinality(T) = m
  <2> HIDE DEF m
  <2>1. IsFiniteSet(0 .. m - 1) /\ Cardinality(0 .. m - 1) = IF 0 > m - 1 THEN 0 ELSE m - 1 - 0 + 1
    BY <1>1, FS_Interval
  <2> QED BY <1>1, <2>1
<1>3. \A id \in ids : Rank(ids, id) \in T
  <2>1. \A id \in ids : ~ Before(id, id) BY BeforeOrders
  <2> QED BY <2>1, RankTyped
<1>4. f \in [ids -> T]
  <2> HIDE DEF T
  <2> QED BY <1>3
<1>5. \A a, b \in ids : f[a] = f[b] => a = b BY RankOrders
<1> HIDE DEF T, f, m
<1>6. f \in Injection(ids, T) BY <1>4, <1>5 DEF Injection, IsInjective
<1>7. Cardinality(ids) = Cardinality(T) BY <1>2 DEF m
<1>8. f \in Surjection(ids, T) BY <1>2, <1>6, <1>7, FS_Injection
<1>9. n \in T BY DEF T, m
<1>10. \E id \in ids : f[id] = n BY <1>8, <1>9 DEF Surjection
<1> QED BY <1>10 DEF f

-----------------------------------------------------------------------------
(***************************************************************************)
(* The contributions to a window, one input at a time.                     *)
(***************************************************************************)
Input == [time : Tick, key : Key, outcome : {"folded", "late_dropped", "gap"}]

Row == [index : Int, key : Key, count : Nat, value : Seq(Nat)]

Contributes(sp, input, i, k) ==
    /\ input.outcome = "folded" /\ input.key = k
    /\ Start(sp, i) <= input.time /\ input.time < End(sp, i)

Within(sp, seq, i, k) == {n \in DOMAIN seq : Contributes(sp, seq[n], i, k)}

Numbers(seq) == [n \in DOMAIN seq |-> n]

Folds(sp, seq, i, k) == Filtered(Numbers(seq), Within(sp, seq, i, k))

LEMMA ContributionsAre ==
    ASSUME NEW i, NEW k
    PROVE  /\ Contributions(i, k) = Folds(spec, inputs, i, k)
           /\ Contributions(i, k)' = Folds(spec', inputs', i, k)
<1> QED BY DEF Contributions, Folds, Within, Contributes, Numbers

LEMMA FoldsAppend ==
    ASSUME NEW sp, NEW seq \in Seq(Input), NEW x \in Input, NEW i, NEW k
    PROVE  Folds(sp, Append(seq, x), i, k) =
              IF Contributes(sp, x, i, k) THEN Append(Folds(sp, seq, i, k), Len(seq) + 1)
              ELSE Folds(sp, seq, i, k)
<1> DEFINE longer == Append(seq, x)
           L == Len(seq)
           W == Within(sp, longer, i, k)
<1>1. /\ L \in Nat /\ longer \in Seq(Input) /\ Len(longer) = L + 1
      /\ longer[L + 1] = x /\ \A n \in 1 .. L : longer[n] = seq[n]
  BY AppendProperties
<1>2. DOMAIN seq = 1 .. L /\ DOMAIN longer = 1 .. L + 1 BY <1>1, LenProperties
<1> HIDE DEF longer, L
<1>3. Numbers(seq) \in Seq(Nat) /\ Len(Numbers(seq)) = L
  BY <1>1, <1>2 DEF Numbers
<1>4. Numbers(longer) = Append(Numbers(seq), L + 1)
  <2>1. Numbers(longer) \in Seq(Nat) /\ Len(Numbers(longer)) = L + 1
    BY <1>1, <1>2 DEF Numbers
  <2>2. /\ Append(Numbers(seq), L + 1) \in Seq(Nat)
        /\ Len(Append(Numbers(seq), L + 1)) = L + 1
        /\ Append(Numbers(seq), L + 1)[L + 1] = L + 1
        /\ \A n \in 1 .. L : Append(Numbers(seq), L + 1)[n] = Numbers(seq)[n]
    BY <1>1, <1>3, AppendProperties
  <2>3. \A n \in 1 .. L + 1 : Numbers(longer)[n] = Append(Numbers(seq), L + 1)[n]
    BY <1>1, <1>2, <2>2 DEF Numbers
  <2> QED BY <2>1, <2>2, <2>3, SeqEqual
<1>5. L + 1 \in W <=> Contributes(sp, x, i, k) BY <1>1, <1>2 DEF Within
<1>6. \A n \in 1 .. L : n \in W <=> n \in Within(sp, seq, i, k) BY <1>1, <1>2 DEF Within
<1> HIDE DEF W
<1>7. Filtered(Append(Numbers(seq), L + 1), W) =
         IF L + 1 \in W THEN Append(Filtered(Numbers(seq), W), L + 1)
         ELSE Filtered(Numbers(seq), W)
  <2> DEFINE m == L + 1
             N == Numbers(seq)
  <2>1. N \in Seq(Nat) /\ m \in Nat BY <1>1, <1>3
  <2> HIDE DEF m, N
  <2>2. Filtered(Append(N, m), W) =
           IF m \in W THEN Append(Filtered(N, W), m) ELSE Filtered(N, W)
    BY ONLY <2>1, FilteredAppend
  <2> QED BY <2>2 DEF m, N
<1>8. Filtered(Numbers(seq), W) = Filtered(Numbers(seq), Within(sp, seq, i, k))
  <2>1. \A n \in 1 .. L : Numbers(seq)[n] = n BY <1>2 DEF Numbers
  <2> QED BY <1>1, <1>3, <1>6, <2>1, FilteredSame
<1>9. Folds(sp, longer, i, k) = Filtered(Append(Numbers(seq), L + 1), W)
  BY <1>4 DEF Folds, W
<1>10. Folds(sp, seq, i, k) = Filtered(Numbers(seq), W) BY <1>8 DEF Folds
<1> QED BY <1>5, <1>7, <1>9, <1>10 DEF longer, L

LEMMA FoldsNone ==
    ASSUME NEW sp, NEW seq \in Seq(Input), NEW i, NEW k,
           \A n \in DOMAIN seq : ~ Contributes(sp, seq[n], i, k)
    PROVE  Folds(sp, seq, i, k) = <<>>
<1>1. DOMAIN seq = 1 .. Len(seq) /\ Len(seq) \in Nat BY LenProperties
<1>2. Len(Numbers(seq)) \in Nat /\ Len(Numbers(seq)) = Len(seq)
  BY <1>1 DEF Numbers
<1>3. \A n \in 1 .. Len(seq) : Numbers(seq)[n] \notin Within(sp, seq, i, k)
  BY <1>1 DEF Numbers, Within
<1> QED BY <1>2, <1>3, FilteredNone DEF Folds

-----------------------------------------------------------------------------
(***************************************************************************)
(* The inductive invariant: beside exactness, that what was emitted is     *)
(* past, so that no later input reaches it.                                *)
(***************************************************************************)
StateFields ==
    {"cells", "watermark", "finished", "processed", "lateDrops", "gaps", "updates",
     "created", "emitted", "finalized", "bytes"}

StateTyped(s) ==
    /\ DOMAIN s = StateFields
    /\ DOMAIN s.cells \subseteq Identities /\ IsFiniteSet(DOMAIN s.cells)
    /\ \A id \in DOMAIN s.cells : s.cells[id] \in Cell
    /\ s.watermark \in Tick \cup {NoWatermark} /\ s.finished \in BOOLEAN
    /\ s.processed \in Nat

\* Nothing that is not late lies in a window of this index any more.
Passed(sp, s, i) == s.finished \/ End(sp, i) <= s.watermark

FoldInv ==
    /\ spec \in Specs /\ StateTyped(state)
    /\ inputs \in Seq(Input) /\ rows \in Seq(Row)
    /\ state.processed = Len(inputs)
    /\ \A r \in DOMAIN rows : Passed(spec, state, rows[r].index)
    /\ WindowsExact

-----------------------------------------------------------------------------
(***************************************************************************)
(* What the operations do to the fields of a state.                        *)
(***************************************************************************)
CellsOf(k, is) == {<<i, k>> : i \in is}

\* What an input that is not folded leaves alone.
SameBut(s, after, fields) ==
    /\ DOMAIN after = StateFields
    /\ \A field \in StateFields \ fields : after[field] = s[field]

LEMMA SkipFields ==
    ASSUME NEW s, DOMAIN s = StateFields
    PROVE  /\ LET after == [s EXCEPT !.processed = @ + 1, !.lateDrops = @ + 1]
              IN  /\ SameBut(s, after, {"processed", "lateDrops"})
                  /\ after.processed = s.processed + 1 /\ after.lateDrops = s.lateDrops + 1
           /\ LET after == [s EXCEPT !.processed = @ + 1, !.gaps = @ + 1]
              IN  /\ SameBut(s, after, {"processed", "gaps"})
                  /\ after.processed = s.processed + 1 /\ after.gaps = s.gaps + 1
           /\ \A t : LET after == StageAdvance(s, t)
                     IN  SameBut(s, after, {"watermark"}) /\ after.watermark = t
           /\ LET after == StageFinish(s)
              IN  SameBut(s, after, {"finished"}) /\ after.finished = TRUE
<1> QED BY DEF SameBut, StateFields, StageAdvance, StageFinish

\* An input is taken by an open runtime only, and not behind its watermark.
LEMMA OutcomeAdmits ==
    ASSUME NEW sp, NEW s, NEW t, NEW k, NEW x, Outcome(sp, s, t, k, x) # "refused"
    PROVE  /\ Pending(sp, s) = {} /\ s.finished # TRUE
           /\ t \in Tick /\ ~ (s.processed + 1 > sp.inputs)
           /\ Outcome(sp, s, t, k, x) \in {"folded", "late_dropped", "gap"}
           /\ Outcome(sp, s, t, k, x) = "late_dropped" => sp.late # "reject"
           /\ Outcome(sp, s, t, k, x) # "late_dropped" => ~ (t < s.watermark)
           /\ Outcome(sp, s, t, k, x) = "gap" => Members(sp, t) = {}
           /\ Outcome(sp, s, t, k, x) = "folded" =>
                 Members(sp, t) # {} /\ FoldAdmitted(sp, s, t, k, x)
<1>1. Phase(sp, s) = "open" /\ t \in Tick /\ ~ (s.processed + 1 > sp.inputs)
  BY DEF Outcome
<1>2. Pending(sp, s) = {} /\ s.finished # TRUE BY <1>1 DEF Phase
<1> HIDE DEF Pending
<1> QED BY <1>1, <1>2 DEF Outcome, Late

-----------------------------------------------------------------------------
(***************************************************************************)
(* The steps that fold and emit nothing.                                   *)
(***************************************************************************)
LEMMA TickTyped ==
    ASSUME NEW sp \in Specs
    PROVE  Tick \subseteq Int /\ NoWatermark \in Int /\ \A t \in Tick : NoWatermark < t
<1>1. MaxCount \in Nat BY SpecTyped
<1> QED BY <1>1 DEF Tick, NoWatermark

LEMMA ContributionsNext ==
    ASSUME spec \in Specs, spec' = spec, inputs \in Seq(Input),
           NEW input \in Input, inputs' = Append(inputs, input)
    PROVE  \A i \in Int, k \in Key :
              Contributions(i, k)' =
                 IF input.outcome = "folded" /\ input.key = k /\ i \in Members(spec, input.time)
                   THEN Append(Contributions(i, k), Len(inputs) + 1)
                 ELSE Contributions(i, k)
<1> SUFFICES ASSUME NEW i \in Int, NEW k \in Key
             PROVE  Contributions(i, k)' =
                       IF /\ input.outcome = "folded" /\ input.key = k
                          /\ i \in Members(spec, input.time)
                         THEN Append(Contributions(i, k), Len(inputs) + 1)
                       ELSE Contributions(i, k)
  OBVIOUS
<1>1. input.time \in Int
  <2>1. input.time \in Tick BY DEF Input
  <2> QED BY <2>1, TickTyped
<1>2. i \in Members(spec, input.time) <=>
         Start(spec, i) <= input.time /\ input.time < End(spec, i)
  BY <1>1, Geometry
<1>3. Folds(spec, Append(inputs, input), i, k) =
         IF Contributes(spec, input, i, k) THEN Append(Folds(spec, inputs, i, k), Len(inputs) + 1)
         ELSE Folds(spec, inputs, i, k)
  <2> SUFFICES ASSUME NEW sp, NEW seq \in Seq(Input)
               PROVE  Folds(sp, Append(seq, input), i, k) =
                         IF Contributes(sp, input, i, k)
                           THEN Append(Folds(sp, seq, i, k), Len(seq) + 1)
                         ELSE Folds(sp, seq, i, k)
    OBVIOUS
  <2> QED BY ONLY FoldsAppend
<1>4. /\ Contributions(i, k) = Folds(spec, inputs, i, k)
      /\ Contributions(i, k)' = Folds(spec, Append(inputs, input), i, k)
  BY ContributionsAre
<1> QED BY <1>2, <1>3, <1>4 DEF Contributes

LEMMA InputsNext ==
    ASSUME inputs \in Seq(Input), NEW input \in Input, inputs' = Append(inputs, input)
    PROVE  /\ inputs' \in Seq(Input)
           /\ Len(inputs) \in Nat /\ Len(inputs') = Len(inputs) + 1
           /\ DOMAIN inputs = 1 .. Len(inputs) /\ DOMAIN inputs' = 1 .. Len(inputs) + 1
           /\ \A n \in DOMAIN inputs : n \in DOMAIN inputs' /\ inputs'[n] = inputs[n]
           /\ inputs'[Len(inputs) + 1] = input
           /\ \A n \in DOMAIN inputs' : n \in DOMAIN inputs \/ n = Len(inputs) + 1
<1>1. /\ inputs' \in Seq(Input) /\ Len(inputs') = Len(inputs) + 1
      /\ \A n \in 1 .. Len(inputs) : inputs'[n] = inputs[n]
      /\ inputs'[Len(inputs) + 1] = input
  BY AppendProperties
<1>2. /\ Len(inputs) \in Nat /\ DOMAIN inputs = 1 .. Len(inputs)
      /\ DOMAIN inputs' = 1 .. Len(inputs')
  BY <1>1, LenProperties
<1> QED BY <1>1, <1>2

\* Exactness stays where no cell changes and no input is folded.
LEMMA CellsKept ==
    ASSUME WindowsExact, spec \in Specs, rows \in Seq(Row),
           spec' = spec, rows' = rows, state'.cells = state.cells,
           DOMAIN state.cells \subseteq Identities,
           \A i \in Int, k \in Key : Contributions(i, k)' = Contributions(i, k),
           \A n \in DOMAIN inputs' : inputs'[n].outcome = "folded" =>
              n \in DOMAIN inputs /\ inputs'[n] = inputs[n]
    PROVE  WindowsExact'
<1>1. RowsOrdered' BY DEF WindowsExact, RowsOrdered, Before
<1>2. \A id \in DOMAIN state'.cells :
         /\ state'.cells[id].value = Contributions(id[1], id[2])'
         /\ state'.cells[id].count = Len(state'.cells[id].value)
  <2>1. \A id \in DOMAIN state.cells : id[1] \in Int /\ id[2] \in Key BY DEF Identities
  <2>2. \A id \in DOMAIN state.cells :
           Contributions(id[1], id[2])' = Contributions(id[1], id[2])
    BY <2>1
  <2> QED BY <2>2 DEF WindowsExact
<1>3. \A r \in DOMAIN rows' :
         /\ rows'[r].value = Contributions(rows[r].index, rows[r].key)'
         /\ rows'[r].count = Len(rows'[r].value)
  <2>1. \A r \in DOMAIN rows : rows[r].index \in Int /\ rows[r].key \in Key
    <3>1. \A r \in DOMAIN rows : rows[r] \in Row BY LenProperties
    <3> QED BY <3>1 DEF Row
  <2>2. \A r \in DOMAIN rows : Contributions(rows[r].index, rows[r].key)'
                                 = Contributions(rows[r].index, rows[r].key)
    BY <2>1
  <2> QED BY <2>2 DEF WindowsExact
<1>4. \A n \in DOMAIN inputs' : inputs'[n].outcome = "folded" =>
         \A i \in Members(spec', inputs'[n].time) :
            <<i, inputs'[n].key>> \in DOMAIN state'.cells \cup Emitted'
  BY DEF WindowsExact, Emitted
<1> QED BY <1>1, <1>2, <1>3, <1>4 DEF WindowsExact

\* An input that is late or falls into a gap.
LEMMA SkipStep ==
    ASSUME FoldInv, NEW t, NEW k \in Key, Process(t, k),
           Outcome(spec, state, t, k, state.processed + 1) # "folded"
    PROVE  FoldInv'
<1> DEFINE outcome == Outcome(spec, state, t, k, state.processed + 1)
           input == [time |-> t, key |-> k, outcome |-> outcome]
<1>1. /\ outcome # "refused" /\ inputs' = Append(inputs, input)
      /\ state' = StageProcess(spec, state, t, k, state.processed + 1)
      /\ spec' = spec /\ rows' = rows
  BY DEF Process
<1>2. t \in Tick /\ outcome \in {"late_dropped", "gap"}
  <2>1. t \in Tick /\ outcome \in {"folded", "late_dropped", "gap"}
    BY <1>1 DEF Outcome
  <2> HIDE DEF outcome
  <2>2. outcome # "folded" BY DEF outcome
  <2> QED BY <2>1, <2>2
<1>3. input \in Input BY <1>2 DEF Input
<1>4. DOMAIN state = StateFields /\ spec \in Specs BY DEF FoldInv, StateTyped
<1>5. \E fields \in SUBSET {"processed", "lateDrops", "gaps"} : SameBut(state, state', fields)
  <2>1. CASE outcome = "late_dropped"
    <3>1. state' = [state EXCEPT !.processed = @ + 1, !.lateDrops = @ + 1]
      BY <1>1, <2>1 DEF StageProcess
    <3> QED BY <1>4, <3>1, SkipFields
  <2>2. CASE outcome = "gap"
    <3>1. state' = [state EXCEPT !.processed = @ + 1, !.gaps = @ + 1]
      BY <1>1, <2>2 DEF StageProcess
    <3> QED BY <1>4, <3>1, SkipFields
  <2> QED BY <1>2, <2>1, <2>2
<1>6. state'.processed = state.processed + 1
  <2>1. CASE outcome = "late_dropped"
    <3>1. state' = [state EXCEPT !.processed = @ + 1, !.lateDrops = @ + 1]
      BY <1>1, <2>1 DEF StageProcess
    <3> QED BY <1>4, <3>1, SkipFields
  <2>2. CASE outcome = "gap"
    <3>1. state' = [state EXCEPT !.processed = @ + 1, !.gaps = @ + 1]
      BY <1>1, <2>2 DEF StageProcess
    <3> QED BY <1>4, <3>1, SkipFields
  <2> QED BY <1>2, <2>1, <2>2
<1> DEFINE same == state'.cells = state.cells /\ state'.watermark = state.watermark
                     /\ state'.finished = state.finished
<1>7. DOMAIN state' = StateFields /\ same BY <1>5 DEF SameBut, StateFields
<1>8. inputs \in Seq(Input) /\ state.processed = Len(inputs) /\ rows \in Seq(Row)
  BY DEF FoldInv
<1> HIDE DEF input
<1>9. /\ inputs' \in Seq(Input) /\ Len(inputs') = Len(inputs) + 1 /\ Len(inputs) \in Nat
      /\ inputs'[Len(inputs) + 1] = input
      /\ \A n \in DOMAIN inputs : n \in DOMAIN inputs' /\ inputs'[n] = inputs[n]
      /\ \A n \in DOMAIN inputs' : n \in DOMAIN inputs \/ n = Len(inputs) + 1
  BY <1>1, <1>3, <1>8, InputsNext
<1>10. StateTyped(state)' BY <1>6, <1>7, <1>8, <1>9 DEF FoldInv, StateTyped
<1>11. input.outcome # "folded" BY <1>2 DEF input
<1>12. WindowsExact'
  <2>1. \A i \in Int, l \in Key : Contributions(i, l)' = Contributions(i, l)
    <3> HIDE DEF outcome
    <3> QED BY <1>1, <1>3, <1>4, <1>8, <1>11, ContributionsNext
  <2>2. \A n \in DOMAIN inputs' : inputs'[n].outcome = "folded" =>
           n \in DOMAIN inputs /\ inputs'[n] = inputs[n]
    BY <1>9, <1>11
  <2>3. WindowsExact /\ DOMAIN state.cells \subseteq Identities BY DEF FoldInv, StateTyped
  <2> QED BY <1>1, <1>4, <1>7, <1>8, <2>1, <2>2, <2>3, CellsKept
<1>13. \A r \in DOMAIN rows' : Passed(spec', state', rows'[r].index)
  BY <1>1, <1>7 DEF FoldInv, Passed
<1> QED BY <1>1, <1>4, <1>6, <1>8, <1>9, <1>10, <1>12, <1>13 DEF FoldInv

\* A watermark moves forward, and finish passes everything.
LEMMA ProgressStep ==
    ASSUME FoldInv, NEW t, AdvanceWatermark(t) \/ Finish
    PROVE  FoldInv'
<1>1. spec' = spec /\ inputs' = inputs /\ rows' = rows BY DEF AdvanceWatermark, Finish
<1>2. /\ DOMAIN state = StateFields /\ spec \in Specs /\ StateTyped(state)
      /\ rows \in Seq(Row)
  BY DEF FoldInv, StateTyped
<1>3. /\ DOMAIN state' = StateFields /\ state'.cells = state.cells
      /\ state'.processed = state.processed
      /\ \/ /\ state'.finished = state.finished
            /\ t \in Tick /\ state'.watermark = t /\ t >= state.watermark
         \/ state'.finished = TRUE /\ state'.watermark = state.watermark
  <2>1. CASE AdvanceWatermark(t)
    <3>1. /\ state' = StageAdvance(state, t) /\ t \in Tick /\ t >= state.watermark
      BY <2>1 DEF AdvanceWatermark, AdvanceAdmitted
    <3>2. SameBut(state, state', {"watermark"}) /\ state'.watermark = t
      BY <1>2, <3>1, SkipFields
    <3> QED BY <3>1, <3>2 DEF SameBut, StateFields
  <2>2. CASE Finish
    <3>1. state' = StageFinish(state) BY <2>2 DEF Finish
    <3>2. SameBut(state, state', {"finished"}) /\ state'.finished = TRUE
      BY <1>2, <3>1, SkipFields
    <3> QED BY <3>1, <3>2 DEF SameBut, StateFields
  <2> QED BY <2>1, <2>2
<1>4. StateTyped(state)' BY <1>2, <1>3 DEF StateTyped
<1>5. WindowsExact'
  <2>1. \A i \in Int, l \in Key : Contributions(i, l)' = Contributions(i, l)
    BY <1>1, ContributionsAre
  <2>2. WindowsExact /\ DOMAIN state.cells \subseteq Identities BY DEF FoldInv, StateTyped
  <2> QED BY <1>1, <1>2, <1>3, <2>1, <2>2, CellsKept
<1>6. \A r \in DOMAIN rows' : Passed(spec', state', rows'[r].index)
  <2> SUFFICES ASSUME NEW r \in DOMAIN rows PROVE Passed(spec, state', rows[r].index)
    BY <1>1
  <2>1. rows[r].index \in Int
    <3>1. rows[r] \in Row BY <1>2, LenProperties
    <3> QED BY <3>1 DEF Row
  <2>2. End(spec, rows[r].index) \in Int BY <1>2, <2>1, EndGrows
  <2>3. state.watermark \in Int /\ Tick \subseteq Int BY <1>2, TickTyped DEF StateTyped
  <2>4. state.finished \/ End(spec, rows[r].index) <= state.watermark BY DEF FoldInv, Passed
  <2>5. CASE state'.finished BY <2>5 DEF Passed
  <2>6. CASE ~ state'.finished
    <3>1. state'.finished = state.finished /\ t \in Tick /\ state'.watermark = t
          /\ t >= state.watermark
      BY <1>3, <2>6
    <3>2. End(spec, rows[r].index) <= state.watermark BY <2>4, <2>6, <3>1
    <3>3. End(spec, rows[r].index) <= state'.watermark BY <2>2, <2>3, <3>1, <3>2
    <3> QED BY <3>3 DEF Passed
  <2> QED BY <2>5, <2>6
<1> QED BY <1>1, <1>2, <1>3, <1>4, <1>5, <1>6 DEF FoldInv

-----------------------------------------------------------------------------
(***************************************************************************)
(* An input that is folded.                                                *)
(***************************************************************************)
LEMMA FoldStep ==
    ASSUME FoldInv, NEW t, NEW k \in Key, Process(t, k),
           Outcome(spec, state, t, k, state.processed + 1) = "folded"
    PROVE  FoldInv'
<1> DEFINE x == state.processed + 1
           input == [time |-> t, key |-> k, outcome |-> "folded"]
           ids == CellsOf(k, Members(spec, t))
<1>1. /\ inputs' = Append(inputs, input) /\ state' = StageFold(spec, state, t, k, x)
      /\ spec' = spec /\ rows' = rows
  BY DEF Process, StageProcess
<1>2. t \in Tick /\ state.finished # TRUE /\ ~ (t < state.watermark)
  BY OutcomeAdmits
<1>3. input \in Input BY <1>2 DEF Input
<1>4. /\ spec \in Specs /\ StateTyped(state) /\ DOMAIN state = StateFields
      /\ inputs \in Seq(Input) /\ rows \in Seq(Row) /\ state.processed = Len(inputs)
      /\ WindowsExact
  BY DEF FoldInv, StateTyped
<1>5. /\ DOMAIN state' = StateFields /\ state'.cells = Folded(state, ids, x)
      /\ state'.watermark = state.watermark /\ state'.finished = state.finished
      /\ state'.processed = state.processed + 1
  <2> HIDE DEF ids, x
  <2> QED BY <1>1, <1>4 DEF StageFold, StateFields, ids, CellsOf
<1>6. t \in Int /\ state.watermark \in Int /\ Key \subseteq Int
  BY <1>2, <1>4, TickTyped, SpecTyped DEF StateTyped
<1>7. ids \subseteq Identities /\ IsFiniteSet(ids)
  <2>1. Members(spec, t) \subseteq Int /\ IsFiniteSet(Members(spec, t))
    BY <1>4, <1>6, MembersFinite
  <2>2. ids \subseteq Identities BY <2>1 DEF CellsOf, Identities
  <2>3. IsFiniteSet(Members(spec, t) \X {k})
    BY <2>1, FS_Singleton, FS_Product
  <2>4. ids = Members(spec, t) \X {k} BY DEF CellsOf
  <2> QED BY <2>2, <2>3, <2>4
<1>8. \A id \in Identities : id \in ids <=> id[2] = k /\ id[1] \in Members(spec, t)
  BY DEF CellsOf, Identities
<1>9. /\ inputs' \in Seq(Input) /\ Len(inputs') = Len(inputs) + 1 /\ Len(inputs) \in Nat
      /\ inputs'[Len(inputs) + 1] = input
      /\ \A n \in DOMAIN inputs : n \in DOMAIN inputs' /\ inputs'[n] = inputs[n]
      /\ \A n \in DOMAIN inputs' : n \in DOMAIN inputs \/ n = Len(inputs) + 1
  <2> HIDE DEF input
  <2> QED BY <1>1, <1>3, <1>4, InputsNext
<1>10. \A i \in Int, l \in Key :
          Contributions(i, l)' = IF l = k /\ i \in Members(spec, t)
                                    THEN Append(Contributions(i, l), Len(inputs) + 1)
                                 ELSE Contributions(i, l)
  <2>1. input.outcome = "folded" /\ input.key = k /\ input.time = t OBVIOUS
  <2> HIDE DEF input
  <2> QED BY <1>1, <1>3, <1>4, <2>1, ContributionsNext
<1> DEFINE cells == Folded(state, ids, x)
<1>11. /\ DOMAIN cells = DOMAIN state.cells \cup ids
       /\ \A id \in DOMAIN state.cells \ ids : cells[id] = state.cells[id]
       /\ \A id \in DOMAIN state.cells \cap ids :
             cells[id] = [count |-> state.cells[id].count + 1,
                          value |-> Append(state.cells[id].value, x)]
       /\ \A id \in ids \ DOMAIN state.cells : cells[id] = [count |-> 1, value |-> <<x>>]
  <2> HIDE DEF ids, x
  <2> QED BY DEF cells, Folded
<1> HIDE DEF cells, ids, input
<1>12. x = Len(inputs) + 1 /\ x \in Nat BY <1>4, <1>9
<1> HIDE DEF x
<1>13. StateTyped(state)'
  <2>1. \A id \in DOMAIN cells : cells[id] \in Cell
    <3> SUFFICES ASSUME NEW id \in DOMAIN cells PROVE cells[id] \in Cell OBVIOUS
    <3>1. id \in DOMAIN state.cells => state.cells[id] \in [count : Nat, value : Seq(Nat)]
      BY <1>4 DEF StateTyped, Cell
    <3>2. CASE id \in DOMAIN state.cells \ ids BY <1>11, <3>1, <3>2 DEF Cell
    <3>3. CASE id \in DOMAIN state.cells \cap ids
      <4>1. Append(state.cells[id].value, x) \in Seq(Nat) BY <1>12, <3>1, <3>3, AppendProperties
      <4>2. state.cells[id].count + 1 \in Nat BY <3>1, <3>3
      <4>3. cells[id] = [count |-> state.cells[id].count + 1,
                         value |-> Append(state.cells[id].value, x)]
        BY <1>11, <3>3
      <4> QED BY ONLY <4>1, <4>2, <4>3 DEF Cell
    <3>4. CASE id \in ids \ DOMAIN state.cells
      <4>1. <<x>> \in Seq(Nat) BY <1>12
      <4>2. cells[id] = [count |-> 1, value |-> <<x>>] BY <1>11, <3>4
      <4> QED BY ONLY <4>1, <4>2 DEF Cell
    <3> QED BY <1>11, <3>2, <3>3, <3>4
  <2>2. DOMAIN cells \subseteq Identities /\ IsFiniteSet(DOMAIN cells)
    <3>1. DOMAIN state.cells \subseteq Identities /\ IsFiniteSet(DOMAIN state.cells)
      BY <1>4 DEF StateTyped
    <3>2. IsFiniteSet(DOMAIN state.cells \cup ids) BY <1>7, <3>1, FS_Union
    <3>3. DOMAIN cells = DOMAIN state.cells \cup ids BY <1>11
    <3> QED BY <1>7, <3>1, <3>2, <3>3
  <2>3. state'.cells = cells BY <1>5 DEF cells
  <2> QED BY <1>4, <1>5, <2>1, <2>2, <2>3, <1>9 DEF StateTyped
<1>14. \A r \in DOMAIN rows : rows[r].index \in Int /\ rows[r].key \in Key
  <2>1. \A r \in DOMAIN rows : rows[r] \in Row BY <1>4, LenProperties
  <2> QED BY <2>1 DEF Row
\* No emitted window holds the input.
<1>15. \A r \in DOMAIN rows : /\ End(spec, rows[r].index) \in Int
                              /\ End(spec, rows[r].index) <= t
  <2> SUFFICES ASSUME NEW r \in DOMAIN rows
               PROVE  End(spec, rows[r].index) \in Int /\ End(spec, rows[r].index) <= t
    OBVIOUS
  <2>1. End(spec, rows[r].index) \in Int BY <1>4, <1>14, EndGrows
  <2>2. Passed(spec, state, rows[r].index) BY DEF FoldInv
  <2>3. End(spec, rows[r].index) <= state.watermark
    BY <1>2, <1>4, <2>2 DEF Passed, StateTyped
  <2> QED BY <1>2, <1>6, <2>1, <2>3
<1>16. \A r \in DOMAIN rows : rows[r].index \notin Members(spec, t)
  BY <1>4, <1>6, <1>14, <1>15, Geometry
<1>17. \A r \in DOMAIN rows, id \in ids : Before(<<rows[r].index, rows[r].key>>, id)
  <2> SUFFICES ASSUME NEW r \in DOMAIN rows, NEW id \in ids
               PROVE  Before(<<rows[r].index, rows[r].key>>, id)
    OBVIOUS
  <2>1. id[1] \in Int /\ id[1] \in Members(spec, t)
    BY <1>7, <1>8 DEF Identities
  <2>2. t < End(spec, id[1]) /\ End(spec, id[1]) \in Int
    BY <1>4, <1>6, <2>1, Geometry, EndGrows
  <2>3. End(spec, rows[r].index) < End(spec, id[1]) BY <1>6, <1>15, <2>2
  <2>4. rows[r].index < id[1] BY <1>4, <1>14, <2>1, <2>3, EndGrows
  <2> QED BY <2>4 DEF Before
<1>18. RowsOrdered'
  <2>1. RowsOrdered BY <1>4 DEF WindowsExact
  <2>2. \A r \in DOMAIN rows, id \in DOMAIN state'.cells :
           Before(<<rows[r].index, rows[r].key>>, id)
    BY <1>5, <1>11, <1>17, <2>1 DEF RowsOrdered, cells
  <2> QED BY <1>1, <2>1, <2>2 DEF RowsOrdered
\* A cell that is created is the first of its window.
<1>19. \A id \in ids \ DOMAIN state.cells : Contributions(id[1], id[2]) = <<>>
  <2> SUFFICES ASSUME NEW id \in ids \ DOMAIN state.cells
               PROVE  Contributions(id[1], id[2]) = <<>>
    OBVIOUS
  <2>1. id \in Identities /\ id[1] \in Int /\ id[2] = k /\ id = <<id[1], id[2]>>
    BY <1>7, <1>8 DEF Identities
  <2>2. \A n \in DOMAIN inputs : ~ Contributes(spec, inputs[n], id[1], id[2])
    <3> SUFFICES ASSUME NEW n \in DOMAIN inputs, Contributes(spec, inputs[n], id[1], id[2])
                 PROVE  FALSE
      OBVIOUS
    <3>1. inputs[n] \in Input BY <1>4, LenProperties
    <3>2. inputs[n].time \in Int BY <3>1, <1>4, TickTyped DEF Input
    <3>3. id[1] \in Members(spec, inputs[n].time) BY <1>4, <2>1, <3>2, Geometry DEF Contributes
    <3>4. inputs[n].outcome = "folded" /\ inputs[n].key = id[2] BY DEF Contributes
    <3>5. <<id[1], inputs[n].key>> \in DOMAIN state.cells \cup Emitted
      BY <1>4, <3>3, <3>4 DEF WindowsExact
    <3>6. id \in Emitted BY <2>1, <3>4, <3>5
    <3>7. PICK r \in DOMAIN rows : id = <<rows[r].index, rows[r].key>> BY <3>6 DEF Emitted
    <3>8. rows[r].index = id[1] BY <3>7
    <3> QED BY <1>7, <1>8, <1>16, <2>1, <3>8
  <2> QED BY <1>4, <2>2, FoldsNone, ContributionsAre
<1>20. \A id \in DOMAIN cells :
          cells[id].value = Contributions(id[1], id[2])' /\ cells[id].count = Len(cells[id].value)
  <2> SUFFICES ASSUME NEW id \in DOMAIN cells
               PROVE  /\ cells[id].value = Contributions(id[1], id[2])'
                      /\ cells[id].count = Len(cells[id].value)
    OBVIOUS
  <2>1. id \in Identities /\ id[1] \in Int /\ id[2] \in Key
    BY <1>4, <1>7, <1>11 DEF StateTyped, Identities
  <2>2. Contributions(id[1], id[2])' =
           IF id \in ids THEN Append(Contributions(id[1], id[2]), x)
           ELSE Contributions(id[1], id[2])
    BY <1>8, <1>10, <1>12, <2>1
  <2>3. id \in DOMAIN state.cells =>
           /\ state.cells[id].value = Contributions(id[1], id[2])
           /\ state.cells[id].count = Len(state.cells[id].value)
           /\ state.cells[id].value \in Seq(Nat)
    BY <1>4 DEF WindowsExact, StateTyped, Cell
  <2>4. CASE id \in DOMAIN state.cells \ ids BY <1>11, <2>2, <2>3, <2>4
  <2>5. CASE id \in DOMAIN state.cells \cap ids
    <3>1. Len(Append(state.cells[id].value, x)) = Len(state.cells[id].value) + 1
      BY <1>12, <2>3, <2>5, AppendProperties
    <3>2. cells[id].value = Append(state.cells[id].value, x)
          /\ cells[id].count = state.cells[id].count + 1
      BY <1>11, <2>5
    <3> QED BY <2>2, <2>3, <2>5, <3>1, <3>2
  <2>6. CASE id \in ids \ DOMAIN state.cells
    <3>1. Contributions(id[1], id[2])' = Append(<<>>, x) BY <1>19, <2>2, <2>6
    <3>2. cells[id].value = <<x>> /\ cells[id].count = 1 BY <1>11, <2>6
    <3>3. Append(<<>>, x) = <<x>> /\ Len(<<x>>) = 1 OBVIOUS
    <3> QED BY <3>1, <3>2, <3>3
  <2> QED BY <1>11, <2>4, <2>5, <2>6
<1>21. \A r \in DOMAIN rows :
          /\ rows[r].value = Contributions(rows[r].index, rows[r].key)'
          /\ rows[r].count = Len(rows[r].value)
  <2>1. \A r \in DOMAIN rows : Contributions(rows[r].index, rows[r].key)'
                                = Contributions(rows[r].index, rows[r].key)
    BY <1>1, <1>10, <1>14, <1>16
  <2> QED BY <1>4, <2>1 DEF WindowsExact
<1>22. \A n \in DOMAIN inputs' : inputs'[n].outcome = "folded" =>
          \A i \in Members(spec, inputs'[n].time) :
             <<i, inputs'[n].key>> \in DOMAIN cells \cup Emitted
  <2> SUFFICES ASSUME NEW n \in DOMAIN inputs', inputs'[n].outcome = "folded",
                      NEW i \in Members(spec, inputs'[n].time)
               PROVE  <<i, inputs'[n].key>> \in DOMAIN cells \cup Emitted
    OBVIOUS
  <2>1. CASE n \in DOMAIN inputs
    <3>1. inputs'[n] = inputs[n] BY <1>9, <2>1
    <3>2. <<i, inputs[n].key>> \in DOMAIN state.cells \cup Emitted
      BY <1>4, <2>1, <3>1 DEF WindowsExact
    <3> QED BY <1>11, <3>1, <3>2
  <2>2. CASE n = Len(inputs) + 1
    <3>1. inputs'[n].time = t /\ inputs'[n].key = k BY <1>9, <2>2 DEF input
    <3>2. <<i, k>> \in ids BY <3>1 DEF ids, CellsOf
    <3> QED BY <1>11, <3>1, <3>2
  <2> QED BY <1>9, <2>1, <2>2
<1>23. WindowsExact'
  <2>1. state'.cells = cells BY <1>5 DEF cells
  <2>2. Emitted' = Emitted BY <1>1 DEF Emitted
  <2> QED BY <1>1, <1>18, <1>20, <1>21, <1>22, <2>1, <2>2 DEF WindowsExact
<1>24. \A r \in DOMAIN rows' : Passed(spec', state', rows'[r].index)
  BY <1>1, <1>5 DEF FoldInv, Passed
<1> QED BY <1>1, <1>4, <1>5, <1>9, <1>13, <1>23, <1>24 DEF FoldInv

-----------------------------------------------------------------------------
(***************************************************************************)
(* A drain.                                                                *)
(***************************************************************************)
LEMMA CapTyped ==
    ASSUME NEW sp \in Specs, NEW n \in Nat \ {0}
    PROVE  Cap(sp, n) \in Nat \ {0}
<1> DEFINE b == sp.batchBytes \div sp.rowBytes
           S == {n, sp.rowsPerBatch, b}
<1>1. /\ sp.rowsPerBatch \in Nat \ {0} /\ sp.rowBytes \in Nat \ {0}
      /\ sp.batchBytes \in Nat \ {0} /\ sp.rowBytes <= sp.batchBytes
  BY SpecTyped
<1>2. b \in Nat \ {0}
  <2>1. sp.batchBytes \in Int BY <1>1
  <2>2. b \in Int /\ (1 <= b <=> 1 * sp.rowBytes <= sp.batchBytes)
    BY <1>1, <2>1, DivAdjoint
  <2>3. 1 * sp.rowBytes = sp.rowBytes BY <1>1
  <2> HIDE DEF b
  <2> QED BY <1>1, <2>2, <2>3
<1> HIDE DEF b
<1>3. S \in SUBSET (Nat \ {0}) /\ S # {} BY <1>1, <1>2
<1>4. Cap(sp, n) = Min(S) BY DEF Cap, b
<1> HIDE DEF S
<1>5. \E m \in S : \A y \in S : m <= y BY <1>3, LeastNatural
<1>6. Min(S) \in S BY <1>5 DEF Min
<1> QED BY <1>3, <1>4, <1>6

\* What is selected precedes what is left.
LEMMA SelectedFirst ==
    ASSUME NEW sp \in Specs, StateTyped(state), NEW n \in Nat \ {0}
    PROVE  /\ Selected(sp, state, n) \subseteq Pending(sp, state)
           /\ Pending(sp, state) \subseteq DOMAIN state.cells
           /\ IsFiniteSet(Pending(sp, state)) /\ IsFiniteSet(Selected(sp, state, n))
           /\ \A id \in Selected(sp, state, n) : Passed(sp, state, id[1])
           /\ \A e \in Selected(sp, state, n) :
                 \A id \in DOMAIN state.cells \ Selected(sp, state, n) : Before(e, id)
<1> DEFINE pend == Pending(sp, state)
           ids == Selected(sp, state, n)
           cap == Cap(sp, n)
<1>1. cap \in Nat BY CapTyped
<1>2. DOMAIN state.cells \subseteq Identities /\ IsFiniteSet(DOMAIN state.cells)
  BY DEF StateTyped
<1>3. ids = {id \in pend : Rank(pend, id) < cap} BY DEF Selected, FirstOf, Rank
<1>4. pend \subseteq DOMAIN state.cells /\ \A id \in pend : Passed(sp, state, id[1])
  BY DEF Pending, Eligible, Passed
<1>5. \A id \in DOMAIN state.cells \ pend : ~ Passed(sp, state, id[1])
  BY DEF Pending, Eligible, Passed
<1> HIDE DEF pend, ids, cap
<1>6. ids \subseteq pend BY <1>3
<1>7. IsFiniteSet(pend) BY <1>2, <1>4, FS_Subset
<1>8. IsFiniteSet(ids) BY <1>6, <1>7, FS_Subset
<1>9. ASSUME NEW e \in ids, NEW id \in DOMAIN state.cells \ ids PROVE Before(e, id)
  <2>1. e \in pend /\ e \in Identities /\ id \in Identities BY <1>2, <1>4, <1>6
  <2>2. Key \subseteq Int BY SpecTyped
  <2>3. CASE id \in pend
    <3>1. pend \in SUBSET Identities BY <1>2, <1>4
    <3>2. ~ Before(e, e) /\ ~ Before(id, id) BY <2>1, <2>2, BeforeOrders
    <3>3. /\ Rank(pend, e) \in 0 .. Cardinality(pend) - 1
          /\ Rank(pend, id) \in 0 .. Cardinality(pend) - 1
      BY <1>7, <2>1, <2>3, <3>2, RankTyped
    <3>4. Rank(pend, e) < cap /\ ~ (Rank(pend, id) < cap) BY <1>3, <2>3
    <3>5. Cardinality(pend) \in Nat BY <1>7, FS_CardinalityType
    <3>6. Rank(pend, e) < Rank(pend, id) BY <1>1, <3>3, <3>4, <3>5
    <3> QED BY <1>7, <2>1, <2>2, <2>3, <3>1, <3>6, RankOrders
  <2>4. CASE id \notin pend
    <3>1. ~ Passed(sp, state, id[1]) /\ Passed(sp, state, e[1]) BY <1>4, <1>5, <2>1, <2>4
    <3>2. id[1] \in Int /\ e[1] \in Int BY <2>1 DEF Identities
    <3>3. End(sp, id[1]) \in Int /\ End(sp, e[1]) \in Int BY <3>2, EndGrows
    <3>4. state.watermark \in Int BY TickTyped DEF StateTyped
    <3>5. End(sp, e[1]) <= state.watermark /\ ~ (End(sp, id[1]) <= state.watermark)
      BY <3>1 DEF Passed
    <3>6. End(sp, e[1]) < End(sp, id[1]) BY <3>3, <3>4, <3>5
    <3>7. e[1] < id[1] BY <3>2, <3>6, EndGrows
    <3> QED BY <3>7 DEF Before
  <2> QED BY <2>3, <2>4
<1> QED BY <1>4, <1>6, <1>7, <1>8, <1>9 DEF pend, ids

\* The rows of a drain are the cells it selects, in order.
LEMMA DrainedAre ==
    ASSUME NEW sp, NEW s, NEW n, NEW ids \in SUBSET Identities, ids = Selected(sp, s, n),
           IsFiniteSet(ids), Key \subseteq Int
    PROVE  \E at \in [1 .. Cardinality(ids) -> ids] :
              /\ \A m \in 1 .. Cardinality(ids) : Rank(ids, at[m]) = m - 1
              /\ \A id \in ids : \E m \in 1 .. Cardinality(ids) : at[m] = id
              /\ DrainedRows(sp, s, n) = [m \in 1 .. Cardinality(ids) |-> RowOf(s, at[m])]
<1> DEFINE N == Cardinality(ids)
           at == [m \in 1 .. N |-> CHOOSE id \in ids : Rank(ids, id) = m - 1]
<1>1. N \in Nat BY FS_CardinalityType
<1>2. \A m \in 1 .. N : at[m] \in ids /\ Rank(ids, at[m]) = m - 1
  <2> SUFFICES ASSUME NEW m \in 1 .. N
               PROVE  at[m] \in ids /\ Rank(ids, at[m]) = m - 1
    OBVIOUS
  <2>1. m - 1 \in 0 .. N - 1 BY <1>1
  <2>2. \E id \in ids : Rank(ids, id) = m - 1 BY <2>1, RankReached
  <2> HIDE DEF N
  <2> QED BY <2>2
<1>3. DrainedRows(sp, s, n) = [m \in 1 .. N |-> RowOf(s, at[m])]
  BY DEF DrainedRows, Rank
<1>4. at \in [1 .. N -> ids] BY <1>2
<1> HIDE DEF at
<1>5. ASSUME NEW id \in ids PROVE \E m \in 1 .. N : at[m] = id
  <2>1. ~ Before(id, id) BY BeforeOrders
  <2>2. Rank(ids, id) \in 0 .. N - 1 BY <2>1, RankTyped
  <2> DEFINE m == Rank(ids, id) + 1
  <2>3. m \in 1 .. N /\ m - 1 = Rank(ids, id) BY <1>1, <2>2
  <2> HIDE DEF m
  <2>4. at[m] \in ids /\ Rank(ids, at[m]) = Rank(ids, id) BY <1>2, <2>3
  <2>5. at[m] = id BY <2>4, RankOrders
  <2> QED BY <2>3, <2>5
<1> QED BY <1>2, <1>3, <1>4, <1>5

LEMMA DrainStep ==
    ASSUME FoldInv, NEW n, Drain(n)
    PROVE  FoldInv'
<1> DEFINE ids == Selected(spec, state, n)
           new == DrainedRows(spec, state, n)
           N == Cardinality(ids)
           L == Len(rows)
<1>1. /\ spec' = spec /\ inputs' = inputs /\ rows' = rows \o new
      /\ state' = StageDrain(spec, state, n) /\ n \in Nat \ {0}
  BY DEF Drain, DrainAdmitted
<1>2. /\ spec \in Specs /\ StateTyped(state) /\ DOMAIN state = StateFields
      /\ inputs \in Seq(Input) /\ rows \in Seq(Row) /\ state.processed = Len(inputs)
      /\ WindowsExact /\ Key \subseteq Int
  BY SpecTyped DEF FoldInv, StateTyped
<1>3. /\ ids \subseteq DOMAIN state.cells /\ IsFiniteSet(ids)
      /\ \A id \in ids : Passed(spec, state, id[1])
      /\ \A e \in ids, id \in DOMAIN state.cells \ ids : Before(e, id)
  BY <1>1, <1>2, SelectedFirst
<1>4. /\ DOMAIN state' = StateFields
      /\ state'.cells = Restrict(state.cells, DOMAIN state.cells \ ids)
      /\ state'.watermark = state.watermark /\ state'.finished = state.finished
      /\ state'.processed = state.processed
  <2> HIDE DEF ids
  <2> QED BY <1>1, <1>2 DEF StageDrain, StateFields, ids
<1>5. /\ DOMAIN state.cells \subseteq Identities /\ IsFiniteSet(DOMAIN state.cells)
      /\ \A id \in DOMAIN state.cells : state.cells[id] \in Cell
  BY <1>2 DEF StateTyped
<1>6. ids \in SUBSET Identities BY <1>3, <1>5
<1>7. PICK at \in [1 .. N -> ids] :
         /\ \A m \in 1 .. N : Rank(ids, at[m]) = m - 1
         /\ \A id \in ids : \E m \in 1 .. N : at[m] = id
         /\ new = [m \in 1 .. N |-> RowOf(state, at[m])]
  BY <1>2, <1>3, <1>6, DrainedAre
<1> HIDE DEF ids, new, N
<1>8. N \in Nat BY <1>3, FS_CardinalityType DEF N
<1>9. DOMAIN state'.cells = DOMAIN state.cells \ ids
      /\ \A id \in DOMAIN state'.cells : state'.cells[id] = state.cells[id]
  BY <1>4 DEF Restrict
\* Each new row is a cell.
<1>10. \A m \in 1 .. N :
          /\ new[m] = RowOf(state, at[m]) /\ at[m] \in ids
          /\ <<new[m].index, new[m].key>> = at[m]
          /\ new[m].index = at[m][1] /\ new[m].key = at[m][2]
          /\ new[m].value = state.cells[at[m]].value
          /\ new[m].count = state.cells[at[m]].count
          /\ new[m] \in Row
  <2> SUFFICES ASSUME NEW m \in 1 .. N
               PROVE  /\ new[m] = RowOf(state, at[m]) /\ at[m] \in ids
                      /\ <<new[m].index, new[m].key>> = at[m]
                      /\ new[m].index = at[m][1] /\ new[m].key = at[m][2]
                      /\ new[m].value = state.cells[at[m]].value
                      /\ new[m].count = state.cells[at[m]].count
                      /\ new[m] \in Row
    OBVIOUS
  <2>1. new[m] = RowOf(state, at[m]) /\ at[m] \in ids BY <1>7
  <2>2. /\ at[m] \in DOMAIN state.cells /\ at[m][1] \in Int /\ at[m][2] \in Key
        /\ at[m] = <<at[m][1], at[m][2]>>
    BY <1>3, <1>5, <2>1 DEF Identities
  <2>3. state.cells[at[m]].count \in Nat /\ state.cells[at[m]].value \in Seq(Nat)
    BY <1>5, <2>2 DEF Cell
  <2> DEFINE a == at[m]
  <2> HIDE DEF a
  <2>4. /\ new[m] = [index |-> a[1], key |-> a[2], count |-> state.cells[a].count,
                     value |-> state.cells[a].value]
    BY <2>1 DEF RowOf, a
  <2>5. /\ new[m].index = a[1] /\ new[m].key = a[2]
        /\ new[m].value = state.cells[a].value /\ new[m].count = state.cells[a].count
    BY <2>4
  <2>6. new[m] \in Row BY <2>2, <2>3, <2>4 DEF Row, a
  <2> QED BY <2>1, <2>2, <2>5, <2>6 DEF a
<1>11. new \in Seq(Row) /\ Len(new) = N
  <2>1. new \in [1 .. N -> Row] BY <1>7, <1>10
  <2> QED BY <1>8, <2>1
<1>12. /\ L \in Nat /\ DOMAIN rows = 1 .. L
       /\ rows' \in Seq(Row) /\ Len(rows') = L + N /\ DOMAIN rows' = 1 .. L + N
       /\ \A r \in 1 .. L : rows'[r] = rows[r]
       /\ \A m \in 1 .. N : rows'[L + m] = new[m]
  <2>1. L \in Nat /\ DOMAIN rows = 1 .. L BY <1>2, LenProperties
  <2>2. /\ rows' \in Seq(Row) /\ Len(rows') = L + N
        /\ \A i \in 1 .. L + N : rows'[i] = IF i <= L THEN rows[i] ELSE new[i - L]
    BY <1>1, <1>2, <1>11, ConcatProperties
  <2> HIDE DEF L
  <2>3. DOMAIN rows' = 1 .. L + N BY <2>2, LenProperties
  <2>4. \A r \in 1 .. L : r \in 1 .. L + N /\ r <= L BY <1>8, <2>1
  <2>5. \A m \in 1 .. N : L + m \in 1 .. L + N /\ ~ (L + m <= L) /\ (L + m) - L = m
    BY <1>8, <2>1
  <2> QED BY <2>1, <2>2, <2>3, <2>4, <2>5
<1> HIDE DEF L
<1>13. \A r \in DOMAIN rows' : r \in 1 .. L \/ \E m \in 1 .. N : r = L + m
  <2> SUFFICES ASSUME NEW r \in 1 .. L + N, r \notin 1 .. L
               PROVE  \E m \in 1 .. N : r = L + m
    BY <1>12
  <2>1. r - L \in 1 .. N /\ r = L + (r - L) BY <1>8, <1>12
  <2> QED BY <2>1
<1>14. RowsOrdered BY <1>2 DEF WindowsExact
<1>15. ASSUME NEW r \in 1 .. Len(rows') - 1
       PROVE  Before(<<rows'[r].index, rows'[r].key>>, <<rows'[r + 1].index, rows'[r + 1].key>>)
  <2>1. CASE r \in 1 .. L - 1
    <3>1. r \in 1 .. L /\ r + 1 \in 1 .. L BY <1>12, <2>1
    <3>2. rows'[r] = rows[r] /\ rows'[r + 1] = rows[r + 1] BY <1>12, <3>1
    <3>3. Before(<<rows[r].index, rows[r].key>>, <<rows[r + 1].index, rows[r + 1].key>>)
      BY <1>14, <2>1 DEF RowsOrdered, L
    <3> QED BY <3>2, <3>3
  <2>2. CASE r = L
    <3>1. L \in 1 .. L /\ 1 \in 1 .. N BY <1>8, <1>12, <2>2
    <3>2. rows'[r] = rows[r] /\ rows'[r + 1] = new[1] BY <1>12, <2>2, <3>1
    <3>3. <<new[1].index, new[1].key>> = at[1] /\ at[1] \in DOMAIN state.cells
      BY <1>3, <1>10, <3>1
    <3>4. Before(<<rows[r].index, rows[r].key>>, at[1])
      BY <1>12, <1>14, <2>2, <3>1, <3>3 DEF RowsOrdered
    <3> QED BY <3>2, <3>3, <3>4
  <2>3. CASE r \in L + 1 .. L + N - 1
    <3> DEFINE m == r - L
    <3>1. m \in 1 .. N /\ m + 1 \in 1 .. N /\ r = L + m /\ r + 1 = L + (m + 1)
          /\ (m + 1) - 1 = m
      BY <1>8, <1>12, <2>3
    <3> HIDE DEF m
    <3>2. rows'[r] = new[m] /\ rows'[r + 1] = new[m + 1] BY <1>12, <3>1
    <3>3. /\ <<new[m].index, new[m].key>> = at[m] /\ at[m] \in ids
          /\ <<new[m + 1].index, new[m + 1].key>> = at[m + 1] /\ at[m + 1] \in ids
      BY <1>10, <3>1
    <3>4. Rank(ids, at[m]) = m - 1 /\ Rank(ids, at[m + 1]) = m BY <1>7, <3>1
    <3>5. Rank(ids, at[m]) < Rank(ids, at[m + 1]) BY <3>1, <3>4
    <3>6. Before(at[m], at[m + 1]) BY <1>2, <1>3, <1>6, <3>3, <3>5, RankOrders
    <3> QED BY <3>2, <3>3, <3>6
  <2> QED BY <1>8, <1>12, <2>1, <2>2, <2>3
<1>16. ASSUME NEW r \in DOMAIN rows', NEW id \in DOMAIN state'.cells
       PROVE  Before(<<rows'[r].index, rows'[r].key>>, id)
  <2>1. CASE r \in 1 .. L
    <3>1. Before(<<rows[r].index, rows[r].key>>, id)
      BY <1>9, <1>12, <1>14, <2>1 DEF RowsOrdered
    <3> QED BY <1>12, <2>1, <3>1
  <2>2. ASSUME NEW m \in 1 .. N, r = L + m
        PROVE  Before(<<rows'[r].index, rows'[r].key>>, id)
    <3>1. rows'[r] = new[m] BY <1>12, <2>2
    <3>2. <<new[m].index, new[m].key>> = at[m] /\ at[m] \in ids BY <1>10
    <3>3. Before(at[m], id) BY <1>3, <1>9, <3>2
    <3> QED BY <3>1, <3>2, <3>3
  <2> QED BY <1>13, <2>1, <2>2
<1>17. RowsOrdered' BY <1>15, <1>16 DEF RowsOrdered
<1>18. \A i, k : Contributions(i, k)' = Contributions(i, k) BY <1>1, ContributionsAre
<1>19. ASSUME NEW id \in DOMAIN state.cells
       PROVE  /\ state.cells[id].value = Contributions(id[1], id[2])'
              /\ state.cells[id].count = Len(state.cells[id].value)
  BY <1>2, <1>18 DEF WindowsExact
<1>20. ASSUME NEW r \in DOMAIN rows'
       PROVE  /\ rows'[r].value = Contributions(rows[r].index, rows[r].key)'
              /\ rows'[r].count = Len(rows'[r].value)
              /\ Passed(spec', state', rows'[r].index)
  <2>1. CASE r \in 1 .. L
    <3>1. rows'[r] = rows[r] /\ r \in DOMAIN rows BY <1>12, <2>1
    <3>2. /\ rows[r].value = Contributions(rows[r].index, rows[r].key)
          /\ rows[r].count = Len(rows[r].value)
      BY <1>2, <3>1 DEF WindowsExact
    <3>3. Contributions(rows[r].index, rows[r].key)'
             = Folds(spec, inputs, rows[r].index, rows[r].key)
      BY <1>1, <3>1 DEF Contributions, Folds, Within, Contributes, Numbers
    <3>4. Contributions(rows[r].index, rows[r].key)
             = Folds(spec, inputs, rows[r].index, rows[r].key)
      BY DEF Contributions, Folds, Within, Contributes, Numbers
    <3>5. Passed(spec', state', rows'[r].index)
      BY <1>1, <1>4, <3>1 DEF FoldInv, Passed
    <3> QED BY <3>1, <3>2, <3>3, <3>4, <3>5
  <2>2. ASSUME NEW m \in 1 .. N, r = L + m
        PROVE  /\ rows'[r].value = Contributions(rows[r].index, rows[r].key)'
               /\ rows'[r].count = Len(rows'[r].value)
               /\ Passed(spec', state', rows'[r].index)
    <3> DEFINE id == at[m]
    <3>1. rows'[r] = new[m] BY <1>12, <2>2
    <3>2. /\ id \in ids /\ new[m].index = id[1] /\ new[m].key = id[2]
          /\ new[m].value = state.cells[id].value /\ new[m].count = state.cells[id].count
      BY <1>10
    <3> HIDE DEF id
    <3>3. id \in DOMAIN state.cells BY <1>3, <3>2
    <3>4. /\ state.cells[id].value = Contributions(id[1], id[2])
          /\ state.cells[id].count = Len(state.cells[id].value)
      BY <1>2, <3>3 DEF WindowsExact
    <3>5. Contributions(id[1], id[2]) = Folds(spec, inputs, id[1], id[2])
      BY ContributionsAre
    <3>6. Contributions(rows[r].index, rows[r].key)' = Folds(spec, inputs, id[1], id[2])
      BY <1>1, <3>1, <3>2 DEF Contributions, Folds, Within, Contributes, Numbers
    <3>7. Passed(spec, state, id[1]) BY <1>3, <3>2
    <3>8. Passed(spec', state', rows'[r].index)
      BY <1>1, <1>4, <3>1, <3>2, <3>7 DEF Passed
    <3> QED BY <3>1, <3>2, <3>4, <3>5, <3>6, <3>8
  <2> QED BY <1>13, <2>1, <2>2
\* What left the cells was emitted.
<1>21. DOMAIN state.cells \cup Emitted \subseteq DOMAIN state'.cells \cup Emitted'
  <2>1. ASSUME NEW r \in DOMAIN rows
        PROVE  <<rows[r].index, rows[r].key>> \in Emitted'
    <3>1. r \in DOMAIN rows' /\ rows'[r] = rows[r] BY <1>8, <1>12
    <3> QED BY <3>1 DEF Emitted
  <2>2. ASSUME NEW id \in ids PROVE id \in Emitted'
    <3>1. PICK m \in 1 .. N : at[m] = id BY <1>7
    <3>2. L + m \in DOMAIN rows' /\ rows'[L + m] = new[m] BY <1>8, <1>12
    <3>3. <<rows'[L + m].index, rows'[L + m].key>> = id BY <1>10, <3>1, <3>2
    <3> QED BY <3>2, <3>3 DEF Emitted
  <2>3. Emitted \subseteq Emitted' BY <2>1 DEF Emitted
  <2> QED BY <1>9, <2>2, <2>3
<1>22. WindowsExact'
  <2>1. \A id \in DOMAIN state'.cells :
           /\ state'.cells[id].value = Contributions(id[1], id[2])'
           /\ state'.cells[id].count = Len(state'.cells[id].value)
    BY <1>9, <1>19
  <2>2. \A k \in DOMAIN inputs' : inputs'[k].outcome = "folded" =>
           \A i \in Members(spec', inputs'[k].time) :
              <<i, inputs'[k].key>> \in DOMAIN state'.cells \cup Emitted'
    BY <1>1, <1>2, <1>21 DEF WindowsExact
  <2> QED BY <1>17, <1>20, <2>1, <2>2 DEF WindowsExact
<1>23. StateTyped(state)'
  <2>1. IsFiniteSet(DOMAIN state'.cells) BY <1>5, <1>9, FS_Subset
  <2> QED BY <1>2, <1>4, <1>5, <1>9, <2>1 DEF StateTyped
<1> QED BY <1>1, <1>2, <1>4, <1>12, <1>20, <1>22, <1>23 DEF FoldInv

-----------------------------------------------------------------------------
LEMMA FoldInit == Init => FoldInv
<1> SUFFICES ASSUME Init PROVE FoldInv OBVIOUS
<1>1. /\ spec \in Specs /\ state = Empty /\ inputs = <<>> /\ rows = <<>> BY DEF Init
<1>2. DOMAIN state = StateFields BY <1>1 DEF Empty, StateFields
<1>3. /\ state.cells = <<>> /\ state.watermark = NoWatermark /\ state.finished = FALSE
      /\ state.processed = 0
  BY <1>1 DEF Empty
<1>4. DOMAIN state.cells = {} /\ DOMAIN inputs = {} /\ DOMAIN rows = {} BY <1>1, <1>3
<1>5. IsFiniteSet(DOMAIN state.cells) BY <1>4, FS_EmptySet
<1>6. StateTyped(state)
  <2>1. DOMAIN state.cells \subseteq Identities /\ \A id \in DOMAIN state.cells : state.cells[id] \in Cell
    BY <1>4
  <2>2. state.finished \in BOOLEAN BY <1>3
  <2>3. state.watermark \in Tick \cup {NoWatermark} /\ state.processed \in Nat BY <1>3
  <2> QED BY <1>2, <1>5, <2>1, <2>2, <2>3 DEF StateTyped
<1>7. inputs \in Seq(Input) /\ rows \in Seq(Row) /\ Len(inputs) = 0 /\ Len(rows) = 0 BY <1>1
<1>8. WindowsExact BY <1>4, <1>7 DEF WindowsExact, RowsOrdered
<1> QED BY <1>1, <1>3, <1>4, <1>6, <1>7, <1>8 DEF FoldInv

LEMMA FoldNext == FoldInv /\ [Next]_vars => FoldInv'
<1> SUFFICES ASSUME FoldInv, [Next]_vars PROVE FoldInv' OBVIOUS
<1>1. CASE UNCHANGED vars
  <2>1. spec' = spec /\ state' = state /\ inputs' = inputs /\ rows' = rows BY <1>1 DEF vars
  <2>2. \A i \in Int, k \in Key : Contributions(i, k)' = Contributions(i, k)
    BY <2>1, ContributionsAre
  <2>3. /\ WindowsExact /\ spec \in Specs /\ rows \in Seq(Row)
        /\ DOMAIN state.cells \subseteq Identities
    BY DEF FoldInv, StateTyped
  <2>4. WindowsExact' BY <2>1, <2>2, <2>3, CellsKept
  <2> QED BY <2>1, <2>4 DEF FoldInv
<1>2. ASSUME NEW t \in Timestamps, NEW k \in Key, Process(t, k) PROVE FoldInv'
  <2>1. CASE Outcome(spec, state, t, k, state.processed + 1) = "folded" BY <1>2, <2>1, FoldStep
  <2>2. CASE Outcome(spec, state, t, k, state.processed + 1) # "folded" BY <1>2, <2>2, SkipStep
  <2> QED BY <2>1, <2>2
<1>3. ASSUME NEW t \in Timestamps, AdvanceWatermark(t) PROVE FoldInv' BY <1>3, ProgressStep
<1>4. CASE Finish BY <1>4, ProgressStep
<1>5. ASSUME NEW n \in DrainSizes, Drain(n) PROVE FoldInv' BY <1>5, DrainStep
<1> QED BY <1>1, <1>2, <1>3, <1>4, <1>5 DEF Next

(***************************************************************************)
(* The invariant holds for any keys, configurations, timestamps and drain  *)
(* sizes: what the cells and the rows hold, and that emitted windows are   *)
(* past for every input still to come.                                     *)
(***************************************************************************)
THEOREM FoldInvariance == Spec => []FoldInv
<1> QED BY FoldInit, FoldNext, PTL DEF Spec

(***************************************************************************)
(* Every cell and every emitted row holds exactly the inputs of its key and*)
(* interval, once, in arrival order; no folded input is missing; rows come *)
(* once and in order, whatever the order of calls.                         *)
(***************************************************************************)
THEOREM WindowsStayExact == Spec => []WindowsExact
<1>1. FoldInv => WindowsExact BY DEF FoldInv
<1> QED BY <1>1, FoldInvariance, PTL
-----------------------------------------------------------------------------
(***************************************************************************)
(* How many windows an input lies in.                                      *)
(***************************************************************************)
Low(sp) == Max({1, sp.width \div sp.hop})

High(sp) ==
    Min({sp.windowsPerInput,
         Max({1, sp.width \div sp.hop + (IF sp.width % sp.hop # 0 THEN 1 ELSE 0)})})

LEMMA LowAndHigh ==
    ASSUME NEW sp \in Specs
    PROVE  /\ sp.width \div sp.hop \in Nat
           /\ Low(sp) = IF 1 >= sp.width \div sp.hop THEN 1 ELSE sp.width \div sp.hop
           /\ Low(sp) \in Nat \ {0}
           /\ sp.width >= sp.hop => 1 <= sp.width \div sp.hop
           /\ \A m \in Nat \ {0} :
                 /\ m <= sp.windowsPerInput
                 /\ m <= sp.width \div sp.hop + (IF sp.width % sp.hop # 0 THEN 1 ELSE 0)
                 => m <= High(sp)
           /\ High(sp) \in Nat \ {0}
           /\ 1 <= High(sp)
<1> DEFINE q == sp.width \div sp.hop
           c == IF sp.width % sp.hop # 0 THEN 1 ELSE 0
           M == Max({1, q + c})
           p == sp.windowsPerInput
<1>1. sp.width \in Nat \ {0} /\ sp.hop \in Nat \ {0} /\ p \in Nat \ {0} BY SpecTyped
<1>2. q \in Nat BY <1>1
<1>3. c \in Nat OBVIOUS
<1>4. sp.width >= sp.hop => 1 <= q
  <2>1. 1 <= q <=> 1 * sp.hop <= sp.width BY <1>1, DivAdjoint
  <2>2. 1 * sp.hop = sp.hop BY <1>1
  <2> QED BY <1>1, <2>1, <2>2
<1>5. Low(sp) = Max({1, q}) BY DEF Low
<1>6. High(sp) = Min({p, M}) BY DEF High
<1> HIDE DEF q, c, M
<1>7. Max({1, q}) = IF 1 >= q THEN 1 ELSE q BY <1>2, ExtremesOfTwo DEF Max
<1>8. M = IF 1 >= q + c THEN 1 ELSE q + c
  <2> DEFINE d == q + c
  <2>1. d \in Int BY <1>2, <1>3
  <2>2. M = Max({1, d}) BY DEF M
  <2> HIDE DEF d
  <2>3. M = IF 1 >= d THEN 1 ELSE d BY <2>1, <2>2, ExtremesOfTwo DEF Max
  <2> QED BY <2>3 DEF d
<1>9. M \in Nat \ {0} BY <1>2, <1>3, <1>8
<1>10. Min({p, M}) = IF p <= M THEN p ELSE M
  <2> HIDE DEF p
  <2> QED BY <1>1, <1>9, ExtremesOfTwo DEF Min
<1>11. \A m \in Nat \ {0} : m <= p /\ m <= q + c => m <= High(sp)
  BY <1>1, <1>2, <1>3, <1>6, <1>8, <1>9, <1>10
<1>12. Low(sp) = IF 1 >= q THEN 1 ELSE q BY <1>5, <1>7
<1>13. Low(sp) \in Nat \ {0} BY <1>2, <1>12
<1>14. High(sp) \in Nat \ {0} BY <1>1, <1>6, <1>9, <1>10
<1>15. 1 <= High(sp) BY <1>14
<1> QED BY <1>2, <1>4, <1>11, <1>12, <1>13, <1>14, <1>15 DEF q, c, p

\* A product is monotonic in one factor.
LEMMA TimesGrows ==
    ASSUME NEW h \in Nat, NEW a \in Int, NEW b \in Int, a <= b
    PROVE  h * a \in Int /\ h * b \in Int /\ h * a <= h * b
<1> QED OBVIOUS

\* The number of multiples of h that an interval of length w holds.
LEMMA MultiplesCounted ==
    ASSUME NEW h \in Nat \ {0}, NEW w \in Nat, NEW a \in Int
    PROVE  LET m == a \div h - (a - w) \div h
           IN  /\ m \in Int /\ w \div h <= m
               /\ m <= w \div h + (IF w % h # 0 THEN 1 ELSE 0)
<1> DEFINE B == a \div h
           A == (a - w) \div h
           q == w \div h
           m == B - A
<1>1. B \in Int /\ h * B <= a /\ a < h * B + h OBVIOUS
<1>2. A \in Int /\ h * A <= a - w /\ a - w < h * A + h OBVIOUS
<1>3. q \in Nat /\ h * q <= w /\ w < h * q + h /\ (w % h = 0 => w = h * q)
      /\ w % h \in Int
  OBVIOUS
<1> HIDE DEF B, A, q
<1>4. m \in Int BY <1>1, <1>2
<1>5. h * m = h * B - h * A BY <1>1, <1>2
<1>6. h * B \in Int /\ h * A \in Int /\ h * q \in Int BY <1>1, <1>2, <1>3
<1> HIDE DEF m
<1>7. q <= m
  <2> SUFFICES ASSUME ~ (q <= m) PROVE FALSE OBVIOUS
  <2>1. m <= q - 1 /\ q - 1 \in Int BY <1>3, <1>4
  <2>2. h * m <= h * (q - 1) BY <1>4, <2>1, TimesGrows
  <2>3. h * (q - 1) = h * q - h BY <1>3
  <2> QED BY <1>1, <1>2, <1>3, <1>5, <1>6, <2>2, <2>3
<1>8. m <= q + 1
  <2> SUFFICES ASSUME ~ (m <= q + 1) PROVE FALSE OBVIOUS
  <2>1. q + 2 <= m /\ q + 2 \in Int BY <1>3, <1>4
  <2>2. h * (q + 2) <= h * m BY <1>4, <2>1, TimesGrows
  <2>3. h * (q + 2) = h * q + h + h BY <1>3
  <2> QED BY <1>1, <1>2, <1>3, <1>5, <1>6, <2>2, <2>3
<1>9. w % h = 0 => m <= q
  <2> SUFFICES ASSUME w % h = 0, ~ (m <= q) PROVE FALSE OBVIOUS
  <2>1. q + 1 <= m /\ q + 1 \in Int BY <1>3, <1>4
  <2>2. h * (q + 1) <= h * m BY <1>4, <2>1, TimesGrows
  <2>3. h * (q + 1) = h * q + h BY <1>3
  <2> QED BY <1>1, <1>2, <1>3, <1>5, <1>6, <2>2, <2>3
<1>10. m <= q + (IF w % h # 0 THEN 1 ELSE 0) BY <1>3, <1>4, <1>8, <1>9
<1> QED BY <1>4, <1>7, <1>10 DEF m, A, B, q

\* As many as width and hop say, and at least one where windows leave no gap.
LEMMA MembersCounted ==
    ASSUME NEW sp \in Specs, NEW t \in Int, NEW m, m = Cardinality(Members(sp, t))
    PROVE  /\ m \in Nat
           /\ sp.width >= sp.hop => Members(sp, t) # {}
           /\ Members(sp, t) # {} /\ m <= sp.windowsPerInput =>
                 m \in Nat \ {0} /\ Low(sp) <= m /\ m <= High(sp)
<1> DEFINE h == sp.hop
           w == sp.width
           a == t - sp.origin
           B == a \div h
           A == (a - w) \div h
           q == w \div h
           c == IF w % h # 0 THEN 1 ELSE 0
<1>1. /\ h \in Nat \ {0} /\ w \in Nat \ {0} /\ a \in Int /\ a - w \in Int
  BY SpecTyped
<1>2. A + 1 = FirstWindow(sp, t) /\ B = LastWindow(sp, t)
  BY DEF FirstWindow, LastWindow
<1>3. Members(sp, t) = A + 1 .. B BY <1>2 DEF Members
<1>4. /\ 1 <= q <=> sp.width >= sp.hop
      /\ q \in Nat /\ Low(sp) = IF 1 >= q THEN 1 ELSE q
      /\ \A n \in Nat \ {0} : n <= sp.windowsPerInput /\ n <= q + c => n <= High(sp)
  <2>1. 1 <= q <=> 1 * h <= w BY <1>1, DivAdjoint
  <2>2. 1 * h = h BY <1>1
  <2>3. 1 <= q <=> sp.width >= sp.hop BY <1>1, <2>1, <2>2
  <2> QED BY <2>3, LowAndHigh
<1>5. A \in Int /\ B \in Int BY <1>1, DivAdjoint
<1>6. B - A \in Int /\ q <= B - A /\ B - A <= q + c
  <2> HIDE DEF h, w, a
  <2> QED BY <1>1, MultiplesCounted
<1> HIDE DEF h, w, a, A, B, q, c
<1>7. Cardinality(A + 1 .. B) = IF A + 1 > B THEN 0 ELSE B - (A + 1) + 1
  <2> DEFINE F == A + 1
  <2>1. F \in Int BY <1>5
  <2> HIDE DEF F
  <2>2. Cardinality(F .. B) = IF F > B THEN 0 ELSE B - F + 1 BY <1>5, <2>1, FS_Interval
  <2> QED BY <2>2 DEF F
<1>8. Members(sp, t) # {} <=> A + 1 <= B
  <2>1. ASSUME A + 1 <= B PROVE B \in Members(sp, t) BY <1>3, <1>5, <2>1
  <2>2. ASSUME NEW i \in Members(sp, t) PROVE A + 1 <= B BY <1>3, <1>5
  <2> QED BY <2>1, <2>2
<1>9. m = IF A + 1 <= B THEN B - A ELSE 0 BY <1>3, <1>5, <1>7
<1>10. m \in Nat BY <1>5, <1>9
<1>11. sp.width >= sp.hop => A + 1 <= B BY <1>4, <1>5, <1>6
<1>12. ASSUME A + 1 <= B, m <= sp.windowsPerInput
       PROVE  m \in Nat \ {0} /\ Low(sp) <= m /\ m <= High(sp)
  <2>1. m = B - A /\ m \in Nat \ {0} BY <1>5, <1>9, <1>12
  <2>2. Low(sp) <= m BY <1>4, <1>6, <2>1
  <2>3. m <= q + c BY <1>6, <2>1
  <2> QED BY <1>4, <1>12, <2>1, <2>2, <2>3
<1> QED BY <1>8, <1>10, <1>11, <1>12
-----------------------------------------------------------------------------
(***************************************************************************)
(* What cells weigh and count, as sums over their identities.              *)
(***************************************************************************)
CellsTyped(cells) == IsFiniteSet(DOMAIN cells) /\ \A id \in DOMAIN cells : cells[id] \in Cell

Weights(cells) == [id \in DOMAIN cells |-> CellBytes(cells[id])]

Counts(cells) == [id \in DOMAIN cells |-> cells[id].count]

BytesOf(cells) == SumOver(cells, CellBytes)

CountOf(cells) == SumOver(cells, LAMBDA cell : cell.count)

LEMMA CellMeasures ==
    ASSUME NEW cells, CellsTyped(cells), NEW id \in DOMAIN cells
    PROVE  Weights(cells)[id] \in Nat /\ Counts(cells)[id] \in Nat
<1>1. cells[id].count \in Nat /\ cells[id].value \in Seq(Nat)
  BY DEF CellsTyped, Cell
<1>2. Len(cells[id].value) \in Nat BY <1>1, LenProperties
<1>3. 1 + Len(cells[id].value) \in Nat BY <1>2
<1> QED BY <1>1, <1>3 DEF Weights, Counts, CellBytes

LEMMA WholeSums ==
    ASSUME NEW cells
    PROVE  /\ BytesOf(cells) = SumFunctionOnSet(Weights(cells), DOMAIN cells)
           /\ CountOf(cells) = SumFunctionOnSet(Counts(cells), DOMAIN cells)
<1>1. DOMAIN Weights(cells) = DOMAIN cells /\ DOMAIN Counts(cells) = DOMAIN cells
  BY DEF Weights, Counts
<1>2. BytesOf(cells) = SumFunction(Weights(cells)) BY DEF BytesOf, SumOver, Weights
<1>3. CountOf(cells) = SumFunction(Counts(cells)) BY DEF CountOf, SumOver, Counts
<1> QED BY <1>1, <1>2, <1>3 DEF SumFunction

\* Of some of the cells.
LEMMA PartSums ==
    ASSUME NEW cells, IsFiniteSet(DOMAIN cells), NEW ids \in SUBSET DOMAIN cells
    PROVE  /\ DOMAIN Restrict(cells, ids) = ids
           /\ BytesOf(Restrict(cells, ids)) = SumFunctionOnSet(Weights(cells), ids)
           /\ CountOf(Restrict(cells, ids)) = SumFunctionOnSet(Counts(cells), ids)
<1> DEFINE part == Restrict(cells, ids)
<1>1. DOMAIN part = ids /\ \A id \in ids : part[id] = cells[id] BY DEF Restrict
<1>2. IsFiniteSet(ids) BY FS_Subset
<1> HIDE DEF part
<1>3. \A id \in ids : /\ Weights(part)[id] = Weights(cells)[id]
                      /\ Counts(part)[id] = Counts(cells)[id]
  BY <1>1 DEF Weights, Counts
<1> DEFINE f == Weights(part)
           g == Weights(cells)
           d == Counts(part)
           e == Counts(cells)
<1>4. /\ BytesOf(part) = SumFunctionOnSet(f, ids)
      /\ CountOf(part) = SumFunctionOnSet(d, ids)
  BY <1>1, WholeSums
<1>5. \A id \in ids : f[id] = g[id] /\ d[id] = e[id] BY <1>3
<1> HIDE DEF f, g, d, e
<1>6. SumFunctionOnSet(f, ids) = SumFunctionOnSet(g, ids) BY <1>2, <1>5, SumOfSame
<1>7. SumFunctionOnSet(d, ids) = SumFunctionOnSet(e, ids) BY <1>2, <1>5, SumOfSame
<1> QED BY <1>1, <1>4, <1>6, <1>7 DEF g, e, part

\* A part and the rest.
LEMMA PartAndRest ==
    ASSUME NEW cells, CellsTyped(cells), NEW ids \in SUBSET DOMAIN cells,
           NEW part, part = Restrict(cells, ids),
           NEW rest, rest = Restrict(cells, DOMAIN cells \ ids)
    PROVE  /\ BytesOf(part) \in Nat /\ BytesOf(rest) \in Nat
           /\ BytesOf(cells) = BytesOf(part) + BytesOf(rest)
           /\ CountOf(part) \in Nat /\ CountOf(rest) \in Nat
           /\ CountOf(cells) = CountOf(part) + CountOf(rest)
<1> DEFINE S == DOMAIN cells
           f == Weights(cells)
           e == Counts(cells)
<1>1. IsFiniteSet(S) /\ \A id \in S : f[id] \in Nat /\ e[id] \in Nat
  BY CellMeasures DEF CellsTyped
<1>2. /\ BytesOf(part) = SumFunctionOnSet(f, ids) /\ CountOf(part) = SumFunctionOnSet(e, ids)
  BY <1>1, PartSums
<1>3. /\ BytesOf(rest) = SumFunctionOnSet(f, S \ ids)
      /\ CountOf(rest) = SumFunctionOnSet(e, S \ ids)
  BY <1>1, PartSums
<1>4. BytesOf(cells) = SumFunctionOnSet(f, S) /\ CountOf(cells) = SumFunctionOnSet(e, S)
  BY WholeSums
<1> DEFINE U == S \ ids
<1>5. Parts(S, ids, U) BY DEF Parts
<1> HIDE DEF S, U, f, e
<1>6. /\ SumFunctionOnSet(f, ids) \in Nat /\ SumFunctionOnSet(f, U) \in Nat
      /\ SumFunctionOnSet(f, S) = SumFunctionOnSet(f, ids) + SumFunctionOnSet(f, U)
  <2>1. IsFiniteSet(S) /\ Natural(f, S) BY <1>1 DEF Natural
  <2> QED BY ONLY <1>5, <2>1, SumOfParts
<1>7. /\ SumFunctionOnSet(e, ids) \in Nat /\ SumFunctionOnSet(e, U) \in Nat
      /\ SumFunctionOnSet(e, S) = SumFunctionOnSet(e, ids) + SumFunctionOnSet(e, U)
  <2>1. IsFiniteSet(S) /\ Natural(e, S) BY <1>1 DEF Natural
  <2> QED BY ONLY <1>5, <2>1, SumOfParts
<1> QED BY <1>2, <1>3, <1>4, <1>6, <1>7 DEF U

LEMMA WholeTyped ==
    ASSUME NEW cells, CellsTyped(cells)
    PROVE  BytesOf(cells) \in Nat /\ CountOf(cells) \in Nat
<1> DEFINE S == DOMAIN cells
           f == Weights(cells)
           e == Counts(cells)
<1>1. IsFiniteSet(S) /\ \A id \in S : f[id] \in Nat /\ e[id] \in Nat
  BY CellMeasures DEF CellsTyped
<1>2. BytesOf(cells) = SumFunctionOnSet(f, S) /\ CountOf(cells) = SumFunctionOnSet(e, S)
  BY WholeSums
<1> HIDE DEF S, f, e
<1> QED BY <1>1, <1>2, SumTyped

\* What a fold adds to the counts, and how the size is carried forward.
LEMMA FoldedSums ==
    ASSUME NEW s, CellsTyped(s.cells), NEW x, NEW ids, IsFiniteSet(ids),
           NEW cells, cells = Folded(s, ids, x), CellsTyped(cells)
    PROVE  /\ CountOf(cells) = CountOf(s.cells) + Cardinality(ids)
           /\ BytesOf(cells) = BytesOf(s.cells)
                - BytesOf(Restrict(s.cells, ids \cap DOMAIN s.cells))
                + BytesOf(Restrict(cells, ids))
           /\ BytesOf(cells) \in Nat
<1> DEFINE D == DOMAIN s.cells
           rest == D \ ids
           both == ids \cap D
           new == ids \ D
           f == Weights(s.cells)
           g == Weights(cells)
           d == Counts(s.cells)
           e == Counts(cells)
           Sum(h, S) == SumFunctionOnSet(h, S)
<1>1. /\ DOMAIN cells = D \cup ids
      /\ \A id \in rest : cells[id] = s.cells[id]
      /\ \A id \in both : cells[id].count = s.cells[id].count + 1
      /\ \A id \in new : cells[id].count = 1
  BY DEF Folded
<1>2. IsFiniteSet(D) /\ IsFiniteSet(rest) /\ IsFiniteSet(both) /\ IsFiniteSet(new)
  BY FS_Subset DEF CellsTyped
<1>3. \A id \in D : f[id] \in Nat /\ d[id] \in Nat BY CellMeasures
<1>4. \A id \in DOMAIN cells : g[id] \in Nat /\ e[id] \in Nat BY CellMeasures
<1>5. /\ \A id \in rest : g[id] = f[id] /\ e[id] = d[id]
      /\ \A id \in both : e[id] = d[id] + 1
      /\ \A id \in new : e[id] = 1
  BY <1>1 DEF Weights, Counts
<1>6. /\ BytesOf(s.cells) = Sum(f, D) /\ CountOf(s.cells) = Sum(d, D)
      /\ BytesOf(cells) = Sum(g, DOMAIN cells) /\ CountOf(cells) = Sum(e, DOMAIN cells)
  BY WholeSums
<1>7. /\ BytesOf(Restrict(s.cells, both)) = Sum(f, both)
      /\ BytesOf(Restrict(cells, ids)) = Sum(g, ids)
  <2>1. both \in SUBSET DOMAIN s.cells OBVIOUS
  <2>2. ids \in SUBSET DOMAIN cells /\ IsFiniteSet(DOMAIN cells) BY <1>1 DEF CellsTyped
  <2>3. IsFiniteSet(DOMAIN s.cells) BY <1>2
  <2> HIDE DEF both
  <2>4. BytesOf(Restrict(s.cells, both)) = SumFunctionOnSet(Weights(s.cells), both)
    BY <2>1, <2>3, PartSums
  <2>5. BytesOf(Restrict(cells, ids)) = SumFunctionOnSet(Weights(cells), ids)
    BY <2>2, PartSums
  <2> QED BY <2>4, <2>5
<1> DEFINE E == DOMAIN cells
<1>8. Parts(D, rest, both) /\ Parts(E, rest, ids) /\ Parts(ids, both, new)
  BY <1>1 DEF Parts
<1>9. IsFiniteSet(E) BY DEF CellsTyped
<1>10. /\ \A id \in E : g[id] \in Nat /\ e[id] \in Nat
       /\ BytesOf(cells) = Sum(g, E) /\ CountOf(cells) = Sum(e, E)
  BY <1>4, <1>6
<1> HIDE DEF D, E, rest, both, new, f, g, d, e
<1>11. /\ Sum(f, rest) \in Nat /\ Sum(f, both) \in Nat
       /\ Sum(f, D) = Sum(f, rest) + Sum(f, both)
  <2>1. IsFiniteSet(D) /\ Natural(f, D) BY <1>2, <1>3 DEF Natural
  <2> QED BY ONLY <1>8, <2>1, SumOfParts DEF Sum
<1>12. /\ Sum(d, rest) \in Nat /\ Sum(d, both) \in Nat
       /\ Sum(d, D) = Sum(d, rest) + Sum(d, both)
  <2>1. IsFiniteSet(D) /\ Natural(d, D) BY <1>2, <1>3 DEF Natural
  <2> QED BY ONLY <1>8, <2>1, SumOfParts DEF Sum
<1>13. /\ Sum(g, rest) \in Nat /\ Sum(g, ids) \in Nat
       /\ Sum(g, E) = Sum(g, rest) + Sum(g, ids)
  <2>1. IsFiniteSet(E) /\ Natural(g, E) BY <1>9, <1>10 DEF Natural
  <2> QED BY ONLY <1>8, <2>1, SumOfParts DEF Sum
<1>14. /\ Sum(e, rest) \in Nat /\ Sum(e, ids) \in Nat
       /\ Sum(e, E) = Sum(e, rest) + Sum(e, ids)
  <2>1. IsFiniteSet(E) /\ Natural(e, E) BY <1>9, <1>10 DEF Natural
  <2> QED BY ONLY <1>8, <2>1, SumOfParts DEF Sum
<1>15. /\ Sum(e, both) \in Nat /\ Sum(e, new) \in Nat
       /\ Sum(e, ids) = Sum(e, both) + Sum(e, new)
  <2>1. IsFiniteSet(ids) /\ Natural(e, ids) BY <1>8, <1>10 DEF Parts, Natural
  <2> QED BY ONLY <1>8, <2>1, SumOfParts DEF Sum
<1>16. Sum(g, rest) = Sum(f, rest) /\ Sum(e, rest) = Sum(d, rest)
  <2>1. Sum(g, rest) = Sum(f, rest) BY <1>2, <1>5, SumOfSame
  <2>2. Sum(e, rest) = Sum(d, rest) BY <1>2, <1>5, SumOfSame
  <2> QED BY <2>1, <2>2
<1>17. Sum(e, both) = Sum(d, both) + Cardinality(both)
  <2>1. \A id \in both : d[id] \in Int /\ e[id] = d[id] + 1
    <3>1. \A id \in both : id \in D BY <1>8 DEF Parts
    <3> QED BY <1>3, <1>5, <3>1
  <2> QED BY <1>2, <2>1, SumShifted
<1>18. Sum(e, new) = Cardinality(new)
  <2>1. \A id \in new : e[id] \in 1 .. 1 BY <1>5
  <2>2. /\ Cardinality(new) \in Nat /\ Cardinality(new) * 1 <= Sum(e, new)
        /\ Sum(e, new) <= Cardinality(new) * 1
    BY <1>2, <2>1, SumBounded
  <2> QED BY <1>15, <2>2
<1>19. /\ Cardinality(both) \in Nat /\ Cardinality(new) \in Nat
       /\ Cardinality(ids) = Cardinality(both) + Cardinality(new)
  <2>1. Cardinality(both \cup new) =
           Cardinality(both) + Cardinality(new) - Cardinality(both \cap new)
    BY <1>2, FS_Union
  <2>2. Cardinality(both) \in Nat /\ Cardinality(new) \in Nat
    BY <1>2, FS_CardinalityType
  <2>3. Cardinality(both \cap new) = 0 BY <1>8, FS_EmptySet DEF Parts
  <2>4. Cardinality(ids) = Cardinality(both) + Cardinality(new) - 0
    BY <1>8, <2>1, <2>3 DEF Parts
  <2> QED BY <2>2, <2>4
<1>20. Restrict(s.cells, ids \cap DOMAIN s.cells) = Restrict(s.cells, both) BY DEF both, D
<1> HIDE DEF Sum
<1>21. CountOf(cells) = CountOf(s.cells) + Cardinality(ids)
  BY <1>6, <1>10, <1>12, <1>14, <1>15, <1>16, <1>17, <1>18, <1>19
<1>22. BytesOf(cells) = BytesOf(s.cells) - BytesOf(Restrict(s.cells, both))
                          + BytesOf(Restrict(cells, ids))
  BY <1>6, <1>7, <1>10, <1>11, <1>13, <1>16
<1>23. BytesOf(cells) \in Nat BY <1>10, <1>13
<1> QED BY <1>20, <1>21, <1>22, <1>23
-----------------------------------------------------------------------------
(***************************************************************************)
(* The counters: each of them as the restore of a checkpoint demands it,   *)
(* and the size that is carried along equal to the one measured.           *)
(***************************************************************************)
CountTyped(s) ==
    /\ DOMAIN s = StateFields /\ s = [field \in StateFields |-> s[field]]
    /\ CellsTyped(s.cells)
    /\ s.processed \in Nat /\ s.lateDrops \in Nat /\ s.gaps \in Nat /\ s.updates \in Nat
    /\ s.created \in Nat /\ s.emitted \in Nat /\ s.finalized \in Nat /\ s.bytes \in Nat

\* The inputs that were folded.
FoldsOf(s) == s.processed - s.lateDrops - s.gaps

Balanced(sp, s) ==
    /\ s.processed <= sp.inputs /\ FoldsOf(s) >= 0
    /\ sp.late = "reject" => s.lateDrops = 0
    /\ sp.width >= sp.hop => s.gaps = 0
    /\ FoldsOf(s) * Low(sp) <= s.updates /\ s.updates <= FoldsOf(s) * High(sp)
    /\ s.created = Cardinality(DOMAIN s.cells) + s.emitted
    /\ s.created <= s.updates
    /\ (s.created = 0) <=> (s.updates = 0)
    /\ s.updates = CountOf(s.cells) + s.finalized
    /\ s.emitted <= s.finalized /\ s.finalized <= s.emitted * FoldsOf(s)
    /\ \A id \in DOMAIN s.cells : s.cells[id].count <= FoldsOf(s)

CountsHold(sp, s) ==
    /\ CountTyped(s) /\ Balanced(sp, s) /\ CellsAdmitted(sp, s)
    /\ s.updates <= MaxCount
    /\ s.bytes = BytesOf(s.cells)

CountInv == CountsHold(spec, state)

LEMMA BalancedAdmits ==
    ASSUME NEW sp, NEW s, Balanced(sp, s) PROVE CountersAdmitted(sp, s)
<1>1. (s.created = 0) = (s.updates = 0) BY DEF Balanced
<1>2. \A id \in DOMAIN s.cells : s.cells[id].count <= s.processed - s.lateDrops - s.gaps
  BY DEF Balanced, FoldsOf
<1> QED BY <1>1, <1>2 DEF Balanced, CountersAdmitted, FoldsOf, Low, High, CountOf

\* What an input that is not folded leaves as it was.
LEMMA CountsKept ==
    ASSUME NEW sp \in Specs, NEW s, CountsHold(sp, s), NEW u,
           SameBut(s, u, {"watermark", "finished", "processed", "lateDrops", "gaps"}),
           u = [field \in StateFields |-> u[field]],
           u.processed \in Nat, u.lateDrops \in Nat, u.gaps \in Nat,
           u.processed <= sp.inputs, FoldsOf(u) = FoldsOf(s),
           sp.late = "reject" => u.lateDrops = 0,
           sp.width >= sp.hop => u.gaps = 0
    PROVE  CountsHold(sp, u)
<1>1. /\ u.cells = s.cells /\ u.updates = s.updates /\ u.created = s.created
      /\ u.emitted = s.emitted /\ u.finalized = s.finalized /\ u.bytes = s.bytes
      /\ DOMAIN u = StateFields
  BY DEF SameBut, StateFields
<1>2. CountTyped(u) BY <1>1 DEF CountsHold, CountTyped
<1>3. Balanced(sp, u) BY <1>1 DEF CountsHold, Balanced
<1>4. CellsAdmitted(sp, u) BY <1>1 DEF CountsHold, CellsAdmitted
<1> QED BY <1>1, <1>2, <1>3, <1>4 DEF CountsHold

LEMMA CountInit == Init => CountInv
<1> SUFFICES ASSUME Init PROVE CountInv OBVIOUS
<1>1. spec \in Specs /\ state = Empty BY DEF Init
<1>2. /\ DOMAIN state = StateFields /\ state = [field \in StateFields |-> state[field]]
  BY <1>1 DEF Empty, StateFields
<1>3. /\ state.cells = <<>> /\ DOMAIN state.cells = {}
      /\ state.processed = 0 /\ state.lateDrops = 0 /\ state.gaps = 0 /\ state.updates = 0
      /\ state.created = 0 /\ state.emitted = 0 /\ state.finalized = 0 /\ state.bytes = 0
  BY <1>1 DEF Empty
<1>4. IsFiniteSet(DOMAIN state.cells) /\ Cardinality(DOMAIN state.cells) = 0
  BY <1>3, FS_EmptySet
<1>5. BytesOf(state.cells) = 0 /\ CountOf(state.cells) = 0
  BY <1>3, WholeSums, SumOfNone
<1>6. /\ MaxCount \in Nat /\ spec.inputs \in Nat \ {0} /\ spec.windows \in Nat \ {0}
      /\ spec.keys \in Nat \ {0} /\ spec.stateBytes \in Nat \ {0}
  BY <1>1, SpecTyped, LimitsTyped
<1>7. Low(spec) \in Nat /\ High(spec) \in Nat BY <1>1, LowAndHigh
<1>8. CountTyped(state) BY <1>2, <1>3, <1>4 DEF CountTyped, CellsTyped
<1>9. Balanced(spec, state)
  <2>1. FoldsOf(state) = 0 BY <1>3 DEF FoldsOf
  <2>2. 0 * Low(spec) = 0 /\ 0 * High(spec) = 0 BY <1>7
  <2> QED BY <1>3, <1>4, <1>5, <1>6, <2>1, <2>2 DEF Balanced
<1>10. CellsAdmitted(spec, state)
  <2>1. KeysOf(state.cells) = {} BY <1>3 DEF KeysOf
  <2>2. Cardinality(KeysOf(state.cells)) = 0 BY <2>1, FS_EmptySet
  <2>3. SumOver(state.cells, CellBytes) = 0 BY <1>5 DEF BytesOf
  <2> QED BY <1>3, <1>4, <1>6, <2>2, <2>3 DEF CellsAdmitted
<1> QED BY <1>3, <1>5, <1>6, <1>8, <1>9, <1>10 DEF CountInv, CountsHold

\* An input that is late or falls into a gap.
LEMMA CountSkip ==
    ASSUME FoldInv, CountInv, NEW t, NEW k, Process(t, k),
           Outcome(spec, state, t, k, state.processed + 1) # "folded"
    PROVE  CountInv'
<1> DEFINE outcome == Outcome(spec, state, t, k, state.processed + 1)
<1>1. /\ outcome # "refused" /\ spec' = spec
      /\ state' = StageProcess(spec, state, t, k, state.processed + 1)
  BY DEF Process
<1>2. /\ t \in Tick /\ ~ (state.processed + 1 > spec.inputs)
      /\ outcome \in {"folded", "late_dropped", "gap"}
      /\ outcome = "late_dropped" => spec.late # "reject"
      /\ outcome = "gap" => Members(spec, t) = {}
  <2> DEFINE x == state.processed + 1
  <2>1. Outcome(spec, state, t, k, x) # "refused" BY <1>1
  <2> HIDE DEF x
  <2>2. /\ t \in Tick /\ ~ (state.processed + 1 > spec.inputs)
        /\ Outcome(spec, state, t, k, x) \in {"folded", "late_dropped", "gap"}
        /\ Outcome(spec, state, t, k, x) = "late_dropped" => spec.late # "reject"
        /\ Outcome(spec, state, t, k, x) = "gap" => Members(spec, t) = {}
    BY ONLY <2>1 DEF Outcome
  <2> QED BY <2>2 DEF x
<1>3. spec \in Specs /\ t \in Int BY <1>2, TickTyped DEF FoldInv
<1>4. CountsHold(spec, state) /\ CountTyped(state) /\ Balanced(spec, state)
  BY DEF CountInv, CountsHold
<1>5. /\ state.processed \in Nat /\ state.lateDrops \in Nat /\ state.gaps \in Nat
      /\ DOMAIN state = StateFields
  BY <1>4 DEF CountTyped
<1>6. spec.inputs \in Nat BY <1>3, LimitsTyped
<1>7. state.processed + 1 <= spec.inputs BY <1>2, <1>5, <1>6
<1> DEFINE u == state'
           others == {"watermark", "finished", "processed", "lateDrops", "gaps"}
<1>8. CASE outcome = "late_dropped"
  <2>1. u = [state EXCEPT !.processed = @ + 1, !.lateDrops = @ + 1]
    BY <1>1, <1>8 DEF StageProcess
  <2>2. /\ SameBut(state, u, others) /\ u = [field \in StateFields |-> u[field]]
        /\ u.processed = state.processed + 1 /\ u.lateDrops = state.lateDrops + 1
        /\ u.gaps = state.gaps
    BY <1>5, <2>1 DEF SameBut, StateFields
  <2> HIDE DEF u
  <2>3. FoldsOf(u) = FoldsOf(state) BY <1>5, <2>2 DEF FoldsOf
  <2>4. spec.late # "reject" BY <1>2, <1>8
  <2>5. CountsHold(spec, u)
    BY <1>3, <1>4, <1>5, <1>7, <2>2, <2>3, <2>4, CountsKept DEF Balanced
  <2> QED BY <1>1, <2>5 DEF CountInv, u
<1>9. CASE outcome = "gap"
  <2>1. u = [state EXCEPT !.processed = @ + 1, !.gaps = @ + 1]
    BY <1>1, <1>9 DEF StageProcess
  <2>2. /\ SameBut(state, u, others) /\ u = [field \in StateFields |-> u[field]]
        /\ u.processed = state.processed + 1 /\ u.lateDrops = state.lateDrops
        /\ u.gaps = state.gaps + 1
    BY <1>5, <2>1 DEF SameBut, StateFields
  <2> HIDE DEF u
  <2>3. FoldsOf(u) = FoldsOf(state) BY <1>5, <2>2 DEF FoldsOf
  <2>4. ~ (spec.width >= spec.hop) BY <1>2, <1>3, <1>9, MembersCounted
  <2>5. CountsHold(spec, u)
    BY <1>3, <1>4, <1>5, <1>7, <2>2, <2>3, <2>4, CountsKept DEF Balanced
  <2> QED BY <1>1, <2>5 DEF CountInv, u
<1> HIDE DEF outcome
<1> QED BY <1>2, <1>8, <1>9 DEF outcome

LEMMA CountProgress ==
    ASSUME FoldInv, CountInv, NEW t, AdvanceWatermark(t) \/ Finish
    PROVE  CountInv'
<1> DEFINE u == state'
           others == {"watermark", "finished", "processed", "lateDrops", "gaps"}
<1>1. spec' = spec /\ spec \in Specs BY DEF AdvanceWatermark, Finish, FoldInv
<1>2. CountsHold(spec, state) /\ CountTyped(state) /\ Balanced(spec, state)
  BY DEF CountInv, CountsHold
<1>3. DOMAIN state = StateFields BY <1>2 DEF CountTyped
<1>4. u = StageAdvance(state, t) \/ u = StageFinish(state) BY DEF AdvanceWatermark, Finish
<1>5. /\ SameBut(state, u, others) /\ u = [field \in StateFields |-> u[field]]
      /\ u.processed = state.processed /\ u.lateDrops = state.lateDrops
      /\ u.gaps = state.gaps
  BY <1>3, <1>4 DEF SameBut, StateFields, StageAdvance, StageFinish
<1> HIDE DEF u
<1>6. FoldsOf(u) = FoldsOf(state) BY <1>5 DEF FoldsOf
<1>7. CountsHold(spec, u)
  BY <1>1, <1>2, <1>5, <1>6, CountsKept DEF CountTyped, Balanced
<1> QED BY <1>1, <1>7 DEF CountInv, u
-----------------------------------------------------------------------------
\* The sums of a fold's counters.
LEMMA FoldBalances ==
    ASSUME NEW F \in Nat, NEW low \in Nat, NEW high \in Nat, NEW m \in Nat \ {0},
           low <= m, m <= high, 1 <= low,
           NEW updates \in Nat, NEW emitted \in Nat, NEW finalized \in Nat,
           F * low <= updates, updates <= F * high, finalized <= emitted * F
    PROVE  /\ (F + 1) * low <= updates + m /\ updates + m <= (F + 1) * high
           /\ finalized <= emitted * (F + 1)
           /\ F <= updates
<1>1. (F + 1) * low = F * low + low /\ (F + 1) * high = F * high + high OBVIOUS
<1>2. emitted * (F + 1) = emitted * F + emitted OBVIOUS
<1>3. F * low \in Nat /\ F * high \in Nat /\ emitted * F \in Nat OBVIOUS
<1>4. F * 1 <= F * low BY TimesGrows
<1>5. F * 1 = F OBVIOUS
<1> QED BY <1>1, <1>2, <1>3, <1>4, <1>5

LEMMA CountFold ==
    ASSUME FoldInv, CountInv, NEW t, NEW k \in Key, Process(t, k),
           Outcome(spec, state, t, k, state.processed + 1) = "folded"
    PROVE  CountInv'
<1> DEFINE x == state.processed + 1
           ids == CellsOf(k, Members(spec, t))
           u == state'
           m == Cardinality(ids)
           D == DOMAIN state.cells
<1>1. u = StageFold(spec, state, t, k, x) /\ spec' = spec BY DEF Process, StageProcess
<1>2. /\ t \in Tick /\ ~ (state.processed + 1 > spec.inputs)
      /\ Members(spec, t) # {} /\ FoldAdmitted(spec, state, t, k, x)
  <2>1. Outcome(spec, state, t, k, x) = "folded" OBVIOUS
  <2> HIDE DEF x
  <2>2. /\ t \in Tick /\ ~ (state.processed + 1 > spec.inputs)
        /\ Members(spec, t) # {} /\ FoldAdmitted(spec, state, t, k, x)
    BY ONLY <2>1 DEF Outcome
  <2> QED BY <2>2
<1>3. /\ spec \in Specs /\ t \in Int /\ StateTyped(state)
      /\ D \subseteq Identities /\ IsFiniteSet(D)
  BY <1>2, TickTyped DEF FoldInv, StateTyped
<1>4. CountTyped(state) /\ Balanced(spec, state) /\ CellsAdmitted(spec, state)
      /\ state.bytes = BytesOf(state.cells)
  BY DEF CountInv, CountsHold
<1>5. /\ state.processed \in Nat /\ state.lateDrops \in Nat /\ state.gaps \in Nat
      /\ state.updates \in Nat /\ state.created \in Nat /\ state.emitted \in Nat
      /\ state.finalized \in Nat /\ DOMAIN state = StateFields
  BY <1>4 DEF CountTyped
<1>6. /\ DOMAIN u = StateFields /\ u = [field \in StateFields |-> u[field]]
      /\ u.cells = Folded(state, ids, x)
      /\ u.processed = state.processed + 1
      /\ u.lateDrops = state.lateDrops /\ u.gaps = state.gaps
      /\ u.emitted = state.emitted /\ u.finalized = state.finalized
      /\ u.updates = state.updates + Cardinality(ids)
      /\ u.created = state.created + Cardinality(ids \ D)
      /\ u.bytes = state.bytes - BytesOf(Restrict(state.cells, ids \cap D))
                     + BytesOf(Restrict(u.cells, ids))
  <2> HIDE DEF ids, x
  <2> QED BY <1>1, <1>5 DEF StageFold, StateFields, ids, CellsOf, BytesOf
<1>7. ids \subseteq Identities /\ IsFiniteSet(ids) /\ m = Cardinality(Members(spec, t))
  <2>1. Members(spec, t) \subseteq Int /\ IsFiniteSet(Members(spec, t))
    BY <1>3, MembersFinite
  <2>2. ids = Members(spec, t) \X {k} BY DEF CellsOf
  <2>3. ids \subseteq Identities BY <2>1 DEF CellsOf, Identities
  <2>4. IsFiniteSet({k}) /\ Cardinality({k}) = 1 BY FS_Singleton
  <2> DEFINE M == Members(spec, t)
  <2> HIDE DEF M
  <2>5. /\ IsFiniteSet(M \X {k})
        /\ Cardinality(M \X {k}) = Cardinality(M) * Cardinality({k})
    BY <2>1, <2>4, FS_Product DEF M
  <2>6. Cardinality(M) \in Nat BY <2>1, FS_CardinalityType DEF M
  <2>7. Cardinality(M \X {k}) = Cardinality(M) BY <2>4, <2>5, <2>6
  <2> QED BY <2>2, <2>3, <2>5, <2>7 DEF M
<1>8. /\ Cardinality(ids) <= spec.windowsPerInput
      /\ \A i \in Members(spec, t) : GeometryAdmitted(spec, i)
      /\ Cardinality(DOMAIN u.cells) <= spec.windows
      /\ Cardinality(KeysOf(u.cells)) <= spec.keys
      /\ u.updates <= MaxCount
      /\ spec.identity => \A id \in ids : RowBytes(u.cells[id]) <= spec.rowBytes
      /\ u.bytes <= spec.stateBytes
  <2> HIDE DEF x
  <2> QED BY <1>1, <1>2 DEF FoldAdmitted, CellsOf
<1>9. FoldInv' BY FoldStep
<1>10. CellsTyped(u.cells) BY <1>9 DEF FoldInv, StateTyped, CellsTyped
<1>11. CellsTyped(state.cells) BY <1>4 DEF CountTyped
<1>12. /\ DOMAIN u.cells = D \cup ids
       /\ \A id \in D \ ids : u.cells[id] = state.cells[id]
       /\ \A id \in D \cap ids : u.cells[id].count = state.cells[id].count + 1
       /\ \A id \in ids \ D : u.cells[id].count = 1
  <2> HIDE DEF ids, x
  <2> QED BY <1>6 DEF Folded
<1>13. m \in Nat \ {0} /\ Low(spec) <= m /\ m <= High(spec)
  BY <1>2, <1>3, <1>7, <1>8, MembersCounted
<1>14. Low(spec) \in Nat /\ 1 <= Low(spec) /\ High(spec) \in Nat BY <1>3, LowAndHigh
<1>15. /\ CountOf(u.cells) = CountOf(state.cells) + m
       /\ u.bytes = BytesOf(u.cells) /\ u.bytes \in Nat
  <2> DEFINE cells == u.cells
             s == state
  <2>1. cells = Folded(s, ids, x) BY <1>6
  <2> HIDE DEF cells, ids, x, s, u
  <2>2. /\ CountOf(cells) = CountOf(s.cells) + Cardinality(ids)
        /\ BytesOf(cells) = BytesOf(s.cells)
             - BytesOf(Restrict(s.cells, ids \cap DOMAIN s.cells))
             + BytesOf(Restrict(cells, ids))
        /\ BytesOf(cells) \in Nat
    BY <1>7, <1>10, <1>11, <2>1, FoldedSums DEF cells, s
  <2> QED BY <1>4, <1>6, <2>2 DEF cells, s
<1> HIDE DEF u, ids, x, m, D
<1> DEFINE F == FoldsOf(state)
<1>16. F \in Nat /\ FoldsOf(u) = F + 1
  <2>1. F \in Int /\ F >= 0 BY <1>4, <1>5 DEF Balanced, FoldsOf
  <2>2. FoldsOf(u) = F + 1 BY <1>5, <1>6 DEF FoldsOf
  <2> QED BY <2>1, <2>2
<1>17. /\ F * Low(spec) <= state.updates /\ state.updates <= F * High(spec)
       /\ state.finalized <= state.emitted * F
       /\ state.updates = CountOf(state.cells) + state.finalized
       /\ state.created = Cardinality(D) + state.emitted
       /\ state.created <= state.updates
       /\ state.emitted <= state.finalized
       /\ \A id \in D : state.cells[id].count <= F
       /\ spec.late = "reject" => state.lateDrops = 0
       /\ spec.width >= spec.hop => state.gaps = 0
  BY <1>4 DEF Balanced, D
<1> HIDE DEF F
<1>18. /\ (F + 1) * Low(spec) <= state.updates + m
       /\ state.updates + m <= (F + 1) * High(spec)
       /\ state.finalized <= state.emitted * (F + 1)
       /\ F <= state.updates
  BY <1>5, <1>13, <1>14, <1>16, <1>17, FoldBalances
<1> DEFINE new == Cardinality(ids \ D)
<1>19. /\ new \in Nat /\ new <= m /\ Cardinality(D) \in Nat
       /\ Cardinality(D \cup ids) = Cardinality(D) + new
       /\ Cardinality(D) = 0 => new = m
  <2>1. IsFiniteSet(ids \ D) BY <1>7, FS_Subset
  <2>2. new \in Nat /\ Cardinality(D) \in Nat BY <1>3, <2>1, FS_CardinalityType
  <2>3. new <= m BY <1>7, FS_Subset DEF m
  <2>4. Cardinality(D \cup (ids \ D)) =
           Cardinality(D) + new - Cardinality(D \cap (ids \ D))
    BY <1>3, <2>1, FS_Union
  <2>5. D \cup (ids \ D) = D \cup ids /\ D \cap (ids \ D) = {} OBVIOUS
  <2>6. Cardinality(D \cap (ids \ D)) = 0 BY <2>5, FS_EmptySet
  <2>7. Cardinality(D) = 0 => new = m
    <3>1. Cardinality(D) = 0 => D = {} BY <1>3, FS_EmptySet
    <3>2. D = {} => ids \ D = ids OBVIOUS
    <3> QED BY <3>1, <3>2 DEF m
  <2> HIDE DEF new
  <2>8. Cardinality(D \cup ids) = Cardinality(D) + new
    <3>1. Cardinality(D \cup ids) = Cardinality(D) + new - 0 BY <2>4, <2>5, <2>6
    <3> QED BY <2>2, <3>1
  <2> QED BY <2>2, <2>3, <2>7, <2>8
<1>20. u.updates = state.updates + m /\ u.created = state.created + new BY <1>6 DEF m
<1> HIDE DEF new
<1>21. \A id \in DOMAIN u.cells : u.cells[id].count <= F + 1 /\ u.cells[id].count \in 1 .. MaxCount
  <2> SUFFICES ASSUME NEW id \in DOMAIN u.cells
               PROVE  u.cells[id].count <= F + 1 /\ u.cells[id].count \in 1 .. MaxCount
    OBVIOUS
  <2>1. MaxCount \in Nat BY <1>3, SpecTyped
  <2>2. F + 1 <= MaxCount BY <1>5, <1>8, <1>13, <1>16, <1>18, <1>20, <2>1
  <2>3. id \in D => state.cells[id].count \in 1 .. MaxCount /\ state.cells[id].count <= F
    BY <1>4, <1>17 DEF CellsAdmitted, D
  <2>4. CASE id \in D \ ids BY <1>12, <1>16, <2>1, <2>3, <2>4
  <2>5. CASE id \in D \cap ids
    <3>1. u.cells[id].count = state.cells[id].count + 1 BY <1>12, <2>5
    <3> QED BY <1>16, <2>1, <2>2, <2>3, <2>5, <3>1
  <2>6. CASE id \in ids \ D
    <3>1. u.cells[id].count = 1 BY <1>12, <2>6
    <3> QED BY <1>16, <2>1, <2>2, <3>1
  <2> QED BY <1>12, <2>4, <2>5, <2>6
<1>22. CountTyped(u)
  BY <1>5, <1>6, <1>10, <1>13, <1>15, <1>19, <1>20 DEF CountTyped
<1>23. Balanced(spec, u)
  <2>1. spec.inputs \in Nat BY <1>3, LimitsTyped
  <2>2. u.processed <= spec.inputs /\ FoldsOf(u) >= 0 BY <1>2, <1>5, <1>6, <1>16, <2>1
  <2>3. /\ FoldsOf(u) * Low(spec) <= u.updates /\ u.updates <= FoldsOf(u) * High(spec)
        /\ u.finalized <= u.emitted * FoldsOf(u)
    BY <1>6, <1>16, <1>18, <1>20
  <2>4. u.created = Cardinality(DOMAIN u.cells) + u.emitted
    <3>1. Cardinality(DOMAIN u.cells) = Cardinality(D) + new BY <1>12, <1>19
    <3>2. u.created = Cardinality(D) + state.emitted + new BY <1>17, <1>20
    <3>3. u.emitted = state.emitted BY <1>6
    <3>4. Cardinality(D) \in Nat /\ new \in Nat BY <1>19
    <3> DEFINE d == Cardinality(D)
               c == Cardinality(DOMAIN u.cells)
    <3> HIDE DEF d, c
    <3> QED BY <1>5, <3>1, <3>2, <3>3, <3>4
  <2>5. u.created <= u.updates BY <1>5, <1>13, <1>17, <1>19, <1>20
  <2>6. u.created # 0 /\ u.updates # 0
    <3>1. u.updates # 0 BY <1>5, <1>13, <1>20
    <3>2. CASE Cardinality(D) = 0 BY <1>5, <1>13, <1>19, <1>20, <3>2
    <3>3. CASE Cardinality(D) # 0
      <4>1. u.created = Cardinality(D) + state.emitted + new BY <1>17, <1>20
      <4>2. Cardinality(D) \in Nat /\ new \in Nat BY <1>19
      <4>3. u.created # 0 BY <1>5, <3>3, <4>1, <4>2
      <4> QED BY <3>1, <4>3
    <3> QED BY <3>1, <3>2, <3>3
  <2>7. CountOf(state.cells) \in Nat BY <1>11, WholeTyped
  <2>8. u.updates = CountOf(u.cells) + u.finalized
    BY <1>5, <1>6, <1>13, <1>15, <1>17, <1>20, <2>7
  <2>9. u.emitted <= u.finalized BY <1>6, <1>17
  <2>10. /\ spec.late = "reject" => u.lateDrops = 0
         /\ spec.width >= spec.hop => u.gaps = 0
    BY <1>6, <1>17
  <2>11. \A id \in DOMAIN u.cells : u.cells[id].count <= FoldsOf(u) BY <1>16, <1>21
  <2> QED BY <2>2, <2>3, <2>4, <2>5, <2>6, <2>8, <2>9, <2>10, <2>11 DEF Balanced
<1>24. CellsAdmitted(spec, u)
  <2>1. BytesOf(u.cells) <= spec.stateBytes BY <1>8, <1>15
  <2>2. \A id \in DOMAIN u.cells :
           /\ GeometryAdmitted(spec, id[1])
           /\ spec.identity => RowBytes(u.cells[id]) <= spec.rowBytes
    <3> SUFFICES ASSUME NEW id \in DOMAIN u.cells
                 PROVE  /\ GeometryAdmitted(spec, id[1])
                        /\ spec.identity => RowBytes(u.cells[id]) <= spec.rowBytes
      OBVIOUS
    <3>1. CASE id \in D \ ids BY <1>4, <1>12, <3>1 DEF CellsAdmitted, D
    <3>2. CASE id \in ids
      <4>1. id[1] \in Members(spec, t) BY <3>2 DEF ids, CellsOf
      <4> QED BY <1>8, <3>2, <4>1
    <3> QED BY <1>12, <3>1, <3>2
  <2> QED BY <1>8, <1>21, <2>1, <2>2 DEF CellsAdmitted, BytesOf
<1>25. CountsHold(spec, u) BY <1>8, <1>15, <1>22, <1>23, <1>24 DEF CountsHold
<1> QED BY <1>1, <1>25 DEF CountInv, u
-----------------------------------------------------------------------------
LEMMA KeysFinite ==
    ASSUME NEW cells, IsFiniteSet(DOMAIN cells) PROVE IsFiniteSet(KeysOf(cells))
<1> DEFINE f == [id \in DOMAIN cells |-> id[2]]
<1>1. f \in [DOMAIN cells -> KeysOf(cells)] BY DEF KeysOf
<1>2. \A k \in KeysOf(cells) : \E id \in DOMAIN cells : f[id] = k BY DEF KeysOf
<1>3. f \in Surjection(DOMAIN cells, KeysOf(cells))
  <2> HIDE DEF f
  <2> QED BY <1>1, <1>2 DEF Surjection
<1> QED BY <1>3, FS_Surjection

LEMMA CountDrain ==
    ASSUME FoldInv, CountInv, NEW n, Drain(n)
    PROVE  CountInv'
<1> DEFINE ids == Selected(spec, state, n)
           cells == state.cells
           D == DOMAIN state.cells
           part == Restrict(cells, ids)
           rest == Restrict(cells, D \ ids)
           u == state'
           K == Cardinality(ids)
<1>1. spec' = spec /\ u = StageDrain(spec, state, n) /\ n \in Nat \ {0}
  BY DEF Drain, DrainAdmitted
<1>2. CountTyped(state) /\ Balanced(spec, state) /\ CellsAdmitted(spec, state)
      /\ state.bytes = BytesOf(cells) /\ state.updates <= MaxCount
  BY DEF CountInv, CountsHold
<1>3. /\ state.processed \in Nat /\ state.lateDrops \in Nat /\ state.gaps \in Nat
      /\ state.updates \in Nat /\ state.created \in Nat /\ state.emitted \in Nat
      /\ state.finalized \in Nat /\ DOMAIN state = StateFields
      /\ CellsTyped(cells)
  BY <1>2 DEF CountTyped
<1>4. spec \in Specs /\ StateTyped(state) BY DEF FoldInv
<1>5. ids \subseteq D /\ IsFiniteSet(ids) /\ IsFiniteSet(D)
  BY <1>1, <1>4, SelectedFirst DEF StateTyped
<1>6. /\ DOMAIN u = StateFields /\ u = [field \in StateFields |-> u[field]]
      /\ u.cells = rest
      /\ u.processed = state.processed
      /\ u.lateDrops = state.lateDrops /\ u.gaps = state.gaps
      /\ u.updates = state.updates /\ u.created = state.created
      /\ u.emitted = state.emitted + K
      /\ u.finalized = state.finalized + CountOf(part)
      /\ u.bytes = state.bytes - BytesOf(part)
  <2> HIDE DEF ids
  <2> QED BY <1>1, <1>3 DEF StageDrain, StateFields, BytesOf, CountOf, ids
<1>7. /\ DOMAIN rest = D \ ids
      /\ \A id \in D \ ids : rest[id] = cells[id]
  BY DEF Restrict
<1>8. CountOf(part) = SumFunctionOnSet(Counts(cells), ids)
  <2> HIDE DEF ids, cells
  <2>1. ids \in SUBSET DOMAIN cells /\ IsFiniteSet(DOMAIN cells) BY <1>5 DEF cells
  <2> QED BY <2>1, PartSums
<1>9. /\ BytesOf(part) \in Nat /\ BytesOf(rest) \in Nat
      /\ BytesOf(cells) = BytesOf(part) + BytesOf(rest)
      /\ CountOf(part) \in Nat /\ CountOf(rest) \in Nat
      /\ CountOf(cells) = CountOf(part) + CountOf(rest)
  <2>1. ids \in SUBSET DOMAIN cells BY <1>5
  <2>2. part = Restrict(cells, ids) /\ rest = Restrict(cells, DOMAIN cells \ ids) OBVIOUS
  <2> HIDE DEF ids, cells, part, rest
  <2> QED BY ONLY <1>3, <2>1, <2>2, PartAndRest
<1> DEFINE F == FoldsOf(state)
<1>10. F \in Nat /\ FoldsOf(u) = F
  <2>1. F \in Int /\ F >= 0 BY <1>2, <1>3 DEF Balanced, FoldsOf
  <2>2. FoldsOf(u) = F BY <1>3, <1>6 DEF FoldsOf
  <2> QED BY <2>1, <2>2
<1>11. \A id \in D : cells[id].count \in 1 .. F
  <2> SUFFICES ASSUME NEW id \in D PROVE cells[id].count \in 1 .. F OBVIOUS
  <2>1. cells[id].count \in 1 .. MaxCount BY <1>2 DEF CellsAdmitted
  <2>2. cells[id].count <= F BY <1>2 DEF Balanced
  <2>3. MaxCount \in Nat BY <1>4, SpecTyped
  <2> HIDE DEF F, cells
  <2> QED BY <1>10, <2>1, <2>2, <2>3
<1>12. \A id \in ids : Counts(cells)[id] \in 1 .. F BY <1>5, <1>11 DEF Counts
<1> HIDE DEF ids, part, rest, u, F, K, cells
<1>13. /\ K \in Nat /\ K <= CountOf(part) /\ CountOf(part) <= K * F
  <2> DEFINE c == Counts(cells)
  <2>1. \A id \in ids : c[id] \in 1 .. F BY <1>12
  <2> HIDE DEF c
  <2>2. 1 \in Nat OBVIOUS
  <2>3. /\ Cardinality(ids) \in Nat /\ Cardinality(ids) * 1 <= SumFunctionOnSet(c, ids)
        /\ SumFunctionOnSet(c, ids) <= Cardinality(ids) * F
    BY <1>5, <1>10, <2>1, <2>2, SumBounded
  <2>4. Cardinality(ids) * 1 = Cardinality(ids) BY <2>3
  <2> QED BY <1>8, <2>3, <2>4 DEF K, c
<1>14. Cardinality(D \ ids) = Cardinality(D) - K /\ Cardinality(D) \in Nat
  <2>1. Cardinality(D \ ids) = Cardinality(D) - Cardinality(D \cap ids)
    BY <1>5, FS_Difference
  <2>2. D \cap ids = ids BY <1>5
  <2>3. Cardinality(D) \in Nat BY <1>5, FS_CardinalityType
  <2> QED BY <2>1, <2>2, <2>3 DEF K
<1>15. /\ F * Low(spec) <= state.updates /\ state.updates <= F * High(spec)
       /\ state.finalized <= state.emitted * F
       /\ state.updates = CountOf(cells) + state.finalized
       /\ state.created = Cardinality(D) + state.emitted
       /\ state.created <= state.updates
       /\ state.emitted <= state.finalized
       /\ state.processed <= spec.inputs
       /\ spec.late = "reject" => state.lateDrops = 0
       /\ spec.width >= spec.hop => state.gaps = 0
       /\ (state.created = 0) <=> (state.updates = 0)
  BY <1>2 DEF Balanced, F, cells
<1>16. CellsTyped(rest)
  <2>1. IsFiniteSet(D \ ids) BY <1>5, FS_Difference
  <2>2. \A id \in D : cells[id] \in Cell BY <1>3 DEF CellsTyped, cells
  <2> QED BY <1>7, <2>1, <2>2 DEF CellsTyped
<1>17. u.bytes = BytesOf(rest) BY <1>2, <1>6, <1>9
<1>18. CountTyped(u)
  <2>1. u.emitted \in Nat /\ u.finalized \in Nat BY <1>3, <1>6, <1>9, <1>13
  <2>2. u.bytes \in Nat BY <1>9, <1>17
  <2> QED BY <1>3, <1>6, <1>16, <2>1, <2>2 DEF CountTyped
<1>19. Balanced(spec, u)
  <2>1. u.finalized <= u.emitted * FoldsOf(u)
    <3>1. (state.emitted + K) * F = state.emitted * F + K * F BY <1>3, <1>10, <1>13
    <3>2. state.emitted * F \in Nat /\ K * F \in Nat BY <1>3, <1>10, <1>13
    <3>3. state.finalized + CountOf(part) <= state.emitted * F + K * F
      BY <1>3, <1>9, <1>13, <1>15, <3>2
    <3> QED BY <1>6, <1>10, <3>1, <3>3
  <2>2. u.emitted <= u.finalized BY <1>3, <1>6, <1>9, <1>13, <1>15
  <2>3. u.created = Cardinality(DOMAIN u.cells) + u.emitted
    <3>1. Cardinality(DOMAIN u.cells) = Cardinality(D) - K BY <1>6, <1>7, <1>14
    <3>2. u.created = Cardinality(D) + state.emitted BY <1>6, <1>15
    <3>3. u.emitted = state.emitted + K BY <1>6
    <3> QED BY <1>3, <1>13, <1>14, <3>1, <3>2, <3>3
  <2>4. u.updates = CountOf(u.cells) + u.finalized BY <1>3, <1>6, <1>9, <1>15
  <2>5. \A id \in DOMAIN u.cells : u.cells[id].count <= FoldsOf(u)
    <3>1. \A id \in D \ ids : cells[id].count <= F BY <1>10, <1>11
    <3> QED BY <1>6, <1>7, <1>10, <3>1
  <2>6. FoldsOf(u) >= 0 BY <1>10
  <2>7. FoldsOf(u) * Low(spec) <= u.updates /\ u.updates <= FoldsOf(u) * High(spec)
    BY <1>6, <1>10, <1>15
  <2> QED BY <1>6, <1>15, <2>1, <2>2, <2>3, <2>4, <2>5, <2>6, <2>7 DEF Balanced
<1>20. CellsAdmitted(spec, u)
  <2>1. /\ Cardinality(D) <= spec.windows /\ Cardinality(KeysOf(cells)) <= spec.keys
        /\ BytesOf(cells) <= spec.stateBytes
        /\ \A id \in D :
              /\ GeometryAdmitted(spec, id[1])
              /\ cells[id].count \in 1 .. MaxCount
              /\ spec.identity => RowBytes(cells[id]) <= spec.rowBytes
    BY <1>2 DEF CellsAdmitted, BytesOf, cells
  <2>2. /\ spec.windows \in Nat /\ spec.keys \in Nat /\ spec.stateBytes \in Nat
    BY <1>4, LimitsTyped
  <2>3. Cardinality(DOMAIN rest) <= spec.windows
    <3>1. Cardinality(DOMAIN rest) = Cardinality(D) - K BY <1>7, <1>14
    <3> QED BY <1>13, <1>14, <2>1, <2>2, <3>1
  <2>4. Cardinality(KeysOf(rest)) <= spec.keys
    <3>1. KeysOf(rest) \subseteq KeysOf(cells) BY <1>7 DEF KeysOf, cells
    <3>2. IsFiniteSet(KeysOf(cells)) BY <1>3, KeysFinite DEF CellsTyped
    <3>3. /\ Cardinality(KeysOf(rest)) <= Cardinality(KeysOf(cells))
          /\ IsFiniteSet(KeysOf(rest))
      BY <3>1, <3>2, FS_Subset
    <3>4. Cardinality(KeysOf(rest)) \in Nat /\ Cardinality(KeysOf(cells)) \in Nat
      BY <3>2, <3>3, FS_CardinalityType
    <3> QED BY <2>1, <2>2, <3>3, <3>4
  <2>5. BytesOf(rest) <= spec.stateBytes BY <1>9, <2>1, <2>2
  <2>6. \A id \in DOMAIN rest :
           /\ GeometryAdmitted(spec, id[1])
           /\ rest[id].count \in 1 .. MaxCount
           /\ spec.identity => RowBytes(rest[id]) <= spec.rowBytes
    BY <1>7, <2>1
  <2> QED BY <1>6, <2>3, <2>4, <2>5, <2>6 DEF CellsAdmitted, BytesOf
<1>21. CountsHold(spec, u)
  BY <1>2, <1>6, <1>17, <1>18, <1>19, <1>20 DEF CountsHold
<1> QED BY <1>1, <1>21 DEF CountInv, u

LEMMA CountNext == FoldInv /\ CountInv /\ [Next]_vars => CountInv'
<1> SUFFICES ASSUME FoldInv, CountInv, [Next]_vars PROVE CountInv' OBVIOUS
<1>1. CASE UNCHANGED vars
  <2>1. spec' = spec /\ state' = state BY <1>1 DEF vars
  <2> QED BY <2>1 DEF CountInv
<1>2. ASSUME NEW t \in Timestamps, NEW k \in Key, Process(t, k) PROVE CountInv'
  <2>1. CASE Outcome(spec, state, t, k, state.processed + 1) = "folded" BY <1>2, <2>1, CountFold
  <2>2. CASE Outcome(spec, state, t, k, state.processed + 1) # "folded" BY <1>2, <2>2, CountSkip
  <2> QED BY <2>1, <2>2
<1>3. ASSUME NEW t \in Timestamps, AdvanceWatermark(t) PROVE CountInv' BY <1>3, CountProgress
<1>4. CASE Finish BY <1>4, CountProgress
<1>5. ASSUME NEW n \in DrainSizes, Drain(n) PROVE CountInv' BY <1>5, CountDrain
<1> QED BY <1>1, <1>2, <1>3, <1>4, <1>5 DEF Next

\* What the invariants come to.
LEMMA RestoreAdmits == FoldInv /\ CountInv => CheckpointRestores
<1> SUFFICES ASSUME FoldInv, CountInv PROVE CheckpointRestores OBVIOUS
<1>1. CountTyped(state) /\ Balanced(spec, state) /\ CellsAdmitted(spec, state)
      /\ state.bytes = BytesOf(state.cells)
  BY DEF CountInv, CountsHold
<1>2. CountersAdmitted(spec, state) BY <1>1, BalancedAdmits
<1>3. TypeOK
  <2>1. /\ DOMAIN state.cells \subseteq Int \X Key
        /\ \A id \in DOMAIN state.cells : state.cells[id] \in Cell
        /\ state.watermark \in Tick \cup {NoWatermark} /\ state.finished \in BOOLEAN
    BY DEF FoldInv, StateTyped, Identities
  <2>2. \A counter \in {"processed", "lateDrops", "gaps", "updates", "created",
                        "emitted", "finalized", "bytes"} : state[counter] \in Nat
    BY <1>1 DEF CountTyped
  <2>3. spec \in Specs BY DEF FoldInv
  <2>4. inputs \in Seq(Input) /\ rows \in Seq(Row) BY DEF FoldInv
  <2> QED BY <2>1, <2>2, <2>3, <2>4 DEF TypeOK, Input, Row
<1>4. Restored(state) = state
  <2>1. SumOver(state.cells, CellBytes) = state.bytes BY <1>1 DEF BytesOf
  <2>2. Restored(state) = [state EXCEPT !.bytes = state.bytes] BY <2>1 DEF Restored
  <2>3. state = [field \in StateFields |-> state[field]] BY <1>1 DEF CountTyped
  <2>4. [state EXCEPT !.bytes = state.bytes] = state BY <2>3 DEF StateFields
  <2> QED BY <2>2, <2>4
<1> QED BY <1>1, <1>2, <1>3, <1>4 DEF CheckpointRestores

(***************************************************************************)
(* The counters and sizes that the runtime carries from call to call stay  *)
(* what a restore demands of them.                                         *)
(***************************************************************************)
THEOREM CountersStayTrue == Spec => []CountInv
<1>1. FoldInv /\ CountInv /\ [Next]_vars => CountInv' BY CountNext
<1> QED BY <1>1, CountInit, FoldInvariance, PTL DEF Spec

(***************************************************************************)
(* Whatever state a runtime reaches, for any limits, a checkpoint of it    *)
(* passes its own restore and comes back as the same state.                *)
(***************************************************************************)
THEOREM CheckpointsAlwaysRestore == Spec => []CheckpointRestores
<1> QED BY RestoreAdmits, FoldInvariance, CountersStayTrue, PTL
=============================================================================
