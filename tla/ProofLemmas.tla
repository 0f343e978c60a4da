----------------------------- MODULE ProofLemmas ------------------------------
(***************************************************************************)
(* What the proofs share: induction over the naturals as a first-order     *)
(* fact, the filter of a sequence and the sum of a function, neither of    *)
(* which the provers can follow through its recursion.                     *)
(***************************************************************************)
EXTENDS Integers, Subsequence, Functions, TLAPS, FiniteSetTheorems, SequenceTheorems,
        WellFoundedInduction

\* A nonempty set of naturals has a least element.
LEMMA LeastNatural ==
    ASSUME NEW T \in SUBSET Nat, T # {}
    PROVE  \E m \in T : \A n \in T : m <= n
<1> DEFINE U == {0 .. n : n \in T}
<1>1. U \subseteq FiniteSubsetsOf(Nat)
  <2>1. \A n \in Nat : 0 .. n \in FiniteSubsetsOf(Nat)
    BY FS_Interval DEF FiniteSubsetsOf
  <2> QED BY <2>1
<1>2. PICK x \in U : \A y \in U : <<y, x>> \notin StrictSubsetOrdering(Nat)
  <2>1. IsWellFoundedOn(StrictSubsetOrdering(Nat), FiniteSubsetsOf(Nat))
    BY FS_StrictSubsetOrderingWellFounded
  <2>2. U # {} OBVIOUS
  <2> QED BY <1>1, <2>1, <2>2, WFMin
<1>3. PICK m \in T : x = 0 .. m OBVIOUS
<1>4. \A n \in T : m <= n
  <2> SUFFICES ASSUME NEW n \in T, ~ (m <= n) PROVE FALSE OBVIOUS
  <2>1. 0 .. n \subseteq 0 .. m /\ 0 .. n # 0 .. m OBVIOUS
  <2>2. <<0 .. n, x>> \in StrictSubsetOrdering(Nat)
    BY <2>1, <1>3 DEF StrictSubsetOrdering
  <2> QED BY <1>2, <2>2
<1> QED BY <1>4

-----------------------------------------------------------------------------
(***************************************************************************)
(* The filter of a sequence, one element at a time.                        *)
(***************************************************************************)
FilterRun(f, seq, set) ==
    f = [n \in 0 .. Len(seq) |->
            IF n = 0 THEN <<>>
            ELSE IF seq[n] \in set THEN Append(f[n - 1], seq[n])
            ELSE f[n - 1]]

\* The recursion of the filter has a solution.
LEMMA FilterDefined ==
    ASSUME NEW seq, Len(seq) \in Nat, NEW set
    PROVE  \E f : FilterRun(f, seq, set)
<1> DEFINE Entry(f, n) == IF n = 0 THEN <<>>
                         ELSE IF seq[n] \in set THEN Append(f[n - 1], seq[n])
                         ELSE f[n - 1]
<1> DEFINE Solved(m) == \E f : f = [n \in 0 .. m |-> Entry(f, n)]
<1> DEFINE Bad == {m \in 0 .. Len(seq) : ~ Solved(m)}
<1> SUFFICES Solved(Len(seq)) BY DEF FilterRun
<1> SUFFICES ASSUME Bad # {} PROVE FALSE OBVIOUS
<1>1. PICK m \in Bad : \A n \in Bad : m <= n
  <2>1. Bad \in SUBSET Nat OBVIOUS
  <2> HIDE DEF Bad
  <2> QED BY <2>1, LeastNatural
<1>2. m # 0
  <2> DEFINE f == [n \in 0 .. 0 |-> <<>>]
  <2>1. f = [n \in 0 .. 0 |-> Entry(f, n)]
    <3>1. \A n \in 0 .. 0 : Entry(f, n) = <<>> OBVIOUS
    <3> QED BY <3>1
  <2> QED BY <2>1
<1>3. PICK f : f = [n \in 0 .. m - 1 |-> Entry(f, n)]
  <2> HIDE DEF Solved
  <2>1. m - 1 \in 0 .. Len(seq) /\ m - 1 \notin Bad BY <1>1, <1>2
  <2>2. Solved(m - 1) BY <2>1
  <2> QED BY <2>2 DEF Solved
<1> DEFINE g == [n \in 0 .. m |-> IF n = m THEN Entry(f, m) ELSE f[n]]
<1>4. g = [n \in 0 .. m |-> Entry(g, n)]
  <2>1. \A n \in 0 .. m : n # 0 => n - 1 \in 0 .. m - 1 /\ g[n - 1] = f[n - 1]
    BY <1>2
  <2>2. \A n \in 0 .. m : Entry(g, n) = Entry(f, n) BY <2>1
  <2>3. \A n \in 0 .. m - 1 : f[n] = Entry(f, n) BY <1>3
  <2>4. \A n \in 0 .. m : g[n] = Entry(f, n)
    <3> HIDE DEF Entry
    <3> QED BY <2>3
  <2> HIDE DEF Entry
  <2> QED BY <2>2, <2>4
<1> QED BY <1>1, <1>4

\* The filter is the last value of such a solution.
LEMMA FilterRuns ==
    ASSUME NEW seq, Len(seq) \in Nat, NEW set
    PROVE  \E f : FilterRun(f, seq, set) /\ Filtered(seq, set) = f[Len(seq)]
<1> DEFINE f == CHOOSE f : FilterRun(f, seq, set)
<1>1. FilterRun(f, seq, set) BY FilterDefined
<1>2. Filtered(seq, set) = f[Len(seq)] BY DEF Filtered, FilterRun
<1> QED BY <1>1, <1>2

\* Nothing is kept of nothing.
LEMMA FilteredEmpty == ASSUME NEW set PROVE Filtered(<<>>, set) = <<>>
<1>1. PICK f : FilterRun(f, <<>>, set) /\ Filtered(<<>>, set) = f[Len(<<>>)]
  BY FilterRuns
<1> QED BY <1>1 DEF FilterRun

\* Another element is kept if it is in the set.
LEMMA FilteredAppend ==
    ASSUME NEW T, NEW seq \in Seq(T), NEW x \in T, NEW set
    PROVE  Filtered(Append(seq, x), set) =
              IF x \in set THEN Append(Filtered(seq, set), x) ELSE Filtered(seq, set)
<1> DEFINE longer == Append(seq, x)
<1>1. /\ Len(seq) \in Nat /\ longer \in Seq(T) /\ Len(longer) = Len(seq) + 1
      /\ longer[Len(seq) + 1] = x
      /\ \A n \in 1 .. Len(seq) : longer[n] = seq[n]
  BY AppendProperties
<1> HIDE DEF longer
<1>2. PICK f : FilterRun(f, seq, set) /\ Filtered(seq, set) = f[Len(seq)]
  BY <1>1, FilterRuns
<1>3. PICK g : FilterRun(g, longer, set) /\ Filtered(longer, set) = g[Len(longer)]
  BY <1>1, FilterRuns
<1> DEFINE Bad == {n \in 0 .. Len(seq) : f[n] # g[n]}
<1>4. Bad = {}
  <2> SUFFICES ASSUME Bad # {} PROVE FALSE OBVIOUS
  <2>1. PICK m \in Bad : \A n \in Bad : m <= n
    <3>1. Bad \in SUBSET Nat OBVIOUS
    <3> HIDE DEF Bad
    <3> QED BY <3>1, LeastNatural
  <2>2. m # 0 BY <1>1, <1>2, <1>3 DEF FilterRun
  <2>3. m - 1 \in 0 .. Len(seq) /\ f[m - 1] = g[m - 1] BY <2>1, <2>2, <1>1
  <2>4. f[m] = g[m]
    <3>1. m \in 1 .. Len(seq) /\ longer[m] = seq[m] BY <1>1, <2>1, <2>2
    <3> HIDE DEF Bad
    <3>2. m \in 0 .. Len(seq) /\ m \in 0 .. Len(longer) /\ m # 0 BY <1>1, <3>1
    <3>3. f[m] = IF seq[m] \in set THEN Append(f[m - 1], seq[m]) ELSE f[m - 1]
      BY <1>2, <3>2 DEF FilterRun
    <3>4. g[m] = IF longer[m] \in set THEN Append(g[m - 1], longer[m]) ELSE g[m - 1]
      BY <1>3, <3>2 DEF FilterRun
    <3> QED BY <2>3, <3>1, <3>3, <3>4
  <2> QED BY <2>1, <2>4
<1>5. f[Len(seq)] = g[Len(seq)] BY <1>1, <1>4
<1>6. g[Len(seq) + 1] = IF x \in set THEN Append(g[Len(seq)], x) ELSE g[Len(seq)]
  <2>1. /\ Len(seq) + 1 \in 0 .. Len(longer) /\ Len(seq) + 1 # 0
        /\ (Len(seq) + 1) - 1 = Len(seq)
    BY <1>1
  <2> QED BY <1>1, <1>3, <2>1 DEF FilterRun
<1> QED BY <1>1, <1>2, <1>3, <1>5, <1>6 DEF longer

\* The filter depends on what the set says of the elements.
LEMMA FilteredSame ==
    ASSUME NEW seq, Len(seq) \in Nat, NEW s, NEW t,
           \A n \in 1 .. Len(seq) : seq[n] \in s <=> seq[n] \in t
    PROVE  Filtered(seq, s) = Filtered(seq, t)
<1>1. PICK f : FilterRun(f, seq, s) /\ Filtered(seq, s) = f[Len(seq)] BY FilterRuns
<1>2. PICK g : FilterRun(g, seq, t) /\ Filtered(seq, t) = g[Len(seq)] BY FilterRuns
<1> DEFINE Bad == {n \in 0 .. Len(seq) : f[n] # g[n]}
<1>3. Bad = {}
  <2> SUFFICES ASSUME Bad # {} PROVE FALSE OBVIOUS
  <2>1. PICK m \in Bad : \A n \in Bad : m <= n
    <3>1. Bad \in SUBSET Nat OBVIOUS
    <3> HIDE DEF Bad
    <3> QED BY <3>1, LeastNatural
  <2>2. m \in 0 .. Len(seq) /\ f[m] # g[m] BY <2>1
  <2>3. m # 0 BY <1>1, <1>2, <2>2 DEF FilterRun
  <2>4. m - 1 \in 0 .. Len(seq) /\ m \in 1 .. Len(seq) BY <2>2, <2>3
  <2>5. f[m - 1] = g[m - 1] BY <2>1, <2>4
  <2> HIDE DEF Bad
  <2>6. f[m] = IF seq[m] \in s THEN Append(f[m - 1], seq[m]) ELSE f[m - 1]
    BY <1>1, <2>2, <2>3 DEF FilterRun
  <2>7. g[m] = IF seq[m] \in t THEN Append(g[m - 1], seq[m]) ELSE g[m - 1]
    BY <1>2, <2>2, <2>3 DEF FilterRun
  <2> QED BY <2>2, <2>4, <2>5, <2>6, <2>7
<1>4. f[Len(seq)] = g[Len(seq)] BY <1>3
<1> QED BY <1>1, <1>2, <1>4

\* Nothing is left where the set has no element of the sequence.
LEMMA FilteredNone ==
    ASSUME NEW seq, Len(seq) \in Nat, NEW s, \A n \in 1 .. Len(seq) : seq[n] \notin s
    PROVE  Filtered(seq, s) = <<>>
<1>1. PICK f : FilterRun(f, seq, s) /\ Filtered(seq, s) = f[Len(seq)] BY FilterRuns
<1> DEFINE Bad == {n \in 0 .. Len(seq) : f[n] # <<>>}
<1>2. Bad = {}
  <2> SUFFICES ASSUME Bad # {} PROVE FALSE OBVIOUS
  <2>1. PICK m \in Bad : \A n \in Bad : m <= n
    <3>1. Bad \in SUBSET Nat OBVIOUS
    <3> HIDE DEF Bad
    <3> QED BY <3>1, LeastNatural
  <2>2. m \in 0 .. Len(seq) /\ f[m] # <<>> BY <2>1
  <2>3. m # 0 BY <1>1, <2>2 DEF FilterRun
  <2>4. m - 1 \in 0 .. Len(seq) /\ m \in 1 .. Len(seq) BY <2>2, <2>3
  <2>5. f[m - 1] = <<>> BY <2>1, <2>4
  <2> HIDE DEF Bad
  <2>6. f[m] = f[m - 1] BY <1>1, <2>2, <2>3, <2>4 DEF FilterRun
  <2> QED BY <2>2, <2>5, <2>6
<1> QED BY <1>1, <1>2

-----------------------------------------------------------------------------
(***************************************************************************)
(* The sum of a function over a finite set, one element at a time.         *)
(***************************************************************************)
SumEntry(g, f, s) ==
    IF s = {} THEN 0
    ELSE f[CHOOSE x \in s : TRUE] + g[s \ {CHOOSE x \in s : TRUE}]

SumRun(g, f, S) == g = [s \in SUBSET S |-> SumEntry(g, f, s)]

\* A set without one of its elements is smaller.
LEMMA OneElementLess ==
    ASSUME NEW S, IsFiniteSet(S), NEW s \in SUBSET S, s # {}
    PROVE  /\ (CHOOSE x \in s : TRUE) \in s
           /\ s \ {CHOOSE x \in s : TRUE} \in SUBSET S
           /\ Cardinality(s) \in Nat \ {0}
           /\ Cardinality(s \ {CHOOSE x \in s : TRUE}) = Cardinality(s) - 1
<1> DEFINE x == CHOOSE x \in s : TRUE
<1>1. x \in s OBVIOUS
<1>2. IsFiniteSet(s) BY FS_Subset
<1>3. Cardinality(s) \in Nat /\ Cardinality(s) # 0 BY <1>2, FS_CardinalityType, FS_EmptySet
<1> HIDE DEF x
<1>4. Cardinality(s \ {x}) = Cardinality(s) - 1 BY <1>1, <1>2, FS_RemoveElement
<1> QED BY <1>1, <1>3, <1>4 DEF x

\* The recursion of the sum has a solution.
LEMMA SumDefined ==
    ASSUME NEW f, NEW S, IsFiniteSet(S)
    PROVE  \E g : SumRun(g, f, S)
<1> DEFINE Up(m) == {s \in SUBSET S : Cardinality(s) <= m}
           Solved(m) == \E g : g = [s \in Up(m) |-> SumEntry(g, f, s)]
           N == Cardinality(S)
           Bad == {m \in 0 .. N : ~ Solved(m)}
<1>0. N \in Nat /\ \A s \in SUBSET S : Cardinality(s) \in Nat /\ Cardinality(s) <= N
  BY FS_CardinalityType, FS_Subset
<1>1. Up(N) = SUBSET S BY <1>0
<1> SUFFICES Solved(N)
  <2>1. PICK g : g = [s \in Up(N) |-> SumEntry(g, f, s)] OBVIOUS
  <2> HIDE DEF Up
  <2> QED BY <2>1, <1>1 DEF SumRun
<1> SUFFICES ASSUME Bad # {} PROVE FALSE
  <2> HIDE DEF Solved, N
  <2> QED BY <1>0
<1>2. PICK m \in Bad : \A n \in Bad : m <= n
  <2>1. Bad \in SUBSET Nat BY <1>0
  <2> HIDE DEF Bad
  <2> QED BY <2>1, LeastNatural
<1>3. m # 0
  <2> SUFFICES Solved(0)
    <3> HIDE DEF Solved
    <3> QED BY <1>2
  <2> DEFINE g == [s \in Up(0) |-> 0]
  <2>1. \A s \in Up(0) : s = {}
    <3> SUFFICES ASSUME NEW s \in Up(0) PROVE s = {} OBVIOUS
    <3>1. IsFiniteSet(s) BY FS_Subset
    <3>2. Cardinality(s) = 0 BY <1>0
    <3> QED BY <3>1, <3>2, FS_EmptySet
  <2>2. \A s \in Up(0) : SumEntry(g, f, s) = 0 BY <2>1 DEF SumEntry
  <2>3. g = [s \in Up(0) |-> SumEntry(g, f, s)]
    <3> HIDE DEF Up
    <3> QED BY <2>2
  <2> QED BY <2>3
<1>4. m \in 1 .. N /\ m - 1 \in 0 .. N /\ m - 1 \notin Bad
  <2>1. m \in 0 .. N BY <1>2
  <2>2. m \in 1 .. N /\ m - 1 \in 0 .. N /\ ~ (m <= m - 1) BY <1>0, <1>3, <2>1
  <2> HIDE DEF Bad
  <2> QED BY <1>2, <2>2
<1>5. Solved(m - 1)
  <2> HIDE DEF Solved
  <2> QED BY <1>4
<1>6. PICK g : g = [s \in Up(m - 1) |-> SumEntry(g, f, s)] BY <1>5
<1> DEFINE h == [s \in Up(m) |-> SumEntry(g, f, s)]
<1>7. \A s \in Up(m) : SumEntry(h, f, s) = SumEntry(g, f, s)
  <2> SUFFICES ASSUME NEW s \in Up(m) PROVE SumEntry(h, f, s) = SumEntry(g, f, s) OBVIOUS
  <2>0. CASE s = {} BY <2>0 DEF SumEntry
  <2> SUFFICES ASSUME s # {}
               PROVE  h[s \ {CHOOSE x \in s : TRUE}] = g[s \ {CHOOSE x \in s : TRUE}]
    <3> HIDE DEF h
    <3> QED BY <2>0 DEF SumEntry
  <2> DEFINE u == s \ {CHOOSE x \in s : TRUE}
  <2>1. u \in SUBSET S /\ Cardinality(s) \in Nat /\ Cardinality(u) = Cardinality(s) - 1
    BY OneElementLess
  <2> HIDE DEF u
  <2>2. u \in Up(m - 1) /\ u \in Up(m) BY <1>4, <2>1
  <2> HIDE DEF Up
  <2>3. g[u] = SumEntry(g, f, u) BY <1>6, <2>2
  <2>4. h[u] = SumEntry(g, f, u) BY <2>2
  <2> QED BY <2>3, <2>4 DEF u
<1>8. h = [s \in Up(m) |-> SumEntry(h, f, s)]
  <2>1. h = [s \in Up(m) |-> SumEntry(g, f, s)] OBVIOUS
  <2> HIDE DEF h, Up
  <2> QED BY <1>7, <2>1
<1>9. Solved(m)
  <2> HIDE DEF h
  <2> QED BY <1>8
<1> HIDE DEF Solved
<1> QED BY <1>2, <1>9

\* The sum is the last value of such a solution.
LEMMA SumRuns ==
    ASSUME NEW f, NEW S, IsFiniteSet(S)
    PROVE  \E g : SumRun(g, f, S) /\ SumFunctionOnSet(f, S) = g[S]
<1> DEFINE g == CHOOSE g : SumRun(g, f, S)
<1>1. SumRun(g, f, S) BY SumDefined
<1>2. SumFunctionOnSet(f, S) = g[S]
  BY DEF SumFunctionOnSet, FoldFunctionOnSet, MapThenFoldSet, SumRun, SumEntry
<1> QED BY <1>1, <1>2

\* Two solutions agree where the functions they sum do.
LEMMA SumsAgree ==
    ASSUME NEW f, NEW e, NEW S, IsFiniteSet(S), NEW T, IsFiniteSet(T),
           NEW g, SumRun(g, f, S), NEW h, SumRun(h, e, T)
    PROVE  \A U \in SUBSET (S \cap T) : (\A x \in U : f[x] = e[x]) => g[U] = h[U]
<1> SUFFICES ASSUME NEW U \in SUBSET (S \cap T), \A x \in U : f[x] = e[x] PROVE g[U] = h[U]
  OBVIOUS
<1> DEFINE Bad == {s \in SUBSET U : g[s] # h[s]}
           Sizes == {Cardinality(s) : s \in Bad}
<1> SUFFICES ASSUME Bad # {} PROVE FALSE OBVIOUS
<1>1. \A s \in Bad : s \in SUBSET S /\ s \in SUBSET T OBVIOUS
<1>2. \A s \in Bad : Cardinality(s) \in Nat BY <1>1, FS_Subset, FS_CardinalityType
<1>3. PICK n \in Sizes : \A m \in Sizes : n <= m
  <2>1. Sizes \in SUBSET Nat /\ Sizes # {} BY <1>2
  <2> HIDE DEF Sizes
  <2> QED BY <2>1, LeastNatural
<1>4. PICK s \in Bad : n = Cardinality(s) BY <1>3
<1>5. s # {}
  <2>1. g[{}] = 0 BY DEF SumRun, SumEntry
  <2>2. h[{}] = 0 BY DEF SumRun, SumEntry
  <2> QED BY <1>4, <2>1, <2>2
<1> DEFINE x == CHOOSE x \in s : TRUE
           u == s \ {x}
<1>6. x \in s /\ u \in SUBSET S /\ u \in SUBSET U /\ u \in SUBSET T
      /\ Cardinality(s) \in Nat /\ Cardinality(u) = Cardinality(s) - 1
  BY <1>1, <1>5, OneElementLess
<1>7. g[s] = f[x] + g[u] BY <1>1, <1>5 DEF SumRun, SumEntry
<1>8. h[s] = e[x] + h[u] BY <1>1, <1>5 DEF SumRun, SumEntry
<1> HIDE DEF x, u
<1>9. u \notin Bad
  <2> SUFFICES ASSUME u \in Bad PROVE FALSE OBVIOUS
  <2>1. Cardinality(u) \in Sizes OBVIOUS
  <2> HIDE DEF Bad, Sizes
  <2>2. n <= Cardinality(u) BY <1>3, <2>1
  <2> QED BY <1>4, <1>6, <2>2
<1>10. g[u] = h[u] /\ f[x] = e[x] BY <1>4, <1>6, <1>9
<1> QED BY <1>4, <1>7, <1>8, <1>10

\* Sums of functions that agree on the set are equal.
LEMMA SumOfSame ==
    ASSUME NEW f, NEW e, NEW S, IsFiniteSet(S), \A x \in S : f[x] = e[x]
    PROVE  SumFunctionOnSet(f, S) = SumFunctionOnSet(e, S)
<1>1. PICK g : SumRun(g, f, S) /\ SumFunctionOnSet(f, S) = g[S] BY SumRuns
<1>2. PICK h : SumRun(h, e, S) /\ SumFunctionOnSet(e, S) = h[S] BY SumRuns
<1>3. \A U \in SUBSET (S \cap S) : (\A x \in U : f[x] = e[x]) => g[U] = h[U]
  BY <1>1, <1>2, SumsAgree
<1> QED BY <1>1, <1>2, <1>3

\* Nothing sums to nothing.
LEMMA SumOfNone == ASSUME NEW f PROVE SumFunctionOnSet(f, {}) = 0
<1>1. PICK g : SumRun(g, f, {}) /\ SumFunctionOnSet(f, {}) = g[{}] BY SumRuns, FS_EmptySet
<1> QED BY <1>1 DEF SumRun, SumEntry

\* The sum of a nonempty set: the element chosen, and the sum of the others.
LEMMA SumChosen ==
    ASSUME NEW f, NEW S, IsFiniteSet(S), S # {}
    PROVE  SumFunctionOnSet(f, S)
              = f[CHOOSE x \in S : TRUE] + SumFunctionOnSet(f, S \ {CHOOSE x \in S : TRUE})
<1> DEFINE u == S \ {CHOOSE x \in S : TRUE}
<1>1. PICK g : SumRun(g, f, S) /\ SumFunctionOnSet(f, S) = g[S] BY SumRuns
<1>2. IsFiniteSet(u) BY FS_Subset
<1>3. PICK h : SumRun(h, f, u) /\ SumFunctionOnSet(f, u) = h[u] BY <1>2, SumRuns
<1>4. g[S] = f[CHOOSE x \in S : TRUE] + g[u] BY <1>1 DEF SumRun, SumEntry
<1>5. u \subseteq S OBVIOUS
<1> HIDE DEF u
<1>6. \A U \in SUBSET (S \cap u) : g[U] = h[U]
  <2>1. PICK e : e = f OBVIOUS
  <2>2. SumRun(h, e, u) BY <1>3, <2>1
  <2>3. \A U \in SUBSET (S \cap u) : (\A x \in U : f[x] = e[x]) => g[U] = h[U]
    BY <1>1, <1>2, <2>2, SumsAgree
  <2> QED BY <2>1, <2>3
<1> QED BY <1>5, <1>1, <1>3, <1>4, <1>6 DEF u

\* Every nonempty set of subsets has one that is minimal.
LEMMA SmallestSubset ==
    ASSUME NEW S, IsFiniteSet(S), NEW Bad \in SUBSET (SUBSET S), Bad # {}
    PROVE  \E s \in Bad : \A u \in Bad : u \subseteq s => u = s
<1>1. IsWellFoundedOn(StrictSubsetOrdering(S), FiniteSubsetsOf(S))
  BY FS_StrictSubsetOrderingWellFounded
<1>2. Bad \subseteq FiniteSubsetsOf(S) BY FS_FiniteSubsetsOfFinite
<1>3. PICK s \in Bad : \A u \in Bad : <<u, s>> \notin StrictSubsetOrdering(S)
  BY <1>1, <1>2, WFMin
<1>4. \A u \in Bad : u \subseteq s => u = s
  BY <1>3 DEF StrictSubsetOrdering
<1> QED BY <1>4

\* Sums of integers are integers, and of naturals naturals.
LEMMA SumTyped ==
    ASSUME NEW f, NEW S, IsFiniteSet(S)
    PROVE  /\ (\A x \in S : f[x] \in Int) => SumFunctionOnSet(f, S) \in Int
           /\ (\A x \in S : f[x] \in Nat) => SumFunctionOnSet(f, S) \in Nat
<1> DEFINE Sum(s) == SumFunctionOnSet(f, s)
<1>1. ASSUME NEW T, T = Int \/ T = Nat, \A x \in S : f[x] \in T PROVE Sum(S) \in T
  <2> DEFINE Bad == {s \in SUBSET S : Sum(s) \notin T}
  <2> SUFFICES ASSUME Bad # {} PROVE FALSE OBVIOUS
  <2>1. PICK s \in Bad : \A u \in Bad : u \subseteq s => u = s
    <3>1. Bad \in SUBSET (SUBSET S) OBVIOUS
    <3> HIDE DEF Bad
    <3> QED BY <3>1, SmallestSubset
  <2>2. CASE s = {}
    <3>1. Sum(s) = 0 BY <2>2, SumOfNone
    <3> QED BY <1>1, <2>1, <3>1
  <2>3. CASE s # {}
    <3> DEFINE x == CHOOSE x \in s : TRUE
    <3>1. x \in s BY <2>3
    <3>2. Sum(s) = f[x] + Sum(s \ {x})
      <4>1. IsFiniteSet(s) BY FS_Subset
      <4> QED BY <4>1, <2>3, SumChosen
    <3> HIDE DEF x, Sum
    <3>3. s \ {x} \notin Bad BY <2>1, <3>1
    <3>4. Sum(s \ {x}) \in T /\ f[x] \in T BY <1>1, <3>1, <3>3
    <3> QED BY <1>1, <2>1, <3>2, <3>4
  <2> QED BY <2>2, <2>3
<1> QED BY <1>1

\* Any element can be taken out first.
LEMMA SumWithout ==
    ASSUME NEW f, NEW S, IsFiniteSet(S), \A x \in S : f[x] \in Int, NEW e \in S
    PROVE  SumFunctionOnSet(f, S) = f[e] + SumFunctionOnSet(f, S \ {e})
<1> DEFINE Sum(s) == SumFunctionOnSet(f, s)
           Bad == {s \in SUBSET S : \E d \in s : Sum(s) # f[d] + Sum(s \ {d})}
<1> SUFFICES ASSUME Bad # {} PROVE FALSE OBVIOUS
<1>1. PICK s \in Bad : \A u \in Bad : u \subseteq s => u = s
  <2>1. Bad \in SUBSET (SUBSET S) OBVIOUS
  <2> HIDE DEF Bad
  <2> QED BY <2>1, SmallestSubset
<1>2. PICK d \in s : Sum(s) # f[d] + Sum(s \ {d}) BY <1>1
<1> DEFINE x == CHOOSE x \in s : TRUE
<1>3. x \in s BY <1>2
<1>4. Sum(s) = f[x] + Sum(s \ {x})
  <2>1. IsFiniteSet(s) BY <1>1, FS_Subset
  <2> QED BY <2>1, <1>2, SumChosen
<1> HIDE DEF x
<1>5. d # x BY <1>2, <1>4
<1>6. s \ {x} \notin Bad /\ s \ {d} \notin Bad
  <2>1. s \ {x} \subseteq s /\ s \ {x} # s /\ s \ {d} \subseteq s /\ s \ {d} # s BY <1>3
  <2> HIDE DEF Bad
  <2> QED BY <1>1, <2>1
<1> DEFINE r == s \ {x, d}
<1>7. (s \ {x}) \ {d} = r /\ (s \ {d}) \ {x} = r OBVIOUS
<1> HIDE DEF Sum
<1>8. Sum(s \ {x}) = f[d] + Sum(r) BY <1>1, <1>2, <1>5, <1>6, <1>7
<1>9. Sum(s \ {d}) = f[x] + Sum(r) BY <1>1, <1>3, <1>5, <1>6, <1>7
<1>10. Sum(r) \in Int /\ f[x] \in Int /\ f[d] \in Int
  <2>1. IsFiniteSet(r) /\ \A y \in r : f[y] \in Int BY <1>1, FS_Subset
  <2>2. Sum(r) \in Int BY <2>1, SumTyped DEF Sum
  <2> QED BY <1>1, <1>3, <2>2
<1> QED BY <1>2, <1>4, <1>8, <1>9, <1>10

\* The sum of a set and one more element.
LEMMA SumWith ==
    ASSUME NEW f, NEW S, IsFiniteSet(S), \A x \in S : f[x] \in Int,
           NEW e, e \notin S, f[e] \in Int
    PROVE  SumFunctionOnSet(f, S \cup {e}) = f[e] + SumFunctionOnSet(f, S)
<1>1. IsFiniteSet(S \cup {e}) BY FS_AddElement
<1>2. (S \cup {e}) \ {e} = S OBVIOUS
<1>3. \A x \in S \cup {e} : f[x] \in Int OBVIOUS
<1>4. e \in S \cup {e} OBVIOUS
<1> QED
  <2> DEFINE U == S \cup {e}
  <2> HIDE DEF U
  <2>1. SumFunctionOnSet(f, U) = f[e] + SumFunctionOnSet(f, U \ {e})
    BY <1>1, <1>3, <1>4, SumWithout DEF U
  <2> QED BY <1>2, <2>1 DEF U

\* The sum of two disjoint sets.
LEMMA SumSplits ==
    ASSUME NEW f, NEW S, IsFiniteSet(S), NEW T, IsFiniteSet(T), S \cap T = {},
           \A x \in S \cup T : f[x] \in Int
    PROVE  SumFunctionOnSet(f, S \cup T) = SumFunctionOnSet(f, S) + SumFunctionOnSet(f, T)
<1> DEFINE Sum(s) == SumFunctionOnSet(f, s)
           Bad == {t \in SUBSET T : Sum(S \cup t) # Sum(S) + Sum(t)}
<1> SUFFICES ASSUME Bad # {} PROVE FALSE OBVIOUS
<1>1. PICK t \in Bad : \A u \in Bad : u \subseteq t => u = t
  <2>1. Bad \in SUBSET (SUBSET T) OBVIOUS
  <2> HIDE DEF Bad
  <2> QED BY <2>1, SmallestSubset
<1>2. Sum(S) \in Int BY SumTyped
<1>3. t # {}
  <2> SUFFICES ASSUME t = {} PROVE FALSE OBVIOUS
  <2>1. Sum({}) = 0 BY SumOfNone
  <2>2. S \cup {} = S OBVIOUS
  <2> HIDE DEF Sum
  <2> QED BY <1>1, <1>2, <2>1, <2>2
<1>4. PICK e \in t : TRUE BY <1>3
<1> DEFINE u == t \ {e}
<1>5. IsFiniteSet(u) /\ u \subseteq T /\ e \notin u /\ u \cup {e} = t /\ e \in T
  BY <1>1, FS_Subset
<1>6. Sum(S \cup u) = Sum(S) + Sum(u)
  <2>1. u \notin Bad
    <3>1. u \subseteq t /\ u # t BY <1>4
    <3> HIDE DEF Bad, u
    <3> QED BY <1>1, <3>1
  <2> HIDE DEF u
  <2> QED BY <1>5, <2>1
<1> HIDE DEF u
<1>7. Sum(t) = f[e] + Sum(u)
  <2>1. \A x \in u : f[x] \in Int BY <1>5
  <2>2. Sum(u \cup {e}) = f[e] + Sum(u) BY <1>5, <2>1, SumWith
  <2> QED BY <1>5, <2>2
<1>8. Sum(S \cup t) = f[e] + Sum(S \cup u)
  <2> DEFINE V == S \cup u
  <2>1. IsFiniteSet(V) /\ e \notin V /\ V \cup {e} = S \cup t /\ \A x \in V : f[x] \in Int
    BY <1>5, FS_Union
  <2> HIDE DEF V
  <2>2. Sum(V \cup {e}) = f[e] + Sum(V) BY <1>5, <2>1, SumWith
  <2> QED BY <2>1, <2>2 DEF V
<1>9. Sum(u) \in Int /\ f[e] \in Int
  <2>1. \A x \in u : f[x] \in Int BY <1>5
  <2> QED BY <1>5, <2>1, SumTyped
<1> HIDE DEF Sum
<1> QED BY <1>1, <1>2, <1>6, <1>7, <1>8, <1>9

\* The function is natural on the set.
Natural(f, S) == \A x \in S : f[x] \in Nat

\* S in two parts.
Parts(S, T, U) == T \cup U = S /\ T \cap U = {}

\* Naturals sum to those of a part and those of the rest.
LEMMA SumOfParts ==
    ASSUME NEW f, NEW S, IsFiniteSet(S), NEW T, NEW U, Parts(S, T, U), Natural(f, S)
    PROVE  /\ SumFunctionOnSet(f, T) \in Nat /\ SumFunctionOnSet(f, U) \in Nat
           /\ SumFunctionOnSet(f, S) = SumFunctionOnSet(f, T) + SumFunctionOnSet(f, U)
<1>0. T \cup U = S /\ T \cap U = {} /\ \A x \in S : f[x] \in Nat BY DEF Parts, Natural
<1>1. IsFiniteSet(T) /\ IsFiniteSet(U)
  <2>1. T \subseteq S /\ U \subseteq S BY <1>0
  <2> QED BY <2>1, FS_Subset
<1>2. \A x \in T \cup U : f[x] \in Int BY <1>0
<1>3. SumFunctionOnSet(f, T) \in Nat
  <2>1. \A x \in T : f[x] \in Nat BY <1>0
  <2> QED BY <1>1, <2>1, SumTyped
<1>4. SumFunctionOnSet(f, U) \in Nat
  <2>1. \A x \in U : f[x] \in Nat BY <1>0
  <2> QED BY <1>1, <2>1, SumTyped
<1>5. SumFunctionOnSet(f, T \cup U) = SumFunctionOnSet(f, T) + SumFunctionOnSet(f, U)
  BY <1>0, <1>1, <1>2, SumSplits
<1> QED BY <1>0, <1>3, <1>4, <1>5

\* Between the bounds of its terms, as many times as there are terms.
LEMMA SumBounded ==
    ASSUME NEW f, NEW S, IsFiniteSet(S), NEW low \in Nat, NEW high \in Nat,
           \A x \in S : f[x] \in low .. high
    PROVE  /\ Cardinality(S) \in Nat
           /\ Cardinality(S) * low <= SumFunctionOnSet(f, S)
           /\ SumFunctionOnSet(f, S) <= Cardinality(S) * high
<1> DEFINE Sum(s) == SumFunctionOnSet(f, s)
           C(s) == Cardinality(s)
           Bad == {s \in SUBSET S : ~ (C(s) * low <= Sum(s) /\ Sum(s) <= C(s) * high)}
<1>0. C(S) \in Nat BY FS_CardinalityType
<1> SUFFICES ASSUME Bad # {} PROVE FALSE BY <1>0
<1>1. PICK s \in Bad : \A u \in Bad : u \subseteq s => u = s
  <2>1. Bad \in SUBSET (SUBSET S) OBVIOUS
  <2> HIDE DEF Bad
  <2> QED BY <2>1, SmallestSubset
<1>2. s # {}
  <2>1. Sum({}) = 0 /\ C({}) = 0 BY SumOfNone, FS_EmptySet
  <2>2. C({}) * low <= Sum({}) /\ Sum({}) <= C({}) * high
    <3> HIDE DEF Sum, C
    <3>1. 0 * low = 0 /\ 0 * high = 0 OBVIOUS
    <3> QED BY <2>1, <3>1
  <2>3. {} \notin Bad BY <2>2
  <2> HIDE DEF Bad
  <2> QED BY <1>1, <2>3
<1>3. PICK e \in s : TRUE BY <1>2
<1> DEFINE u == s \ {e}
<1>4. IsFiniteSet(s) /\ IsFiniteSet(u) /\ u \subseteq S BY <1>1, FS_Subset
<1>5. u \notin Bad
  <2>1. u \subseteq s /\ u # s BY <1>3
  <2> HIDE DEF Bad, u
  <2> QED BY <1>1, <2>1
<1>6. C(s) \in Nat /\ C(u) \in Nat /\ C(s) = C(u) + 1
  <2>1. C(s) \in Nat /\ C(u) \in Nat BY <1>4, FS_CardinalityType
  <2>2. C(u) = C(s) - 1 BY <1>3, <1>4, FS_RemoveElement
  <2> QED BY <2>1, <2>2
<1>7. Sum(s) = f[e] + Sum(u)
  <2>1. \A x \in s : f[x] \in Int BY <1>1
  <2> QED BY <1>3, <1>4, <2>1, SumWithout
<1>8. Sum(u) \in Int
  <2>1. \A x \in u : f[x] \in Int BY <1>4
  <2> HIDE DEF u
  <2> QED BY <1>4, <2>1, SumTyped
<1>9. C(u) * low <= Sum(u) /\ Sum(u) <= C(u) * high
  <2> HIDE DEF u, C, Sum
  <2> QED BY <1>4, <1>5
<1>10. f[e] \in Int /\ low <= f[e] /\ f[e] <= high BY <1>1, <1>3
<1> HIDE DEF u, C, Sum
<1>11. C(s) * low = C(u) * low + low /\ C(s) * high = C(u) * high + high BY <1>6
<1>12. C(u) * low \in Int /\ C(u) * high \in Int BY <1>6
<1>13. C(s) * low <= Sum(s) /\ Sum(s) <= C(s) * high
  BY <1>7, <1>8, <1>9, <1>10, <1>11, <1>12
<1> QED BY <1>1, <1>13

\* Where every term is one more, the sum is more by the number of terms.
LEMMA SumShifted ==
    ASSUME NEW f, NEW g, NEW S, IsFiniteSet(S),
           \A x \in S : f[x] \in Int /\ g[x] = f[x] + 1
    PROVE  SumFunctionOnSet(g, S) = SumFunctionOnSet(f, S) + Cardinality(S)
<1> DEFINE F(s) == SumFunctionOnSet(f, s)
           G(s) == SumFunctionOnSet(g, s)
           C(s) == Cardinality(s)
           Bad == {s \in SUBSET S : G(s) # F(s) + C(s)}
<1> SUFFICES ASSUME Bad # {} PROVE FALSE OBVIOUS
<1>1. PICK s \in Bad : \A u \in Bad : u \subseteq s => u = s
  <2>1. Bad \in SUBSET (SUBSET S) OBVIOUS
  <2> HIDE DEF Bad
  <2> QED BY <2>1, SmallestSubset
<1>2. s # {}
  <2>1. F({}) = 0 /\ G({}) = 0 /\ C({}) = 0 BY SumOfNone, FS_EmptySet
  <2>2. G({}) = F({}) + C({})
    <3> HIDE DEF F, G, C
    <3> QED BY <2>1
  <2>3. {} \notin Bad BY <2>2
  <2> HIDE DEF Bad
  <2> QED BY <1>1, <2>3
<1>3. PICK e \in s : TRUE BY <1>2
<1> DEFINE u == s \ {e}
<1>4. IsFiniteSet(s) /\ IsFiniteSet(u) /\ u \subseteq S BY <1>1, FS_Subset
<1>5. u \notin Bad
  <2>1. u \subseteq s /\ u # s BY <1>3
  <2> HIDE DEF Bad, u
  <2> QED BY <1>1, <2>1
<1>6. F(s) = f[e] + F(u)
  <2>1. \A x \in s : f[x] \in Int BY <1>1
  <2> QED BY <1>3, <1>4, <2>1, SumWithout
<1>7. G(s) = g[e] + G(u)
  <2>1. \A x \in s : g[x] \in Int BY <1>1
  <2> QED BY <1>3, <1>4, <2>1, SumWithout
<1>8. F(u) \in Int /\ G(u) \in Int
  <2>1. \A x \in u : f[x] \in Int /\ g[x] \in Int BY <1>4
  <2> HIDE DEF u
  <2> QED BY <1>4, <2>1, SumTyped
<1>9. G(u) = F(u) + C(u)
  <2> HIDE DEF u, F, G, C
  <2> QED BY <1>4, <1>5
<1>10. C(s) \in Nat /\ C(u) \in Nat /\ C(u) = C(s) - 1
  <2>1. C(s) \in Nat /\ C(u) \in Nat BY <1>4, FS_CardinalityType
  <2>2. C(u) = C(s) - 1 BY <1>3, <1>4, FS_RemoveElement
  <2> QED BY <2>1, <2>2
<1>11. f[e] \in Int /\ g[e] = f[e] + 1 BY <1>1, <1>3
<1>12. G(s) # F(s) + C(s) BY <1>1
<1> HIDE DEF u, F, G, C, Bad
<1> QED BY <1>6, <1>7, <1>8, <1>9, <1>10, <1>11, <1>12

\* The smaller and the larger of two.
LEMMA ExtremesOfTwo ==
    ASSUME NEW a \in Int, NEW b \in Int
    PROVE  /\ (CHOOSE x \in {a, b} : \A y \in {a, b} : x <= y) = IF a <= b THEN a ELSE b
           /\ (CHOOSE x \in {a, b} : \A y \in {a, b} : x >= y) = IF a >= b THEN a ELSE b
<1>1. \E x \in {a, b} : \A y \in {a, b} : x <= y OBVIOUS
<1>2. \E x \in {a, b} : \A y \in {a, b} : x >= y OBVIOUS
<1> QED BY <1>1, <1>2
=============================================================================
