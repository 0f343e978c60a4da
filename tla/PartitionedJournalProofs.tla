---------------------- MODULE PartitionedJournalProofs ----------------------
(***************************************************************************)
(* Proofs about PartitionedWave and PartitionedJournal, for any number of  *)
(* sessions, workers and requests, any routing and any bounds: that a wave *)
(* is serial, type correctness, the safety invariants and the action       *)
(* properties the runs check, and that the journal implements the serial   *)
(* Flow.                                                                   *)
(***************************************************************************)
EXTENDS PartitionedJournalReader, ProofLemmas, SequenceTheorems

-----------------------------------------------------------------------------
(***************************************************************************)
(* One wave, for any number of workers and any routing: what the workers   *)
(* compute from their shares, sorted back together, is what one runtime    *)
(* computes from the whole batch, input after input.                       *)
(***************************************************************************)

(***************************************************************************)
(* A worker's fold, one item at a time.                                    *)
(***************************************************************************)
WorkRun(f, shard, items) ==
    f = [n \in 0 .. Len(items) |->
            IF n = 0 THEN [shard |-> shard, rows |-> <<>>] ELSE ProcessItem(f[n - 1], items[n])]

\* The recursion of the fold has a solution.
LEMMA WorkDefined ==
    ASSUME NEW items, Len(items) \in Nat, NEW shard
    PROVE  \E f : WorkRun(f, shard, items)
<1> DEFINE Entry(f, n) == IF n = 0 THEN [shard |-> shard, rows |-> <<>>]
                         ELSE ProcessItem(f[n - 1], items[n])
<1> DEFINE Solved(m) == \E f : f = [n \in 0 .. m |-> Entry(f, n)]
<1> DEFINE Bad == {m \in 0 .. Len(items) : ~ Solved(m)}
<1> SUFFICES Solved(Len(items)) BY DEF WorkRun
<1> SUFFICES ASSUME Bad # {} PROVE FALSE OBVIOUS
<1>1. PICK m \in Bad : \A n \in Bad : m <= n
  <2>1. Bad \in SUBSET Nat OBVIOUS
  <2> HIDE DEF Bad
  <2> QED BY <2>1, LeastNatural
<1>2. m # 0
  <2> DEFINE f == [n \in 0 .. 0 |-> [shard |-> shard, rows |-> <<>>]]
  <2>1. f = [n \in 0 .. 0 |-> Entry(f, n)]
    <3>1. \A n \in 0 .. 0 : Entry(f, n) = [shard |-> shard, rows |-> <<>>] OBVIOUS
    <3> QED BY <3>1
  <2> QED BY <2>1
<1>3. PICK f : f = [n \in 0 .. m - 1 |-> Entry(f, n)]
  <2> HIDE DEF Solved
  <2>1. m - 1 \in 0 .. Len(items) /\ m - 1 \notin Bad BY <1>1, <1>2
  <2>2. Solved(m - 1) BY <2>1
  <2> QED BY <2>2 DEF Solved
<1> DEFINE g == [n \in 0 .. m |-> IF n = m THEN Entry(f, m) ELSE f[n]]
<1>4. g = [n \in 0 .. m |-> Entry(g, n)]
  <2>1. \A n \in 0 .. m : n # 0 => n - 1 \in 0 .. m - 1 /\ g[n - 1] = f[n - 1]
    BY <1>2
  <2>2. \A n \in 0 .. m : Entry(g, n) = Entry(f, n) BY <2>1
  <2>3. \A n \in 0 .. m - 1 : f[n] = Entry(f, n) BY <1>3
  <2>4. \A n \in 0 .. m : g[n] = Entry(f, n)
    <3> HIDE DEF Entry
    <3> QED BY <2>3
  <2> HIDE DEF Entry
  <2> QED BY <2>2, <2>4
<1> QED BY <1>1, <1>4

\* What a worker returns is the last value of such a solution.
LEMMA WorkRuns ==
    ASSUME NEW items, Len(items) \in Nat, NEW shard
    PROVE  \E f : WorkRun(f, shard, items) /\ WorkerExecute(shard, items) = f[Len(items)]
<1> DEFINE f == CHOOSE f : WorkRun(f, shard, items)
<1>1. WorkRun(f, shard, items) BY WorkDefined
<1>2. WorkerExecute(shard, items) = f[Len(items)] BY DEF WorkerExecute, WorkRun
<1> QED BY <1>1, <1>2

\* A worker without items returns its shard.
LEMMA WorkEmpty ==
    ASSUME NEW shard
    PROVE  WorkerExecute(shard, <<>>) = [shard |-> shard, rows |-> <<>>]
<1>1. PICK f : WorkRun(f, shard, <<>>) /\ WorkerExecute(shard, <<>>) = f[Len(<<>>)]
  BY WorkRuns
<1> QED BY <1>1 DEF WorkRun

\* Another item is processed after the others.
LEMMA WorkAppend ==
    ASSUME NEW T, NEW items \in Seq(T), NEW item \in T, NEW shard
    PROVE  WorkerExecute(shard, Append(items, item)) =
              ProcessItem(WorkerExecute(shard, items), item)
<1> DEFINE longer == Append(items, item)
<1>1. /\ Len(items) \in Nat /\ longer \in Seq(T) /\ Len(longer) = Len(items) + 1
      /\ longer[Len(items) + 1] = item
      /\ \A n \in 1 .. Len(items) : longer[n] = items[n]
  BY AppendProperties
<1> HIDE DEF longer
<1>2. PICK f : WorkRun(f, shard, items) /\ WorkerExecute(shard, items) = f[Len(items)]
  BY <1>1, WorkRuns
<1>3. PICK g : WorkRun(g, shard, longer) /\ WorkerExecute(shard, longer) = g[Len(longer)]
  BY <1>1, WorkRuns
<1> DEFINE Bad == {n \in 0 .. Len(items) : f[n] # g[n]}
<1>4. Bad = {}
  <2> SUFFICES ASSUME Bad # {} PROVE FALSE OBVIOUS
  <2>1. PICK m \in Bad : \A n \in Bad : m <= n
    <3>1. Bad \in SUBSET Nat OBVIOUS
    <3> HIDE DEF Bad
    <3> QED BY <3>1, LeastNatural
  <2>2. m # 0 BY <1>1, <1>2, <1>3 DEF WorkRun
  <2>3. m - 1 \in 0 .. Len(items) /\ f[m - 1] = g[m - 1] BY <2>1, <2>2, <1>1
  <2>4. f[m] = g[m]
    <3>1. m \in 1 .. Len(items) /\ longer[m] = items[m] BY <1>1, <2>1, <2>2
    <3> HIDE DEF Bad
    <3>2. m \in 0 .. Len(items) /\ m \in 0 .. Len(longer) /\ m # 0 BY <1>1, <3>1
    <3>3. f[m] = ProcessItem(f[m - 1], items[m]) BY <1>2, <3>2 DEF WorkRun
    <3>4. g[m] = ProcessItem(g[m - 1], longer[m]) BY <1>3, <3>2 DEF WorkRun
    <3> QED BY <2>3, <3>1, <3>3, <3>4
  <2> QED BY <2>1, <2>4
<1>5. f[Len(items)] = g[Len(items)] BY <1>1, <1>4
<1>6. g[Len(items) + 1] = ProcessItem(g[Len(items)], item)
  <2>1. /\ Len(items) + 1 \in 0 .. Len(longer) /\ Len(items) + 1 # 0
        /\ (Len(items) + 1) - 1 = Len(items)
    BY <1>1
  <2> QED BY <1>1, <1>3, <2>1 DEF WorkRun
<1> QED BY <1>1, <1>2, <1>3, <1>5, <1>6 DEF longer

-----------------------------------------------------------------------------
(***************************************************************************)
(* The rows one runtime emits: `cells` are the cells it has before the     *)
(* wave, and the value of a row is the cell of its key by then.            *)
(***************************************************************************)
OfKey(k) == {r \in Record : KeyOf[r] = k}

CellBy(records, cells, k, m) == cells[k] \o Filtered(SubSeq(records, 1, m), OfKey(k))

RowOf(start, records, cells, i, o) ==
    [position |-> start + i - 1, ordinal |-> o - 1, key |-> KeyOf[records[i]],
     value |-> CellBy(records, cells, KeyOf[records[i]], i)]

RowsOfOne(start, records, cells, i) ==
    [o \in 1 .. RowsOf[records[i]] |-> RowOf(start, records, cells, i, o)]

Ordered(rows) == \A a, b \in 1 .. Len(rows) : a < b => RowBefore(rows[a], rows[b])

\* The rows of the inputs in a set, once each and in order.
AreRowsOf(rows, start, records, cells, inputs) ==
    /\ rows \in Seq(Row)
    /\ Ordered(rows)
    /\ \A n \in 1 .. Len(rows) : \E i \in inputs : \E o \in 1 .. RowsOf[records[i]] :
          rows[n] = RowOf(start, records, cells, i, o)
    /\ \A i \in inputs : \A o \in 1 .. RowsOf[records[i]] : \E n \in 1 .. Len(rows) :
          rows[n] = RowOf(start, records, cells, i, o)

\* A prefix, one element at a time.
LEMMA PrefixGrows ==
    ASSUME NEW T, NEW seq \in Seq(T), NEW m \in 1 .. Len(seq)
    PROVE  /\ SubSeq(seq, 1, m - 1) \in Seq(T)
           /\ seq[m] \in T
           /\ Len(SubSeq(seq, 1, m - 1)) = m - 1
           /\ SubSeq(seq, 1, m) = Append(SubSeq(seq, 1, m - 1), seq[m])
<1>1. Len(seq) \in Nat BY LenProperties
<1>2. \A i \in 1 .. m - 1 : seq[i] \in T BY <1>1, ElementOfSeq
<1>3. seq[m] \in T BY ElementOfSeq
<1>4. /\ SubSeq(seq, 1, m - 1) \in Seq(T)
      /\ Len(SubSeq(seq, 1, m - 1)) = m - 1
      /\ \A i \in 1 .. m - 1 : SubSeq(seq, 1, m - 1)[i] = seq[i]
  <2>1. m - 1 \in Int /\ 1 \in Int BY <1>1
  <2>2. /\ SubSeq(seq, 1, m - 1) \in Seq(T)
        /\ Len(SubSeq(seq, 1, m - 1)) = IF 1 <= m - 1 THEN (m - 1) - 1 + 1 ELSE 0
        /\ \A i \in 1 .. (m - 1) - 1 + 1 : SubSeq(seq, 1, m - 1)[i] = seq[1 + i - 1]
    BY <1>2, <2>1, SubSeqProperties
  <2> QED BY <2>2, <1>1
<1>5. SubSeq(seq, 1, m) = SubSeq(seq, 1, m - 1) \o << seq[m] >>
  <2>1. 1 \in 1 .. Len(seq) /\ m \in 1 .. Len(seq) BY <1>1
  <2> QED BY <2>1, SubSeqRecursiveSecond
<1>6. SubSeq(seq, 1, m - 1) \o << seq[m] >> = Append(SubSeq(seq, 1, m - 1), seq[m])
  BY <1>3, <1>4
<1> QED BY <1>3, <1>4, <1>5, <1>6

\* The filter of a sequence is a sequence.
LEMMA FilteredTyped ==
    ASSUME NEW T, NEW seq \in Seq(T), NEW set
    PROVE  Filtered(seq, set) \in Seq(T)
<1> DEFINE Bad == {m \in 0 .. Len(seq) : Filtered(SubSeq(seq, 1, m), set) \notin Seq(T)}
<1>0. Len(seq) \in Nat BY LenProperties
<1>1. Bad = {}
  <2> SUFFICES ASSUME Bad # {} PROVE FALSE OBVIOUS
  <2>1. PICK m \in Bad : \A n \in Bad : m <= n
    <3>1. Bad \in SUBSET Nat BY <1>0
    <3> HIDE DEF Bad
    <3> QED BY <3>1, LeastNatural
  <2>2. m # 0
    <3>1. SubSeq(seq, 1, 0) = <<>> BY SubSeqEmpty
    <3>2. Filtered(SubSeq(seq, 1, 0), set) = <<>> BY <3>1, FilteredEmpty
    <3>3. <<>> \in Seq(T) BY EmptySeq
    <3> QED BY <2>1, <3>2, <3>3
  <2>3. m \in 1 .. Len(seq) BY <2>1, <2>2, <1>0
  <2>4. Filtered(SubSeq(seq, 1, m - 1), set) \in Seq(T) BY <2>1, <2>3, <1>0
  <2> DEFINE w == SubSeq(seq, 1, m - 1)
  <2>5. w \in Seq(T) /\ seq[m] \in T /\ SubSeq(seq, 1, m) = Append(w, seq[m])
    BY <2>3, PrefixGrows
  <2>6. Filtered(Append(w, seq[m]), set) =
           IF seq[m] \in set THEN Append(Filtered(w, set), seq[m]) ELSE Filtered(w, set)
    <3> HIDE DEF w
    <3> QED BY ONLY <2>5, FilteredAppend
  <2>7. Append(Filtered(w, set), seq[m]) \in Seq(T)
    <3> HIDE DEF w
    <3>1. Filtered(w, set) \in Seq(T) BY <2>4 DEF w
    <3> QED BY <2>5, <3>1, AppendProperties
  <2> QED BY <2>1, <2>4, <2>5, <2>6, <2>7
<1>2. Filtered(SubSeq(seq, 1, Len(seq)), set) \in Seq(T) BY <1>0, <1>1
<1> QED BY <1>2, SubSeqFull

\* Appending to the right operand of a concatenation appends to the whole.
LEMMA ConcatAppend ==
    ASSUME NEW T, NEW x \in Seq(T), NEW y \in Seq(T), NEW e \in T
    PROVE  x \o Append(y, e) = Append(x \o y, e)
OBVIOUS

\* The filter of a concatenation is the concatenation of the filters.
LEMMA FilteredConcat ==
    ASSUME NEW T, NEW u \in Seq(T), NEW v \in Seq(T), NEW set
    PROVE  Filtered(u \o v, set) = Filtered(u, set) \o Filtered(v, set)
<1> DEFINE F(m) == Filtered(SubSeq(v, 1, m), set)
<1> DEFINE Holds(m) == Filtered(u \o SubSeq(v, 1, m), set) = Filtered(u, set) \o F(m)
<1> DEFINE Bad == {m \in 0 .. Len(v) : ~ Holds(m)}
<1>0. Len(v) \in Nat BY LenProperties
<1>1. Bad = {}
  <2> SUFFICES ASSUME Bad # {} PROVE FALSE OBVIOUS
  <2>1. PICK m \in Bad : \A n \in Bad : m <= n
    <3>1. Bad \in SUBSET Nat BY <1>0
    <3> HIDE DEF Bad
    <3> QED BY <3>1, LeastNatural
  <2>2. m # 0
    <3>1. SubSeq(v, 1, 0) = <<>> BY SubSeqEmpty
    <3>2. u \o <<>> = u BY ConcatEmptySeq
    <3>3. Filtered(u, set) \in Seq(T) BY FilteredTyped
    <3>4. Filtered(u, set) \o <<>> = Filtered(u, set) BY <3>3, ConcatEmptySeq
    <3>5. Holds(0) BY <3>1, <3>2, <3>4, FilteredEmpty
    <3> QED BY <2>1, <3>5
  <2>3. m \in 1 .. Len(v) BY <2>1, <2>2, <1>0
  <2>4. Holds(m - 1)
    <3> HIDE DEF Holds
    <3> QED BY <2>1, <2>3, <1>0
  <2> DEFINE w == SubSeq(v, 1, m - 1)
  <2>5. w \in Seq(T) /\ v[m] \in T /\ SubSeq(v, 1, m) = Append(w, v[m])
    BY <2>3, PrefixGrows
  <2>6. F(m) = IF v[m] \in set THEN Append(F(m - 1), v[m]) ELSE F(m - 1)
    <3>1. Filtered(Append(w, v[m]), set) =
             IF v[m] \in set THEN Append(Filtered(w, set), v[m]) ELSE Filtered(w, set)
      <4> DEFINE e == v[m]
      <4>1. w \in Seq(T) /\ e \in T BY <2>5
      <4> HIDE DEF w, e
      <4>2. Filtered(Append(w, e), set) =
               IF e \in set THEN Append(Filtered(w, set), e) ELSE Filtered(w, set)
        BY ONLY <4>1, FilteredAppend
      <4> QED BY <4>2 DEF e
    <3> QED BY <2>5, <3>1
  <2>7. Filtered(Append(u \o w, v[m]), set) =
           IF v[m] \in set THEN Append(Filtered(u \o w, set), v[m]) ELSE Filtered(u \o w, set)
    <3> DEFINE uw == u \o w
               e == v[m]
    <3>1. uw \in Seq(T) /\ e \in T BY <2>5, ConcatProperties
    <3> HIDE DEF uw, e
    <3>2. Filtered(Append(uw, e), set) =
             IF e \in set THEN Append(Filtered(uw, set), e) ELSE Filtered(uw, set)
      BY ONLY <3>1, FilteredAppend
    <3> QED BY <3>2 DEF uw, e
  <2>8. u \o Append(w, v[m]) = Append(u \o w, v[m])
    <3> HIDE DEF w
    <3> QED BY <2>5, ConcatAppend
  <2>9. Filtered(u, set) \in Seq(T) /\ F(m - 1) \in Seq(T)
    BY <2>5, FilteredTyped
  <2>10. Filtered(u, set) \o Append(F(m - 1), v[m]) = Append(Filtered(u, set) \o F(m - 1), v[m])
    <3> DEFINE x == Filtered(u, set)
               y == F(m - 1)
               e == v[m]
    <3>1. x \in Seq(T) /\ y \in Seq(T) /\ e \in T BY <2>5, <2>9
    <3> HIDE DEF x, y, e, w, F, Holds, Bad
    <3>2. x \o Append(y, e) = Append(x \o y, e) BY <3>1, ConcatAppend
    <3> QED BY <3>2 DEF x, y, e
  <2>11. Holds(m) BY <2>4, <2>5, <2>6, <2>7, <2>8, <2>10
  <2> QED BY <2>1, <2>11
<1>2. Holds(Len(v))
  <2> HIDE DEF Holds
  <2> QED BY <1>0, <1>1
<1> QED BY <1>2, SubSeqFull

\* What is known of an input of the wave and of its rows.
LEMMA InputTyped ==
    ASSUME NEW records \in Seq(Record), NEW i \in 1 .. Len(records)
    PROVE  records[i] \in Record /\ KeyOf[records[i]] \in Key /\ RowsOf[records[i]] \in Nat
<1>1. records[i] \in Record BY ElementOfSeq
<1> QED BY <1>1, WaveAssumption

\* A cell is a sequence of records.
LEMMA CellTyped ==
    ASSUME NEW records \in Seq(Record), NEW cells \in [Key -> Seq(Record)],
           NEW k \in Key, NEW m \in 0 .. Len(records)
    PROVE  CellBy(records, cells, k, m) \in Seq(Record)
<1>1. Len(records) \in Nat BY LenProperties
<1>2. \A i \in 1 .. m : records[i] \in Record BY <1>1, ElementOfSeq
<1>3. SubSeq(records, 1, m) \in Seq(Record)
  <2>1. 1 \in Int /\ m \in Int BY <1>1
  <2> QED BY <2>1, <1>2, SubSeqProperties
<1>4. Filtered(SubSeq(records, 1, m), OfKey(k)) \in Seq(Record) BY <1>3, FilteredTyped
<1> QED BY <1>4, ConcatProperties DEF CellBy

\* A row is one of the wave's, at its input's position.
LEMMA RowTyped ==
    ASSUME NEW start \in Nat, NEW records \in Seq(Record), NEW cells \in [Key -> Seq(Record)],
           NEW i \in 1 .. Len(records), NEW o \in 1 .. RowsOf[records[i]]
    PROVE  /\ RowOf(start, records, cells, i, o) \in Row
           /\ RowOf(start, records, cells, i, o).position = start + i - 1
           /\ RowOf(start, records, cells, i, o).ordinal = o - 1
<1>1. KeyOf[records[i]] \in Key /\ RowsOf[records[i]] \in Nat BY InputTyped
<1>2. Len(records) \in Nat BY LenProperties
<1>3. start + i - 1 \in Nat /\ o - 1 \in Nat BY <1>1, <1>2
<1>4. i \in 0 .. Len(records) BY <1>2
<1>5. CellBy(records, cells, KeyOf[records[i]], i) \in Seq(Record)
  BY <1>1, <1>4, CellTyped
<1> QED BY <1>1, <1>3, <1>5 DEF RowOf, Row

\* The rows of a later input follow those of earlier ones.
LEMMA RowsExtend ==
    ASSUME NEW start \in Nat, NEW records \in Seq(Record), NEW cells \in [Key -> Seq(Record)],
           NEW m \in 1 .. Len(records), NEW inputs \in SUBSET (1 .. m - 1), NEW rows,
           AreRowsOf(rows, start, records, cells, inputs)
    PROVE  AreRowsOf(rows \o RowsOfOne(start, records, cells, m),
                     start, records, cells, inputs \cup {m})
<1> DEFINE R(i, o) == RowOf(start, records, cells, i, o)
           last    == RowsOfOne(start, records, cells, m)
           all     == rows \o last
           count   == RowsOf[records[m]]
<1>0. Len(records) \in Nat /\ inputs \subseteq 1 .. Len(records)
  <2>1. Len(records) \in Nat BY LenProperties
  <2> QED BY <2>1
<1>1. count \in Nat BY InputTyped
<1>2. \A o \in 1 .. count : /\ R(m, o) \in Row
                            /\ R(m, o).position = start + m - 1
                            /\ R(m, o).ordinal = o - 1
  BY RowTyped
<1>3. /\ last \in Seq(Row) /\ Len(last) = count
      /\ \A o \in 1 .. count : last[o] = R(m, o)
  <2>1. last = [o \in 1 .. count |-> R(m, o)] BY DEF RowsOfOne
  <2>2. \A o \in 1 .. count : R(m, o) \in Row BY <1>2
  <2> HIDE DEF R, last
  <2>3. last \in [1 .. count -> Row] /\ \A o \in 1 .. count : last[o] = R(m, o)
    BY <2>1, <2>2
  <2> HIDE DEF count
  <2>4. last \in Seq(Row) /\ Len(last) = count BY <1>1, <2>3
  <2> QED BY <2>3, <2>4
<1>4. rows \in Seq(Row) /\ Len(rows) \in Nat BY LenProperties DEF AreRowsOf
<1>5. /\ all \in Seq(Row) /\ Len(all) = Len(rows) + count
      /\ \A n \in 1 .. Len(rows) : all[n] = rows[n]
      /\ \A n \in Len(rows) + 1 .. Len(rows) + count :
            n - Len(rows) \in 1 .. count /\ all[n] = R(m, n - Len(rows))
  <2> HIDE DEF R, last
  <2>1. /\ all \in Seq(Row) /\ Len(all) = Len(rows) + Len(last)
        /\ \A n \in 1 .. Len(rows) + Len(last) : all[n] =
              IF n <= Len(rows) THEN rows[n] ELSE last[n - Len(rows)]
    BY <1>3, <1>4, ConcatProperties
  <2> HIDE DEF all, count
  <2> QED BY <2>1, <1>1, <1>3, <1>4
<1>6. \A n \in 1 .. Len(rows) : rows[n].position < start + m - 1
  <2> SUFFICES ASSUME NEW n \in 1 .. Len(rows) PROVE rows[n].position < start + m - 1
    OBVIOUS
  <2>1. PICK i \in inputs : \E o \in 1 .. RowsOf[records[i]] : rows[n] = R(i, o)
    BY DEF AreRowsOf
  <2>2. PICK o \in 1 .. RowsOf[records[i]] : rows[n] = R(i, o) BY <2>1
  <2>3. i \in 1 .. Len(records) BY <1>0
  <2>4. rows[n].position = start + i - 1
    <3>1. R(i, o).position = start + i - 1 BY <2>3, RowTyped
    <3> HIDE DEF R
    <3> QED BY <2>2, <3>1
  <2> QED BY <2>4, <1>0
<1>7. Ordered(all)
  <2> SUFFICES ASSUME NEW a \in 1 .. Len(all), NEW b \in 1 .. Len(all), a < b
               PROVE  RowBefore(all[a], all[b])
    BY DEF Ordered
  <2>1. CASE b <= Len(rows)
    <3>1. a \in 1 .. Len(rows) /\ b \in 1 .. Len(rows) BY <2>1, <1>4, <1>5
    <3>2. RowBefore(rows[a], rows[b]) BY <3>1 DEF AreRowsOf, Ordered
    <3> HIDE DEF all
    <3> QED BY <3>1, <3>2, <1>5
  <2>2. CASE a <= Len(rows) /\ b > Len(rows)
    <3> HIDE DEF all, R, last, count
    <3>1. a \in 1 .. Len(rows) /\ b \in Len(rows) + 1 .. Len(rows) + count
      BY <2>2, <1>1, <1>4, <1>5
    <3>2. all[a].position < start + m - 1 BY <3>1, <1>5, <1>6
    <3>3. all[b].position = start + m - 1 BY <3>1, <1>2, <1>5
    <3> QED BY <3>2, <3>3 DEF RowBefore
  <2>3. CASE a > Len(rows)
    <3> HIDE DEF all, R, last, count
    <3>1. /\ a \in Len(rows) + 1 .. Len(rows) + count
          /\ b \in Len(rows) + 1 .. Len(rows) + count
      BY <2>3, <1>1, <1>4, <1>5
    <3>2. /\ all[a].position = start + m - 1 /\ all[b].position = start + m - 1
          /\ all[a].ordinal = a - Len(rows) - 1 /\ all[b].ordinal = b - Len(rows) - 1
      BY <3>1, <1>2, <1>5
    <3>3. all[a].ordinal < all[b].ordinal BY <3>1, <3>2, <1>4, <1>1
    <3> QED BY <3>2, <3>3 DEF RowBefore
  <2> QED BY <2>1, <2>2, <2>3, <1>4, <1>5
<1>8. \A n \in 1 .. Len(all) : \E i \in inputs \cup {m} : \E o \in 1 .. RowsOf[records[i]] :
         all[n] = R(i, o)
  <2> SUFFICES ASSUME NEW n \in 1 .. Len(all)
               PROVE  \E i \in inputs \cup {m} : \E o \in 1 .. RowsOf[records[i]] :
                         all[n] = R(i, o)
    OBVIOUS
  <2>1. CASE n <= Len(rows)
    <3>1. n \in 1 .. Len(rows) /\ all[n] = rows[n]
      <4> HIDE DEF all
      <4> QED BY <2>1, <1>4, <1>5
    <3>2. \E i \in inputs : \E o \in 1 .. RowsOf[records[i]] : rows[n] = R(i, o)
      BY <3>1 DEF AreRowsOf
    <3> HIDE DEF all, R
    <3> QED BY <3>1, <3>2
  <2>2. CASE n > Len(rows)
    <3> HIDE DEF all, R, last
    <3>1. n \in Len(rows) + 1 .. Len(rows) + count
      <4> HIDE DEF count
      <4> QED BY <2>2, <1>1, <1>4, <1>5
    <3>2. n - Len(rows) \in 1 .. count /\ all[n] = R(m, n - Len(rows)) BY <3>1, <1>5
    <3> QED BY <3>2
  <2> QED BY <2>1, <2>2, <1>4, <1>5
<1>9. \A i \in inputs \cup {m} : \A o \in 1 .. RowsOf[records[i]] : \E n \in 1 .. Len(all) :
         all[n] = R(i, o)
  <2> SUFFICES ASSUME NEW i \in inputs \cup {m}, NEW o \in 1 .. RowsOf[records[i]]
               PROVE  \E n \in 1 .. Len(all) : all[n] = R(i, o)
    OBVIOUS
  <2>1. CASE i \in inputs
    <3>1. PICK n \in 1 .. Len(rows) : rows[n] = R(i, o) BY <2>1 DEF AreRowsOf
    <3> HIDE DEF all, R
    <3>2. n \in 1 .. Len(all) /\ all[n] = rows[n] BY <1>1, <1>4, <1>5
    <3> QED BY <3>1, <3>2
  <2>2. CASE i = m
    <3> HIDE DEF all, R
    <3>1. Len(rows) + o \in Len(rows) + 1 .. Len(rows) + count /\ Len(rows) + o \in 1 .. Len(all)
      BY <2>2, <1>1, <1>4, <1>5
    <3>2. all[Len(rows) + o] = R(m, (Len(rows) + o) - Len(rows)) BY <3>1, <1>5
    <3>3. (Len(rows) + o) - Len(rows) = o BY <2>2, <1>1, <1>4
    <3> QED BY <2>2, <3>1, <3>2, <3>3
  <2> QED BY <2>1, <2>2
<1> QED BY <1>5, <1>7, <1>8, <1>9 DEF AreRowsOf

-----------------------------------------------------------------------------
Item == [position : Nat, record : Record]

ItemOf(start, records, i) == [position |-> start + i - 1, record |-> records[i]]

\* The items of a batch, one for each of its records.
LEMMA ItemsTyped ==
    ASSUME NEW start \in Nat, NEW records \in Seq(Record)
    PROVE  /\ Items(start, records) \in Seq(Item)
           /\ Len(Items(start, records)) = Len(records)
           /\ \A i \in 1 .. Len(records) : Items(start, records)[i] = ItemOf(start, records, i)
<1>1. Len(records) \in Nat BY LenProperties
<1>2. \A i \in 1 .. Len(records) : ItemOf(start, records, i) \in Item
  BY <1>1, ElementOfSeq DEF ItemOf, Item
<1>3. Items(start, records) = [i \in 1 .. Len(records) |-> ItemOf(start, records, i)]
  BY DEF Items, ItemOf
<1>4. Items(start, records) \in [1 .. Len(records) -> Item] BY <1>2, <1>3
<1>5. Items(start, records) \in Seq(Item) /\ Len(Items(start, records)) = Len(records)
  BY <1>1, <1>4
<1> QED BY <1>3, <1>5

\* The items of one more record.
LEMMA ItemsGrow ==
    ASSUME NEW start \in Nat, NEW records \in Seq(Record), NEW m \in 1 .. Len(records)
    PROVE  Items(start, SubSeq(records, 1, m)) =
              Append(Items(start, SubSeq(records, 1, m - 1)), ItemOf(start, records, m))
<1> DEFINE v == SubSeq(records, 1, m - 1)
           w == SubSeq(records, 1, m)
           e == ItemOf(start, records, m)
<1>0. Len(records) \in Nat BY LenProperties
<1>1. v \in Seq(Record) /\ Len(v) = m - 1 /\ records[m] \in Record /\ w = Append(v, records[m])
  BY PrefixGrows
<1>2. /\ w \in Seq(Record) /\ Len(w) = m /\ w[m] = records[m]
      /\ \A i \in 1 .. m - 1 : w[i] = v[i]
  <2> HIDE DEF v, w
  <2> QED BY <1>0, <1>1, AppendProperties
<1> HIDE DEF v, w
<1>3. /\ Items(start, v) \in Seq(Item) /\ Len(Items(start, v)) = m - 1
      /\ \A i \in 1 .. m - 1 : Items(start, v)[i] = ItemOf(start, v, i)
  BY <1>1, ItemsTyped
<1>4. /\ Items(start, w) \in Seq(Item) /\ Len(Items(start, w)) = m
      /\ \A i \in 1 .. m : Items(start, w)[i] = ItemOf(start, w, i)
  BY <1>2, ItemsTyped
<1>5. e \in Item /\ e = ItemOf(start, w, m) BY <1>0, <1>1, <1>2 DEF ItemOf, Item
<1> HIDE DEF e
<1>6. /\ Append(Items(start, v), e) \in Seq(Item)
      /\ Len(Append(Items(start, v), e)) = m
      /\ Append(Items(start, v), e)[m] = e
      /\ \A i \in 1 .. m - 1 : Append(Items(start, v), e)[i] = Items(start, v)[i]
  BY <1>0, <1>3, <1>5, AppendProperties
<1>7. \A i \in 1 .. m - 1 : ItemOf(start, v, i) = ItemOf(start, w, i) BY <1>2 DEF ItemOf
<1>8. \A i \in 1 .. m : Items(start, w)[i] = Append(Items(start, v), e)[i]
  BY <1>0, <1>3, <1>4, <1>5, <1>6, <1>7
<1>9. Items(start, w) = Append(Items(start, v), e)
  BY <1>4, <1>6, <1>8, SeqEqual
<1> QED BY <1>9 DEF v, w, e

\* The share of a worker in one more record.
LEMMA GroupGrows ==
    ASSUME NEW start \in Nat, NEW records \in Seq(Record), NEW m \in 1 .. Len(records), NEW w
    PROVE  /\ Group(start, SubSeq(records, 1, m - 1), w) \in Seq(Item)
           /\ ItemOf(start, records, m) \in Item
           /\ Group(start, SubSeq(records, 1, m), w) =
                 IF RouteOf[KeyOf[records[m]]] = w
                   THEN Append(Group(start, SubSeq(records, 1, m - 1), w),
                               ItemOf(start, records, m))
                   ELSE Group(start, SubSeq(records, 1, m - 1), w)
<1> DEFINE earlier == Items(start, SubSeq(records, 1, m - 1))
           e      == ItemOf(start, records, m)
<1>1. SubSeq(records, 1, m - 1) \in Seq(Record) /\ records[m] \in Record BY PrefixGrows
<1>2. earlier \in Seq(Item) BY <1>1, ItemsTyped
<1>3. e \in Item
  <2>1. start + m - 1 \in Nat BY LenProperties
  <2> QED BY <1>1, <2>1 DEF ItemOf, Item
<1>4. e \in Routed(w) <=> RouteOf[KeyOf[records[m]]] = w
  <2>1. start + m - 1 \in Nat BY LenProperties
  <2> QED BY <1>1, <2>1 DEF ItemOf, Routed
<1>5. Items(start, SubSeq(records, 1, m)) = Append(earlier, e) BY ItemsGrow
<1> HIDE DEF earlier, e
<1>6. Filtered(Append(earlier, e), Routed(w)) =
         IF e \in Routed(w) THEN Append(Filtered(earlier, Routed(w)), e)
         ELSE Filtered(earlier, Routed(w))
  BY <1>2, <1>3, FilteredAppend
<1>7. Filtered(earlier, Routed(w)) \in Seq(Item) BY <1>2, FilteredTyped
<1> QED BY <1>3, <1>4, <1>5, <1>6, <1>7 DEF Group, earlier, e

\* A cell after one more record.
LEMMA CellGrows ==
    ASSUME NEW records \in Seq(Record), NEW cells \in [Key -> Seq(Record)],
           NEW k \in Key, NEW m \in 1 .. Len(records)
    PROVE  CellBy(records, cells, k, m) =
              IF KeyOf[records[m]] = k THEN Append(CellBy(records, cells, k, m - 1), records[m])
              ELSE CellBy(records, cells, k, m - 1)
<1> DEFINE v == SubSeq(records, 1, m - 1)
           e == records[m]
           f == Filtered(v, OfKey(k))
           c == cells[k]
<1>1. v \in Seq(Record) /\ e \in Record /\ SubSeq(records, 1, m) = Append(v, e)
  BY PrefixGrows
<1>2. e \in OfKey(k) <=> KeyOf[e] = k BY <1>1 DEF OfKey
<1>3. c \in Seq(Record) OBVIOUS
<1>4. f \in Seq(Record) BY <1>1, FilteredTyped
<1>5. Filtered(Append(v, e), OfKey(k)) = IF e \in OfKey(k) THEN Append(f, e) ELSE f
  <2> HIDE DEF v, e
  <2> QED BY <1>1, FilteredAppend
<1>6. c \o Append(f, e) = Append(c \o f, e)
  <2> HIDE DEF c, f, e
  <2> QED BY <1>1, <1>3, <1>4
<1> QED
  <2>1. CellBy(records, cells, k, m) = c \o Filtered(Append(v, e), OfKey(k))
    BY <1>1 DEF CellBy
  <2>2. CellBy(records, cells, k, m - 1) = c \o f BY DEF CellBy
  <2> HIDE DEF v, e, f, c
  <2>3. CASE KeyOf[e] = k BY <2>1, <2>2, <2>3, <1>2, <1>5, <1>6 DEF e
  <2>4. CASE KeyOf[e] # k BY <2>1, <2>2, <2>4, <1>2, <1>5 DEF e
  <2> QED BY <2>3, <2>4

\* A worker's reply for the first m records of a batch.
Reply(start, records, shard, w, m) ==
    WorkerExecute(shard, Group(start, SubSeq(records, 1, m), w))

Share(records, w, m) == {i \in 1 .. m : RouteOf[KeyOf[records[i]]] = w}

\* A worker computes, for the keys of its shard, the cells and the rows that
\* one runtime computes.
ReplyHolds(start, records, shard, cells, w, m) ==
    LET reply == Reply(start, records, shard, w, m) IN
    /\ reply.shard.cells \in [Key -> Seq(Record)]
    /\ \A k \in Key : reply.shard.cells[k] =
          IF RouteOf[k] = w THEN CellBy(records, cells, k, m) ELSE shard.cells[k]
    /\ AreRowsOf(reply.rows, start, records, cells, Share(records, w, m))

\* Without records the shard is returned.
LEMMA ReplyToNothing ==
    ASSUME NEW start \in Nat, NEW records \in Seq(Record), NEW shard,
           shard.cells \in [Key -> Seq(Record)], NEW cells \in [Key -> Seq(Record)], NEW w,
           \A k \in Key : RouteOf[k] = w => shard.cells[k] = cells[k]
    PROVE  ReplyHolds(start, records, shard, cells, w, 0)
<1>1. SubSeq(records, 1, 0) = <<>> BY SubSeqEmpty
<1>2. Items(start, <<>>) = <<>>
  <2>1. <<>> \in Seq(Record) /\ Len(<<>>) = 0 BY EmptySeq
  <2>2. Items(start, <<>>) \in Seq(Item) /\ Len(Items(start, <<>>)) = 0
    BY <2>1, ItemsTyped
  <2> QED BY <2>2, EmptySeq
<1>3. Group(start, <<>>, w) = <<>> BY <1>2, FilteredEmpty DEF Group
<1>4. Reply(start, records, shard, w, 0) = [shard |-> shard, rows |-> <<>>]
  BY <1>1, <1>3, WorkEmpty DEF Reply
<1>5. \A k \in Key : CellBy(records, cells, k, 0) = cells[k]
  <2> SUFFICES ASSUME NEW k \in Key PROVE CellBy(records, cells, k, 0) = cells[k] OBVIOUS
  <2>1. Filtered(SubSeq(records, 1, 0), OfKey(k)) = <<>> BY <1>1, FilteredEmpty
  <2>2. cells[k] \in Seq(Record) OBVIOUS
  <2>3. cells[k] \o <<>> = cells[k] BY <2>2, ConcatEmptySeq
  <2> QED BY <2>1, <2>3 DEF CellBy
<1>6. AreRowsOf(<<>>, start, records, cells, Share(records, w, 0))
  BY EmptySeq DEF AreRowsOf, Ordered, Share
<1> QED BY <1>4, <1>5, <1>6 DEF ReplyHolds

\* One more record is the worker's or leaves its reply as it was.
LEMMA ReplyGrows ==
    ASSUME NEW start \in Nat, NEW records \in Seq(Record), NEW shard,
           shard.cells \in [Key -> Seq(Record)], NEW cells \in [Key -> Seq(Record)], NEW w,
           \A k \in Key : RouteOf[k] = w => shard.cells[k] = cells[k],
           NEW m \in 1 .. Len(records), ReplyHolds(start, records, shard, cells, w, m - 1)
    PROVE  ReplyHolds(start, records, shard, cells, w, m)
<1> DEFINE old   == Reply(start, records, shard, w, m - 1)
           new   == Reply(start, records, shard, w, m)
           share == Group(start, SubSeq(records, 1, m - 1), w)
           item  == ItemOf(start, records, m)
           r     == records[m]
<1>0. Len(records) \in Nat BY LenProperties
<1>1. r \in Record /\ KeyOf[r] \in Key /\ RowsOf[r] \in Nat BY InputTyped
<1>2. /\ share \in Seq(Item) /\ item \in Item
      /\ Group(start, SubSeq(records, 1, m), w) =
            IF RouteOf[KeyOf[r]] = w THEN Append(share, item) ELSE share
  BY GroupGrows
<1>3. \A k \in Key : CellBy(records, cells, k, m) =
              IF KeyOf[r] = k THEN Append(CellBy(records, cells, k, m - 1), r)
              ELSE CellBy(records, cells, k, m - 1)
  BY CellGrows
<1>4. /\ old.shard.cells \in [Key -> Seq(Record)]
      /\ \A k \in Key : old.shard.cells[k] =
            IF RouteOf[k] = w THEN CellBy(records, cells, k, m - 1) ELSE shard.cells[k]
      /\ AreRowsOf(old.rows, start, records, cells, Share(records, w, m - 1))
  BY DEF ReplyHolds
<1>5. CASE RouteOf[KeyOf[r]] # w
  <2>1. new = old
    <3> HIDE DEF share, item, r
    <3> QED BY <1>2, <1>5 DEF Reply, share
  <2>2. Share(records, w, m) = Share(records, w, m - 1) BY <1>0, <1>5 DEF Share
  <2> HIDE DEF old, r
  <2>3. \A k \in Key : RouteOf[k] = w => CellBy(records, cells, k, m) = CellBy(records, cells, k, m - 1)
    BY <1>3, <1>5
  <2>4. ReplyHolds(start, records, shard, cells, w, m)
    BY <1>4, <2>1, <2>2, <2>3 DEF ReplyHolds
  <2> QED BY <2>4
<1>6. CASE RouteOf[KeyOf[r]] = w
  <2>1. new = ProcessItem(old, item)
    <3>1. Group(start, SubSeq(records, 1, m), w) = Append(share, item) BY <1>2, <1>6
    <3>2. new = WorkerExecute(shard, Append(share, item)) BY <3>1 DEF Reply
    <3>3. old = WorkerExecute(shard, share) BY DEF Reply
    <3> HIDE DEF new, old, share, item
    <3>4. WorkerExecute(shard, Append(share, item)) = ProcessItem(WorkerExecute(shard, share), item)
      BY <1>2, WorkAppend
    <3> QED BY <3>2, <3>3, <3>4
  <2>2. item.record = r /\ item.position = start + m - 1 BY DEF ItemOf
  <2> HIDE DEF old, new, item, r
  <2>3. new.shard.cells = [old.shard.cells EXCEPT ![KeyOf[r]] = Append(@, r)]
    BY <2>1, <2>2 DEF ProcessItem
  <2>4. new.rows = old.rows \o [i \in 1 .. RowsOf[r] |->
                      [position |-> start + m - 1, ordinal |-> i - 1,
                       key |-> KeyOf[r], value |-> new.shard.cells[KeyOf[r]]]]
    BY <2>1, <2>2 DEF ProcessItem
  <2>5. old.shard.cells[KeyOf[r]] = CellBy(records, cells, KeyOf[r], m - 1) BY <1>1, <1>4, <1>6
  <2>6. new.shard.cells[KeyOf[r]] = CellBy(records, cells, KeyOf[r], m)
    <3>1. KeyOf[r] \in DOMAIN old.shard.cells BY <1>1, <1>4
    <3>2. new.shard.cells[KeyOf[r]] = Append(old.shard.cells[KeyOf[r]], r) BY ONLY <2>3, <3>1
    <3>3. CellBy(records, cells, KeyOf[r], m) = Append(CellBy(records, cells, KeyOf[r], m - 1), r)
      BY <1>1, <1>3
    <3> QED BY ONLY <2>5, <3>2, <3>3
  <2>7. new.shard.cells \in [Key -> Seq(Record)]
    <3>1. old.shard.cells[KeyOf[r]] \in Seq(Record) BY <1>1, <1>4
    <3>2. Append(old.shard.cells[KeyOf[r]], r) \in Seq(Record) BY <1>1, <3>1, AppendProperties
    <3> QED BY <1>1, <1>4, <2>3, <3>2
  <2>8. \A k \in Key : new.shard.cells[k] =
            IF RouteOf[k] = w THEN CellBy(records, cells, k, m) ELSE shard.cells[k]
    BY <1>1, <1>3, <1>4, <1>6, <2>3, <2>6
  <2>9. new.rows = old.rows \o RowsOfOne(start, records, cells, m)
    BY <2>4, <2>6 DEF RowsOfOne, RowOf, r
  <2>10. Share(records, w, m) = Share(records, w, m - 1) \cup {m}
    BY <1>0, <1>6 DEF Share, r
  <2>11. AreRowsOf(new.rows, start, records, cells, Share(records, w, m))
    <3>1. Share(records, w, m - 1) \in SUBSET (1 .. m - 1) BY DEF Share
    <3> DEFINE inputs == Share(records, w, m - 1)
               rows   == old.rows
    <3>2. AreRowsOf(rows, start, records, cells, inputs) BY <1>4
    <3> HIDE DEF inputs, rows
    <3>3. inputs \in SUBSET (1 .. m - 1) BY <3>1 DEF inputs
    <3>4. AreRowsOf(rows \o RowsOfOne(start, records, cells, m),
                    start, records, cells, inputs \cup {m})
      BY <3>2, <3>3, RowsExtend
    <3> QED BY <2>9, <2>10, <3>4 DEF inputs, rows
  <2> QED BY <2>7, <2>8, <2>11 DEF ReplyHolds, new
<1> QED BY <1>5, <1>6

\* So it is for the whole batch.
LEMMA RepliesHold ==
    ASSUME NEW start \in Nat, NEW records \in Seq(Record), NEW shard,
           shard.cells \in [Key -> Seq(Record)], NEW cells \in [Key -> Seq(Record)], NEW w,
           \A k \in Key : RouteOf[k] = w => shard.cells[k] = cells[k]
    PROVE  ReplyHolds(start, records, shard, cells, w, Len(records))
<1> DEFINE Holds(m) == ReplyHolds(start, records, shard, cells, w, m)
<1> DEFINE Bad == {m \in 0 .. Len(records) : ~ Holds(m)}
<1>0. Len(records) \in Nat BY LenProperties
<1>1. Bad = {}
  <2> SUFFICES ASSUME Bad # {} PROVE FALSE OBVIOUS
  <2>1. PICK m \in Bad : \A n \in Bad : m <= n
    <3>1. Bad \in SUBSET Nat BY <1>0
    <3> HIDE DEF Bad
    <3> QED BY <3>1, LeastNatural
  <2>2. m # 0 BY <2>1, ReplyToNothing
  <2>3. m \in 1 .. Len(records) /\ Holds(m - 1)
    <3> HIDE DEF Holds
    <3> QED BY <2>1, <2>2, <1>0
  <2> QED BY <2>1, <2>3, ReplyGrows
<1> HIDE DEF Holds
<1>2. Holds(Len(records)) BY <1>0, <1>1
<1> QED BY <1>2 DEF Holds

-----------------------------------------------------------------------------
(***************************************************************************)
(* Flattening, one sequence at a time.                                     *)
(***************************************************************************)
FlattenRun(f, seqs) ==
    f = [i \in 1 .. Len(seqs) |-> IF i = 1 THEN seqs[i] ELSE f[i - 1] \o seqs[i]]

\* The recursion has a solution.
LEMMA FlattenDefined ==
    ASSUME NEW seqs, Len(seqs) \in Nat
    PROVE  \E f : FlattenRun(f, seqs)
<1> DEFINE Entry(f, n) == IF n = 1 THEN seqs[n] ELSE f[n - 1] \o seqs[n]
<1> DEFINE Solved(m) == \E f : f = [n \in 1 .. m |-> Entry(f, n)]
<1> DEFINE Bad == {m \in 0 .. Len(seqs) : ~ Solved(m)}
<1> SUFFICES Solved(Len(seqs)) BY DEF FlattenRun
<1> HIDE DEF Solved
<1> SUFFICES ASSUME Bad # {} PROVE FALSE OBVIOUS
<1>1. PICK m \in Bad : \A n \in Bad : m <= n
  <2>1. Bad \in SUBSET Nat OBVIOUS
  <2> HIDE DEF Bad
  <2> QED BY <2>1, LeastNatural
<1>2. m # 0
  <2> DEFINE f == [n \in 1 .. 0 |-> <<>>]
  <2>1. f = [n \in 1 .. 0 |-> Entry(f, n)] OBVIOUS
  <2> QED BY <2>1 DEF Solved
<1>3. PICK f : f = [n \in 1 .. m - 1 |-> Entry(f, n)]
  <2>1. m - 1 \in 0 .. Len(seqs) /\ m - 1 \notin Bad BY <1>1, <1>2
  <2>2. Solved(m - 1) BY <2>1
  <2> QED BY <2>2 DEF Solved
<1> DEFINE g == [n \in 1 .. m |-> IF n = m THEN Entry(f, m) ELSE f[n]]
<1>4. g = [n \in 1 .. m |-> Entry(g, n)]
  <2>1. \A n \in 1 .. m : n # 1 => n - 1 \in 1 .. m - 1 /\ g[n - 1] = f[n - 1]
    BY <1>2
  <2>2. \A n \in 1 .. m : Entry(g, n) = Entry(f, n) BY <2>1
  <2>3. \A n \in 1 .. m - 1 : f[n] = Entry(f, n) BY <1>3
  <2>4. \A n \in 1 .. m : g[n] = Entry(f, n)
    <3> HIDE DEF Entry
    <3> QED BY <2>3
  <2> HIDE DEF Entry
  <2> QED BY <2>2, <2>4
<1> QED BY <1>1, <1>4 DEF Solved

\* Flattening returns the last value of such a solution.
LEMMA FlattenRuns ==
    ASSUME NEW seqs, Len(seqs) \in Nat \ {0}
    PROVE  \E f : FlattenRun(f, seqs) /\ FlattenSeq(seqs) = f[Len(seqs)]
<1> DEFINE f == CHOOSE f : FlattenRun(f, seqs)
<1>1. FlattenRun(f, seqs) BY FlattenDefined
<1>2. FlattenSeq(seqs) = f[Len(seqs)] BY DEF FlattenSeq, FlattenRun
<1> QED BY <1>1, <1>2

\* Another sequence is appended, but the first.
LEMMA FlattenAppend ==
    ASSUME NEW T, NEW seqs \in Seq(Seq(T)), NEW s \in Seq(T)
    PROVE  FlattenSeq(Append(seqs, s)) = IF seqs = <<>> THEN s ELSE FlattenSeq(seqs) \o s
<1> DEFINE longer == Append(seqs, s)
<1>1. /\ Len(seqs) \in Nat /\ longer \in Seq(Seq(T)) /\ Len(longer) = Len(seqs) + 1
      /\ longer[Len(seqs) + 1] = s
      /\ \A n \in 1 .. Len(seqs) : longer[n] = seqs[n]
  BY AppendProperties
<1> HIDE DEF longer
<1>2. PICK g : FlattenRun(g, longer) /\ FlattenSeq(longer) = g[Len(longer)]
  <2>1. Len(longer) \in Nat \ {0} BY <1>1
  <2> QED BY <1>1, <2>1, FlattenRuns
<1>3. CASE seqs = <<>>
  <2>1. Len(seqs) = 0 BY <1>3
  <2>2. g[1] = longer[1] BY <1>1, <1>2, <2>1 DEF FlattenRun
  <2> QED BY <1>1, <1>2, <1>3, <2>1, <2>2 DEF longer
<1>4. CASE seqs # <<>>
  <2>0. Len(seqs) \in Nat \ {0} BY <1>4, EmptySeq
  <2>1. PICK f : FlattenRun(f, seqs) /\ FlattenSeq(seqs) = f[Len(seqs)]
    BY <2>0, FlattenRuns
  <2> DEFINE Bad == {n \in 1 .. Len(seqs) : f[n] # g[n]}
  <2>2. Bad = {}
    <3> SUFFICES ASSUME Bad # {} PROVE FALSE OBVIOUS
    <3>1. PICK m \in Bad : \A n \in Bad : m <= n
      <4>1. Bad \in SUBSET Nat BY <1>1
      <4> HIDE DEF Bad
      <4> QED BY <4>1, LeastNatural
    <3>2. m \in 1 .. Len(seqs) /\ longer[m] = seqs[m] BY <1>1, <3>1
    <3>3. m # 1 BY <1>1, <1>2, <2>1, <3>1, <3>2 DEF FlattenRun
    <3>4. m - 1 \in 1 .. Len(seqs) /\ f[m - 1] = g[m - 1] BY <1>1, <3>1, <3>2, <3>3
    <3>5. m \in 1 .. Len(longer) BY <1>1, <3>2
    <3>6. f[m] = f[m - 1] \o seqs[m] BY <2>1, <3>2, <3>3 DEF FlattenRun
    <3>7. g[m] = g[m - 1] \o longer[m] BY <1>2, <3>5, <3>3 DEF FlattenRun
    <3> QED BY <3>1, <3>2, <3>4, <3>6, <3>7
  <2>3. f[Len(seqs)] = g[Len(seqs)] BY <2>0, <2>2
  <2>4. /\ Len(seqs) + 1 \in 1 .. Len(longer) /\ Len(seqs) + 1 # 1
        /\ (Len(seqs) + 1) - 1 = Len(seqs)
    BY <1>1, <2>0
  <2>5. g[Len(seqs) + 1] = g[Len(seqs)] \o s BY <1>1, <1>2, <2>4 DEF FlattenRun
  <2> QED BY <1>1, <1>2, <1>4, <2>1, <2>3, <2>5 DEF longer
<1> QED BY <1>3, <1>4

\* Nothing is flat.
LEMMA FlattenEmpty == FlattenSeq(<<>>) = <<>>
  BY EmptySeq DEF FlattenSeq

\* What is flat is a sequence.
LEMMA FlattenTyped ==
    ASSUME NEW T, NEW seqs \in Seq(Seq(T))
    PROVE  FlattenSeq(seqs) \in Seq(T)
<1> DEFINE Bad == {m \in 0 .. Len(seqs) : FlattenSeq(SubSeq(seqs, 1, m)) \notin Seq(T)}
<1>0. Len(seqs) \in Nat BY LenProperties
<1>1. Bad = {}
  <2> SUFFICES ASSUME Bad # {} PROVE FALSE OBVIOUS
  <2>1. PICK m \in Bad : \A n \in Bad : m <= n
    <3>1. Bad \in SUBSET Nat BY <1>0
    <3> HIDE DEF Bad
    <3> QED BY <3>1, LeastNatural
  <2>2. m # 0
    <3>1. SubSeq(seqs, 1, 0) = <<>> BY SubSeqEmpty
    <3>2. FlattenSeq(SubSeq(seqs, 1, 0)) = <<>> BY <3>1, FlattenEmpty
    <3> QED BY <2>1, <3>2, EmptySeq
  <2> DEFINE v == SubSeq(seqs, 1, m - 1)
             s == seqs[m]
  <2>3. m \in 1 .. Len(seqs) BY <2>1, <2>2, <1>0
  <2>4. v \in Seq(Seq(T)) /\ s \in Seq(T) /\ SubSeq(seqs, 1, m) = Append(v, s)
    BY <2>3, PrefixGrows
  <2>5. FlattenSeq(v) \in Seq(T) BY <2>1, <2>3, <1>0
  <2> HIDE DEF v, s
  <2>6. FlattenSeq(Append(v, s)) = IF v = <<>> THEN s ELSE FlattenSeq(v) \o s
    BY <2>4, FlattenAppend
  <2>7. FlattenSeq(v) \o s \in Seq(T) BY <2>4, <2>5, ConcatProperties
  <2> QED BY <2>1, <2>4, <2>6, <2>7
<1>2. FlattenSeq(SubSeq(seqs, 1, Len(seqs))) \in Seq(T) BY <1>0, <1>1
<1> QED BY <1>2, SubSeqFull

\* Another sequence is appended, whatever is flat already.
LEMMA FlattenGrows ==
    ASSUME NEW T, NEW seqs \in Seq(Seq(T)), NEW s \in Seq(T)
    PROVE  FlattenSeq(Append(seqs, s)) = FlattenSeq(seqs) \o s
<1>1. CASE seqs = <<>>
  BY <1>1, FlattenAppend, FlattenEmpty, ConcatEmptySeq
<1>2. CASE seqs # <<>> BY <1>2, FlattenAppend
<1> QED BY <1>1, <1>2

-----------------------------------------------------------------------------
(***************************************************************************)
(* The rows of the whole batch, emitted by one runtime.                    *)
(***************************************************************************)
SerialRows(start, records, cells, m) ==
    FlattenSeq([i \in 1 .. m |-> RowsOfOne(start, records, cells, i)])

\* The rows of one input are rows.
LEMMA RowsOfOneTyped ==
    ASSUME NEW start \in Nat, NEW records \in Seq(Record), NEW cells \in [Key -> Seq(Record)],
           NEW i \in 1 .. Len(records)
    PROVE  RowsOfOne(start, records, cells, i) \in Seq(Row)
<1> DEFINE R(o)  == RowOf(start, records, cells, i, o)
           count == RowsOf[records[i]]
           rows  == RowsOfOne(start, records, cells, i)
<1>1. count \in Nat BY InputTyped
<1>2. \A o \in 1 .. count : R(o) \in Row BY RowTyped
<1>3. rows = [o \in 1 .. count |-> R(o)] BY DEF RowsOfOne
<1> HIDE DEF R, count, rows
<1>4. rows \in [1 .. count -> Row] BY <1>2, <1>3
<1> QED BY <1>1, <1>4 DEF rows

\* One runtime emits the rows of every input, in order.
LEMMA SerialRowsHold ==
    ASSUME NEW start \in Nat, NEW records \in Seq(Record), NEW cells \in [Key -> Seq(Record)]
    PROVE  AreRowsOf(SerialRows(start, records, cells, Len(records)),
                     start, records, cells, 1 .. Len(records))
<1> DEFINE One(i) == RowsOfOne(start, records, cells, i)
           Seqs(m) == [i \in 1 .. m |-> One(i)]
           Holds(m) == AreRowsOf(FlattenSeq(Seqs(m)), start, records, cells, 1 .. m)
           Bad == {m \in 0 .. Len(records) : ~ Holds(m)}
<1>0. Len(records) \in Nat BY LenProperties
<1>1. \A i \in 1 .. Len(records) : One(i) \in Seq(Row) BY RowsOfOneTyped
<1>2. \A m \in 0 .. Len(records) :
         /\ Seqs(m) \in Seq(Seq(Row)) /\ Len(Seqs(m)) = m
         /\ \A i \in 1 .. m : Seqs(m)[i] = One(i)
  <2> SUFFICES ASSUME NEW m \in 0 .. Len(records)
               PROVE  /\ Seqs(m) \in Seq(Seq(Row)) /\ Len(Seqs(m)) = m
                      /\ \A i \in 1 .. m : Seqs(m)[i] = One(i)
    OBVIOUS
  <2> HIDE DEF One
  <2>1. m \in Nat /\ Seqs(m) \in [1 .. m -> Seq(Row)] BY <1>0, <1>1
  <2> QED BY <2>1
<1>3. \A m \in 1 .. Len(records) : Seqs(m) = Append(Seqs(m - 1), One(m))
  <2> SUFFICES ASSUME NEW m \in 1 .. Len(records)
               PROVE  Seqs(m) = Append(Seqs(m - 1), One(m))
    OBVIOUS
  <2> DEFINE u == Seqs(m)
             v == Seqs(m - 1)
             e == One(m)
  <2>1. /\ u \in Seq(Seq(Row)) /\ Len(u) = m /\ \A i \in 1 .. m : u[i] = One(i)
        /\ v \in Seq(Seq(Row)) /\ Len(v) = m - 1 /\ \A i \in 1 .. m - 1 : v[i] = One(i)
        /\ e \in Seq(Row)
    <3>1. m \in 0 .. Len(records) /\ m - 1 \in 0 .. Len(records) BY <1>0
    <3> HIDE DEF One, Seqs
    <3> QED BY <1>1, <1>2, <3>1
  <2>2. u[m] = e BY <2>1, <1>0
  <2> HIDE DEF u, v, e, One
  <2>3. /\ Append(v, e) \in Seq(Seq(Row)) /\ Len(Append(v, e)) = m
        /\ Append(v, e)[m] = e /\ \A i \in 1 .. m - 1 : Append(v, e)[i] = v[i]
    BY <2>1, <1>0, AppendProperties
  <2>4. \A i \in 1 .. m : u[i] = Append(v, e)[i] BY <2>1, <2>2, <2>3, <1>0
  <2>5. u = Append(v, e) BY <2>1, <2>3, <2>4, SeqEqual
  <2> QED BY <2>5 DEF u, v, e
<1>4. Holds(0)
  <2>1. Seqs(0) = <<>> OBVIOUS
  <2>2. FlattenSeq(Seqs(0)) = <<>> BY <2>1, FlattenEmpty
  <2>3. AreRowsOf(<<>>, start, records, cells, 1 .. 0)
    BY EmptySeq DEF AreRowsOf, Ordered
  <2> HIDE DEF Seqs
  <2> QED BY <2>2, <2>3
<1>5. \A m \in 1 .. Len(records) : Holds(m - 1) => Holds(m)
  <2> SUFFICES ASSUME NEW m \in 1 .. Len(records), Holds(m - 1) PROVE Holds(m) OBVIOUS
  <2> DEFINE v == Seqs(m - 1)
             e == One(m)
             rows == FlattenSeq(v)
             inputs == 1 .. m - 1
  <2>1. v \in Seq(Seq(Row)) /\ e \in Seq(Row) /\ Seqs(m) = Append(v, e)
    <3>1. m - 1 \in 0 .. Len(records) BY <1>0
    <3> HIDE DEF One, Seqs
    <3> QED BY <1>1, <1>2, <1>3, <3>1
  <2>2. FlattenSeq(Append(v, e)) = rows \o e
    <3> HIDE DEF v, e
    <3> QED BY <2>1, FlattenGrows
  <2>3. AreRowsOf(rows, start, records, cells, inputs) OBVIOUS
  <2>4. 1 .. m = inputs \cup {m} BY <1>0
  <2>5. AreRowsOf(rows \o One(m), start, records, cells, inputs \cup {m})
    <3> HIDE DEF rows, inputs, v
    <3>1. inputs \in SUBSET (1 .. m - 1) BY DEF inputs
    <3> QED BY <2>3, <3>1, RowsExtend
  <2> HIDE DEF rows, inputs, v, One
  <2>6. FlattenSeq(Seqs(m)) = rows \o One(m) BY <2>1, <2>2 DEF v
  <2> QED BY <2>4, <2>5, <2>6
<1> HIDE DEF Holds
<1>6. Bad = {}
  <2> SUFFICES ASSUME Bad # {} PROVE FALSE OBVIOUS
  <2>1. PICK m \in Bad : \A n \in Bad : m <= n
    <3>1. Bad \in SUBSET Nat BY <1>0
    <3> HIDE DEF Bad
    <3> QED BY <3>1, LeastNatural
  <2> QED BY <2>1, <1>0, <1>4, <1>5
<1>7. Holds(Len(records)) BY <1>0, <1>6
<1> QED BY <1>7 DEF Holds, SerialRows

-----------------------------------------------------------------------------
(***************************************************************************)
(* Sorting the replies.                                                    *)
(***************************************************************************)
Places(replies) == UNION {{w} \X DOMAIN replies[w].rows : w \in Worker}

RowAt(replies, p) == replies[p[1]].rows[p[2]]

Earlier(replies, p) == {q \in Places(replies) : RowBefore(RowAt(replies, q), RowAt(replies, p))}

\* The sort, with its local names.
LEMMA MergeUnfolds ==
    ASSUME NEW replies
    PROVE  MergeRows(replies) =
              [n \in 1 .. Cardinality(Places(replies)) |->
                  RowAt(replies, CHOOSE p \in Places(replies) :
                                    Cardinality(Earlier(replies, p)) = n - 1)]
  BY DEF MergeRows, Places, RowAt, Earlier

\* Each reply is the rows of its worker's share of the batch.
AreReplies(replies, start, records, cells) ==
    \A w \in Worker : AreRowsOf(replies[w].rows, start, records, cells,
                                Share(records, w, Len(records)))

\* The places of the replies, numbered as the rows are.
Indexed(replies, rows) ==
    \E f \in Bijection(Places(replies), 1 .. Len(rows)) :
        \A p \in Places(replies) : rows[f[p]] = RowAt(replies, p)

\* Every row of the replies is one of the rows of the batch, and the other way
\* round: the place of each is its index.
LEMMA PlacesAreIndexes ==
    ASSUME NEW start \in Nat, NEW records \in Seq(Record), NEW cells \in [Key -> Seq(Record)],
           NEW replies,
           AreReplies(replies, start, records, cells),
           NEW rows, AreRowsOf(rows, start, records, cells, 1 .. Len(records))
    PROVE  Indexed(replies, rows)
<1> USE DEF AreReplies, Indexed
<1> DEFINE R(i, o) == RowOf(start, records, cells, i, o)
           places  == Places(replies)
           At(p)   == RowAt(replies, p)
<1>0. Len(records) \in Nat /\ Len(rows) \in Nat BY LenProperties DEF AreRowsOf
<1>1. \A w \in Worker : DOMAIN replies[w].rows = 1 .. Len(replies[w].rows)
                        /\ Len(replies[w].rows) \in Nat
  BY LenProperties DEF AreRowsOf
<1>2. \A p \in places : /\ p = <<p[1], p[2]>>
                        /\ p[1] \in Worker
                        /\ p[2] \in 1 .. Len(replies[p[1]].rows)
  BY <1>1 DEF Places
<1>3. \A w \in Worker : \A n \in 1 .. Len(replies[w].rows) :
         <<w, n>> \in places /\ At(<<w, n>>) = replies[w].rows[n]
  BY <1>1 DEF Places, RowAt
<1>4. \A p \in places : \E i \in 1 .. Len(records) : \E o \in 1 .. RowsOf[records[i]] :
         /\ RouteOf[KeyOf[records[i]]] = p[1]
         /\ At(p) = R(i, o)
  <2> SUFFICES ASSUME NEW p \in places
               PROVE  \E i \in 1 .. Len(records) : \E o \in 1 .. RowsOf[records[i]] :
                         RouteOf[KeyOf[records[i]]] = p[1] /\ At(p) = R(i, o)
    OBVIOUS
  <2> HIDE DEF places
  <2>1. p[1] \in Worker /\ p[2] \in 1 .. Len(replies[p[1]].rows) BY <1>2
  <2>2. PICK i \in Share(records, p[1], Len(records)) : \E o \in 1 .. RowsOf[records[i]] :
           replies[p[1]].rows[p[2]] = R(i, o)
    BY <2>1 DEF AreRowsOf
  <2>3. i \in 1 .. Len(records) /\ RouteOf[KeyOf[records[i]]] = p[1] BY <2>2 DEF Share
  <2> HIDE DEF R
  <2> QED BY <2>2, <2>3 DEF RowAt
<1>5. \A p \in places : \E n \in 1 .. Len(rows) : rows[n] = At(p)
  <2> SUFFICES ASSUME NEW p \in places PROVE \E n \in 1 .. Len(rows) : rows[n] = At(p) OBVIOUS
  <2> HIDE DEF places, At
  <2>1. PICK i \in 1 .. Len(records) : \E o \in 1 .. RowsOf[records[i]] : At(p) = R(i, o)
    BY <1>4
  <2>2. PICK o \in 1 .. RowsOf[records[i]] : At(p) = R(i, o) BY <2>1
  <2>3. \E n \in 1 .. Len(rows) : rows[n] = R(i, o) BY DEF AreRowsOf
  <2> QED BY <2>2, <2>3
<1>6. \A n \in 1 .. Len(rows) : \E p \in places : rows[n] = At(p)
  <2> SUFFICES ASSUME NEW n \in 1 .. Len(rows) PROVE \E p \in places : rows[n] = At(p) OBVIOUS
  <2>1. PICK i \in 1 .. Len(records) : \E o \in 1 .. RowsOf[records[i]] : rows[n] = R(i, o)
    BY DEF AreRowsOf
  <2>2. PICK o \in 1 .. RowsOf[records[i]] : rows[n] = R(i, o) BY <2>1
  <2> DEFINE w == RouteOf[KeyOf[records[i]]]
  <2>3. w \in Worker BY InputTyped, WaveAssumption DEF Worker
  <2>4. i \in Share(records, w, Len(records)) BY DEF Share
  <2>5. PICK m \in 1 .. Len(replies[w].rows) : replies[w].rows[m] = R(i, o)
    BY <2>3, <2>4 DEF AreRowsOf
  <2> HIDE DEF w, places, At, R
  <2>6. <<w, m>> \in places /\ At(<<w, m>>) = replies[w].rows[m] BY <1>3, <2>3
  <2> QED BY <2>2, <2>5, <2>6
<1>7. \A p, q \in places : At(p) = At(q) => p = q
  <2> SUFFICES ASSUME NEW p \in places, NEW q \in places, At(p) = At(q) PROVE p = q OBVIOUS
  <2>1. PICK i \in 1 .. Len(records) : \E o \in 1 .. RowsOf[records[i]] :
           RouteOf[KeyOf[records[i]]] = p[1] /\ At(p) = R(i, o)
    BY <1>4
  <2>2. PICK j \in 1 .. Len(records) : \E o \in 1 .. RowsOf[records[j]] :
           RouteOf[KeyOf[records[j]]] = q[1] /\ At(q) = R(j, o)
    BY <1>4
  <2>3. At(p).position = start + i - 1 BY <2>1, RowTyped
  <2>4. At(q).position = start + j - 1 BY <2>2, RowTyped
  <2> HIDE DEF places, At, R
  <2>5. i = j BY <2>3, <2>4, <1>0
  <2>6. p[1] = q[1] BY <2>1, <2>2, <2>5
  <2> DEFINE mine == replies[p[1]].rows
  <2>7. /\ p[1] \in Worker /\ p[2] \in 1 .. Len(mine) /\ q[2] \in 1 .. Len(mine)
        /\ Len(mine) \in Nat
    BY <1>1, <1>2, <2>6
  <2>8. mine[p[2]] = At(p) /\ mine[q[2]] = At(p) BY <2>6 DEF At, RowAt
  <2>9. \A a, b \in 1 .. Len(mine) : a < b => RowBefore(mine[a], mine[b])
    BY <2>7 DEF AreRowsOf, Ordered
  <2>10. /\ mine \in Seq(Row) BY <2>7 DEF AreRowsOf
  <2>11. ~ RowBefore(At(p), At(p))
    <3>1. mine[p[2]] \in Row BY <2>7, <2>10, ElementOfSeq
    <3>2. At(p) \in Row BY <3>1, <2>8
    <3> QED BY <3>2 DEF RowBefore, Row
  <2> HIDE DEF mine
  <2>12. p[2] = q[2] BY <2>7, <2>8, <2>9, <2>11
  <2> QED BY <1>2, <2>6, <2>12
<1>8. \A a, b \in 1 .. Len(rows) : rows[a] = rows[b] => a = b
  <2> SUFFICES ASSUME NEW a \in 1 .. Len(rows), NEW b \in 1 .. Len(rows), rows[a] = rows[b]
               PROVE  a = b
    OBVIOUS
  <2>1. rows[a] \in Row BY ElementOfSeq DEF AreRowsOf
  <2>2. ~ RowBefore(rows[a], rows[a]) BY <2>1 DEF RowBefore, Row
  <2>3. a < b => RowBefore(rows[a], rows[b]) BY DEF AreRowsOf, Ordered
  <2>4. b < a => RowBefore(rows[b], rows[a]) BY DEF AreRowsOf, Ordered
  <2> QED BY <1>0, <2>2, <2>3, <2>4
<1> DEFINE f == [p \in places |-> CHOOSE n \in 1 .. Len(rows) : rows[n] = At(p)]
<1>9. \A p \in places : f[p] \in 1 .. Len(rows) /\ rows[f[p]] = At(p)
  <2> HIDE DEF places, At
  <2> QED BY <1>5
<1> HIDE DEF places, At
<1>10. f \in [places -> 1 .. Len(rows)] BY <1>9
<1>11. \A p, q \in places : f[p] = f[q] => p = q
  <2> HIDE DEF f
  <2> QED BY <1>7, <1>9
<1>12. \A n \in 1 .. Len(rows) : \E p \in places : f[p] = n
  <2> HIDE DEF f
  <2> QED BY <1>6, <1>8, <1>9
<1> HIDE DEF f
<1>13. f \in Bijection(places, 1 .. Len(rows))
  <2> DEFINE T == 1 .. Len(rows)
  <2>1. /\ f \in [places -> T]
        /\ \A p, q \in places : f[p] = f[q] => p = q
        /\ \A n \in T : \E p \in places : f[p] = n
    BY <1>10, <1>11, <1>12
  <2> HIDE DEF T
  <2>2. f \in Injection(places, T) BY <2>1 DEF Injection, IsInjective
  <2>3. f \in Surjection(places, T) BY <2>1 DEF Surjection
  <2> QED BY <2>2, <2>3 DEF Bijection, T
<1> QED BY <1>9, <1>13 DEF places, At

\* The cardinality of a set that is numbered from one.
LEMMA Numbered ==
    ASSUME NEW S, NEW n \in Nat, NEW f \in [S -> 1 .. n],
           \A p, q \in S : f[p] = f[q] => p = q,
           \A m \in 1 .. n : \E p \in S : f[p] = m
    PROVE  Cardinality(S) = n
<1> DEFINE T == 1 .. n
<1>1. IsFiniteSet(T) /\ Cardinality(T) = n
  <2>1. 1 \in Int /\ n \in Int OBVIOUS
  <2>2. IsFiniteSet(T) /\ Cardinality(T) = IF 1 > n THEN 0 ELSE n - 1 + 1
    BY <2>1, FS_Interval
  <2> QED BY <2>2
<1>2. f \in [S -> T] /\ (\A m \in T : \E p \in S : f[p] = m) OBVIOUS
<1> HIDE DEF T
<1>3. f \in Injection(S, T) BY <1>2 DEF Injection, IsInjective
<1>4. f \in Surjection(S, T) BY <1>2 DEF Surjection
<1> QED BY <1>1, <1>3, <1>4, FS_Injection

\* The sorted replies are the rows of the batch.
LEMMA MergeIsRows ==
    ASSUME NEW start \in Nat, NEW records \in Seq(Record), NEW cells \in [Key -> Seq(Record)],
           NEW replies,
           \A w \in Worker : AreRowsOf(replies[w].rows, start, records, cells,
                                       Share(records, w, Len(records))),
           NEW rows, AreRowsOf(rows, start, records, cells, 1 .. Len(records))
    PROVE  MergeRows(replies) = rows
<1>0. Indexed(replies, rows)
  <2>1. AreReplies(replies, start, records, cells) BY DEF AreReplies
  <2> QED BY <2>1, PlacesAreIndexes
<1> DEFINE places == Places(replies)
           At(p)  == RowAt(replies, p)
           N      == Len(rows)
<1>1. PICK f \in Bijection(places, 1 .. N) : \A p \in places : rows[f[p]] = At(p)
  BY <1>0 DEF Indexed
<1>2. /\ f \in [places -> 1 .. N]
      /\ \A p, q \in places : f[p] = f[q] => p = q
      /\ \A n \in 1 .. N : \E p \in places : f[p] = n
  <2> DEFINE T == 1 .. N
  <2>1. f \in Injection(places, T) /\ f \in Surjection(places, T) BY <1>1 DEF Bijection
  <2> HIDE DEF T, places
  <2>2. /\ f \in [places -> T] /\ IsInjective(f)
        /\ \A n \in T : \E p \in places : f[p] = n
    BY <2>1 DEF Injection, Surjection
  <2>3. \A p, q \in places : f[p] = f[q] => p = q BY <2>2 DEF IsInjective
  <2> QED BY <2>2, <2>3 DEF T
<1>3. N \in Nat /\ rows \in Seq(Row) BY LenProperties DEF AreRowsOf
<1>4. Cardinality(places) = N
  <2> HIDE DEF places, N
  <2> QED BY <1>2, <1>3, Numbered
<1>5. \A p, q \in places : RowBefore(At(q), At(p)) <=> f[q] < f[p]
  <2> SUFFICES ASSUME NEW p \in places, NEW q \in places
               PROVE  RowBefore(At(q), At(p)) <=> f[q] < f[p]
    OBVIOUS
  <2>1. f[p] \in 1 .. N /\ f[q] \in 1 .. N /\ rows[f[p]] = At(p) /\ rows[f[q]] = At(q)
    BY <1>1, <1>2
  <2>2. At(p) \in Row /\ At(q) \in Row BY <2>1, <1>3, ElementOfSeq
  <2>3. f[q] < f[p] => RowBefore(At(q), At(p)) BY <2>1 DEF AreRowsOf, Ordered
  <2>4. f[p] < f[q] => RowBefore(At(p), At(q)) BY <2>1 DEF AreRowsOf, Ordered
  <2>5. f[p] = f[q] => At(p) = At(q) BY <2>1
  <2> HIDE DEF At, places
  <2>6. ~ (RowBefore(At(p), At(q)) /\ RowBefore(At(q), At(p))) BY <2>2 DEF RowBefore, Row
  <2> QED BY <2>1, <2>3, <2>4, <2>5, <2>6, <1>3
<1>6. \A p \in places : Cardinality(Earlier(replies, p)) = f[p] - 1
  <2> SUFFICES ASSUME NEW p \in places PROVE Cardinality(Earlier(replies, p)) = f[p] - 1
    OBVIOUS
  <2> DEFINE E == Earlier(replies, p)
             g == [q \in E |-> f[q]]
             m == f[p] - 1
  <2>1. E = {q \in places : RowBefore(At(q), At(p))} BY DEF Earlier
  <2>2. f[p] \in 1 .. N /\ m \in Nat BY <1>2, <1>3
  <2> HIDE DEF E, At, places, N
  <2>3. \A q \in E : q \in places /\ f[q] \in 1 .. N /\ f[q] < f[p] BY <1>2, <1>5, <2>1
  <2>4. \A q \in places : f[q] < f[p] => q \in E BY <1>5, <2>1
  <2>5. g \in [E -> 1 .. m]
    <3>1. \A q \in E : f[q] \in 1 .. m BY <1>3, <2>2, <2>3
    <3> HIDE DEF m
    <3> QED BY <3>1
  <2>6. \A q, r \in E : g[q] = g[r] => q = r BY <1>2, <2>3
  <2>7. \A k \in 1 .. m : \E q \in E : g[q] = k
    <3> SUFFICES ASSUME NEW k \in 1 .. m PROVE \E q \in E : g[q] = k OBVIOUS
    <3>1. k \in 1 .. N /\ k < f[p] BY <1>3, <2>2
    <3>2. PICK q \in places : f[q] = k BY <1>2, <3>1
    <3> QED BY <2>4, <3>1, <3>2
  <2> HIDE DEF g, m
  <2>8. Cardinality(E) = m BY <2>2, <2>5, <2>6, <2>7, Numbered
  <2> QED BY <2>8 DEF E, m
<1>7. \A n \in 1 .. N : RowAt(replies, CHOOSE p \in places :
                                          Cardinality(Earlier(replies, p)) = n - 1) = rows[n]
  <2> SUFFICES ASSUME NEW n \in 1 .. N
               PROVE  RowAt(replies, CHOOSE p \in places :
                                        Cardinality(Earlier(replies, p)) = n - 1) = rows[n]
    OBVIOUS
  <2> DEFINE p == CHOOSE p \in places : Cardinality(Earlier(replies, p)) = n - 1
  <2>1. \E q \in places : Cardinality(Earlier(replies, q)) = n - 1
    <3> HIDE DEF places
    <3> QED BY <1>2, <1>6
  <2>2. p \in places /\ Cardinality(Earlier(replies, p)) = n - 1
    <3> HIDE DEF places
    <3> QED BY <2>1
  <2> HIDE DEF p, places
  <2>3. f[p] = n BY <1>2, <1>3, <1>6, <2>2
  <2> QED BY <1>1, <2>2, <2>3 DEF p, places
<1>8. MergeRows(replies) = [n \in 1 .. N |-> rows[n]]
  <2>1. MergeRows(replies) =
           [n \in 1 .. N |-> RowAt(replies, CHOOSE p \in places :
                                               Cardinality(Earlier(replies, p)) = n - 1)]
    BY <1>4, MergeUnfolds
  <2> QED BY <1>7, <2>1
<1>9. rows = [n \in 1 .. N |-> rows[n]] BY <1>3
<1> QED BY <1>8, <1>9

-----------------------------------------------------------------------------
(***************************************************************************)
(* The candidate batch of a wave is what one runtime computes: its rows    *)
(* are those of the inputs one after the other, and every key's cell is    *)
(* the one it would have, wherever the key is routed.                      *)
(***************************************************************************)
THEOREM WaveIsSerial ==
    ASSUME NEW earlier \in Checkpoint, NEW start \in Nat, NEW records \in Seq(Record),
           NEW cells \in [Key -> Seq(Record)],
           \A k \in Key : earlier.shards[RouteOf[k]].cells[k] = cells[k]
    PROVE  LET batch == CandidateBatch(earlier, start, records) IN
           /\ batch.outputs = SerialRows(start, records, cells, Len(records))
           /\ \A k \in Key : batch.checkpoint.shards[RouteOf[k]].cells[k] =
                                CellBy(records, cells, k, Len(records))
<1> DEFINE replies == [w \in Worker |->
                          WorkerExecute(earlier.shards[w], Group(start, records, w))]
           batch   == CandidateBatch(earlier, start, records)
           rows    == SerialRows(start, records, cells, Len(records))
<1>1. \A w \in Worker : ReplyHolds(start, records, earlier.shards[w], cells, w, Len(records))
  <2> SUFFICES ASSUME NEW w \in Worker
               PROVE  ReplyHolds(start, records, earlier.shards[w], cells, w, Len(records))
    OBVIOUS
  <2>1. earlier.shards[w].cells \in [Key -> Seq(Record)] BY DEF Checkpoint, Shard
  <2>2. \A k \in Key : RouteOf[k] = w => earlier.shards[w].cells[k] = cells[k] OBVIOUS
  <2> QED BY <2>1, <2>2, RepliesHold
<1>2. \A w \in Worker : replies[w] = Reply(start, records, earlier.shards[w], w, Len(records))
  <2>1. SubSeq(records, 1, Len(records)) = records BY SubSeqFull
  <2> QED BY <2>1 DEF Reply
<1>3. \A w \in Worker : AreRowsOf(replies[w].rows, start, records, cells,
                                  Share(records, w, Len(records)))
  <2> HIDE DEF replies
  <2> QED BY <1>1, <1>2 DEF ReplyHolds
<1>4. MergeRows(replies) = rows
  <2>1. AreRowsOf(rows, start, records, cells, 1 .. Len(records)) BY SerialRowsHold
  <2> HIDE DEF replies, rows
  <2> QED BY <1>3, <2>1, MergeIsRows
<1>5. batch.outputs = MergeRows(replies) BY DEF CandidateBatch
<1>6. \A w \in Worker : batch.checkpoint.shards[w] = replies[w].shard
  <2>1. batch.checkpoint = [earlier EXCEPT !.next = start + Len(records),
                                          !.waves = @ + 1,
                                          !.emitted = @ + Len(MergeRows(replies)),
                                          !.shards = [w \in Worker |-> replies[w].shard]]
    BY DEF CandidateBatch
  <2>2. DOMAIN earlier = {"next", "waves", "closed", "emitted", "shards"} BY DEF Checkpoint
  <2> HIDE DEF replies, batch
  <2>3. batch.checkpoint.shards = [w \in Worker |-> replies[w].shard] BY <2>1, <2>2
  <2> QED BY <2>3
<1>7. \A k \in Key : batch.checkpoint.shards[RouteOf[k]].cells[k] =
                        CellBy(records, cells, k, Len(records))
  <2> SUFFICES ASSUME NEW k \in Key
               PROVE  batch.checkpoint.shards[RouteOf[k]].cells[k] =
                         CellBy(records, cells, k, Len(records))
    OBVIOUS
  <2> DEFINE w == RouteOf[k]
  <2>1. w \in Worker BY WaveAssumption DEF Worker
  <2> HIDE DEF replies, batch, w
  <2>2. batch.checkpoint.shards[w].cells = replies[w].shard.cells BY <1>6, <2>1
  <2>3. replies[w].shard.cells[k] = CellBy(records, cells, k, Len(records))
    BY <1>1, <1>2, <2>1 DEF ReplyHolds, w
  <2> QED BY <2>2, <2>3 DEF w
<1> QED BY <1>4, <1>5, <1>7

-----------------------------------------------------------------------------
(***************************************************************************)
(* The inductive invariant.  It says what a session may rely on at each    *)
(* point of apply although it holds no transaction while it executes: its  *)
(* snapshot is a point the journal really went through, and between the    *)
(* comparison under the RESERVED lock and COMMIT it is still the head.     *)
(***************************************************************************)
\* The head the journal had at generation g.
PointAt(g) == IF g = Len(commits) THEN head ELSE commits[g + 1].before

\* The wave a receipt stands for.
BatchOf(receipt) ==
    CandidateBatch(receipt.before.checkpoint, receipt.request.start,
                   receipt.request.records)

\* A receipt that changes the head was computed from its own request and its
\* own before boundary: executing the request there again gives the same point.
Computed(receipt) ==
    LET r == receipt.request
        b == receipt.before.checkpoint
    IN  /\ r.journal = ThisJournal
        /\ r.expected = receipt.before.generation
        /\ r.start = b.next
        /\ ~ b.closed
        /\ IF r.cause = "wave"
             THEN /\ BatchAdmitted(b, r.start, r.records, BatchOf(receipt))
                  /\ receipt.after.checkpoint = BatchOf(receipt).checkpoint
             ELSE receipt.after.checkpoint = [b EXCEPT !.closed = TRUE]
        /\ receipt.after.generation = receipt.before.generation + 1
        /\ PointAdmitted(receipt.after)
        /\ CheckpointAdmitted(receipt.after.checkpoint)

\* The rows published with a receipt.
RowsPlanned(receipt) ==
    IF receipt.request.cause = "wave"
      THEN Tagged(receipt.after.generation, BatchOf(receipt).outputs) ELSE <<>>

AllComputed == \A g \in DOMAIN commits : Computed(commits[g])

JournalInv == JournalAdmitted /\ PublishedOnce /\ OutputsLieInReceipts /\ AllComputed

\* What the read transaction leaves behind is a point of the journal's past
\* that the request was written for.
SnapshotInv(s) ==
    pc[s] \in {"execute", "hung", "plan", "staged", "begin", "written", "commit"} =>
        LET b == before[s].point
            r == request[s]
        IN  /\ r.journal = ThisJournal
            /\ r.expected = b.generation
            /\ r.start = b.checkpoint.next
            /\ b.generation <= head.generation
            /\ b = PointAt(b.generation)
            /\ before[s].retained = b.generation + b.checkpoint.emitted
            /\ CheckpointAdmitted(b.checkpoint)
            /\ r.cause = "wave" => ~ b.checkpoint.closed
            /\ pc[s] = "execute" => r.cause = "wave"
            /\ pc[s] = "plan" => r.cause = "eof"

\* A plan is the request executed on the snapshot, and fits the store.
PlanInv(s) ==
    pc[s] \in {"staged", "begin", "written", "commit"} =>
        LET receipt == plan[s].receipt IN
        /\ receipt.request = request[s]
        /\ receipt.before = before[s].point
        /\ Changed(s) => /\ Computed(receipt)
                         /\ plan[s].rows = RowsPlanned(receipt)
                         /\ FitsStore(before[s], receipt, plan[s].rows)
        /\ ~ Changed(s) => request[s].cause = "eof" /\ receipt.before.checkpoint.closed

\* From the comparison to COMMIT the snapshot is the head, the request is not
\* retained, nobody else can publish, and the session is not cancelled.
AdmittedInv(s) ==
    pc[s] \in {"written", "commit"} =>
        /\ ~ cancelled[s]
        /\ head = before[s].point
        /\ Changed(s) => writer = s /\ ~ HasReceipt(request[s].id)

SessionInv == \A s \in Session : SnapshotInv(s) /\ PlanInv(s) /\ AdmittedInv(s)

(***************************************************************************)
(* The inductive invariant: the journal is consistent and was computed     *)
(* from its own requests, and every session's snapshot, plan and admission *)
(* still mean what they meant when the session made them.                  *)
(***************************************************************************)
IInv == TypeOK /\ JournalInv /\ SessionInv

-----------------------------------------------------------------------------
\* An empty count sums to zero: the initial checkpoint is admissible.
LEMMA SumOfZeros ==
    ASSUME NEW count, \A w \in Worker : count[w] = 0
    PROVE  SumOverShards(count) = 0
<1> DEFINE IsUpTo(f) ==
        f = [w \in 0 .. Workers |-> IF w = 0 THEN 0 ELSE f[w - 1] + count[w - 1]]
<1> DEFINE upTo == CHOOSE f : IsUpTo(f)
<1>0. Workers \in Nat \ {0} BY WaveAssumption
<1>1. IsUpTo([w \in 0 .. Workers |-> 0])
  <2>1. \A w \in 0 .. Workers : w # 0 => w - 1 \in Worker /\ w - 1 \in 0 .. Workers
    BY <1>0 DEF Worker
  <2>2. \A w \in 0 .. Workers :
            (IF w = 0 THEN 0 ELSE [v \in 0 .. Workers |-> 0][w - 1] + count[w - 1]) = 0
    BY <2>1
  <2> QED BY <2>2
<1>2. IsUpTo(upTo)
  <2> HIDE DEF IsUpTo
  <2> QED BY <1>1
<1>3. \A w \in 0 .. Workers : upTo[w] = 0
  <2> DEFINE Bad == {w \in 0 .. Workers : upTo[w] # 0}
  <2> HIDE DEF upTo
  <2> SUFFICES ASSUME Bad # {} PROVE FALSE OBVIOUS
  <2>1. PICK m \in Bad : \A n \in Bad : m <= n
    <3>1. Bad \in SUBSET Nat BY <1>0
    <3> HIDE DEF Bad
    <3> QED BY <3>1, LeastNatural
  <2>2. m # 0 BY <1>2, <1>0
  <2>3. m - 1 \in 0 .. Workers /\ m - 1 \in Worker BY <2>2, <1>0 DEF Worker
  <2>4. upTo[m - 1] = 0 BY <2>1, <2>3, <1>0
  <2>5. upTo[m] = upTo[m - 1] + count[m - 1] BY <1>2, <2>2
  <2> QED BY <2>1, <2>3, <2>4, <2>5
<1>4. SumOverShards(count) = upTo[Workers]
  BY DEF SumOverShards
<1> QED
  <2> HIDE DEF upTo
  <2> QED BY <1>0, <1>3, <1>4

\* The checkpoint of a fresh Flow passes the admission of `_latest`.
LEMMA InitialCheckpointAdmitted ==
    /\ InitialCheckpoint \in Checkpoint
    /\ CheckpointAdmitted(InitialCheckpoint)
<1> USE WaveAssumption
<1>1. EmptyShard \in Shard BY DEF EmptyShard, Shard
<1>2. InitialCheckpoint \in Checkpoint
  BY <1>1 DEF InitialCheckpoint, Checkpoint
<1>3. \A w \in Worker : InitialCheckpoint.shards[w] = EmptyShard
  BY DEF InitialCheckpoint
<1>4. SumOverShards([w \in Worker |-> InitialCheckpoint.shards[w].processed]) = 0
  BY <1>3, SumOfZeros DEF EmptyShard
<1>5. SumOverShards([w \in Worker |-> InitialCheckpoint.shards[w].emitted]) = 0
  BY <1>3, SumOfZeros DEF EmptyShard
<1>6. \A w \in Worker : \A k \in Key : InitialCheckpoint.shards[w].cells[k] = <<>>
  BY <1>3 DEF EmptyShard
<1>7. \A w \in Worker : InitialCheckpoint.shards[w].emitted = 0
                        /\ InitialCheckpoint.shards[w].cells = EmptyShard.cells
  BY <1>3 DEF EmptyShard
<1>8. InitialCheckpoint.waves = 0 /\ InitialCheckpoint.next = 0 /\ InitialCheckpoint.emitted = 0
  BY DEF InitialCheckpoint
<1> QED BY <1>2, <1>4, <1>5, <1>6, <1>7, <1>8 DEF CheckpointAdmitted

-----------------------------------------------------------------------------
(***************************************************************************)
(* Lemmas about the operators the steps are built from.                    *)
(***************************************************************************)

\* Every request has an identifier, a source position and a batch.
LEMMA RequestFacts ==
    ASSUME NEW r \in Request
    PROVE  /\ r.id \in RequestId /\ r.expected \in Nat /\ r.start \in Nat
           /\ r.cause \in {"wave", "eof"}
           /\ Len(r.records) \in Nat /\ Len(r.records) <= MaxBatch
           /\ r.cause = "wave" => Len(r.records) > 0
<1>1. \A x \in Batch : Len(x) \in Nat /\ Len(x) > 0 /\ Len(x) <= MaxBatch
  BY WaveAssumption DEF Batch
<1>2. Len(<<>>) = 0 OBVIOUS
<1>3. CASE r.cause = "wave" BY <1>1, <1>3 DEF Request
<1>4. CASE r.cause # "wave"
  <2>1. r.cause = "eof" /\ r.records = <<>> BY <1>4 DEF Request
  <2> QED BY <2>1, <1>2, WaveAssumption DEF Request
<1> QED BY <1>3, <1>4 DEF Request

\* What the parent's admission says of a wave.
LEMMA BatchFacts ==
    ASSUME NEW b, NEW start \in Nat, NEW records, NEW batch,
           BatchAdmitted(b, start, records, batch)
    PROVE  /\ batch.outputs \in Seq(Row)
           /\ Len(batch.outputs) \in Nat
           /\ Len(batch.outputs) <= MaxOutputs
           /\ batch.checkpoint \in Checkpoint
           /\ CheckpointAdmitted(batch.checkpoint)
           /\ batch.checkpoint.next = start + Len(records)
           /\ batch.checkpoint.closed = b.closed
           /\ batch.checkpoint.emitted = b.emitted + Len(batch.outputs)
           /\ \A i \in 1 .. Len(batch.outputs) :
                 /\ start <= batch.outputs[i].position
                 /\ batch.outputs[i].position < start + Len(records)
                 /\ i = 1 => batch.outputs[i].ordinal = 0
  BY DEF BatchAdmitted

\* Tagging rows for storage keeps their number and their order.
LEMMA TaggedFacts ==
    ASSUME NEW g \in Nat, NEW rows \in Seq(Row)
    PROVE  /\ Tagged(g, rows) \in Seq(OutputRow)
           /\ Len(Tagged(g, rows)) = Len(rows)
           /\ \A i \in 1 .. Len(rows) : /\ Tagged(g, rows)[i].generation = g
                                        /\ Tagged(g, rows)[i].output = rows[i]
<1>1. \A i \in 1 .. Len(rows) : [generation |-> g, output |-> rows[i]] \in OutputRow
  BY DEF OutputRow
<1>2. Len(rows) \in Nat OBVIOUS
<1>3. Tagged(g, rows) \in [1 .. Len(rows) -> OutputRow] BY <1>1 DEF Tagged
<1>4. \A i \in 1 .. Len(rows) :
          Tagged(g, rows)[i].generation = g /\ Tagged(g, rows)[i].output = rows[i]
  BY <1>2 DEF Tagged
<1>5. Tagged(g, rows) \in Seq(OutputRow) /\ Len(Tagged(g, rows)) = Len(rows)
  BY <1>2, <1>3
<1> QED BY <1>4, <1>5

\* Closing the source keeps a checkpoint admissible.
LEMMA ClosedFacts ==
    ASSUME NEW cp \in Checkpoint
    PROVE  LET closedCp == [cp EXCEPT !.closed = TRUE] IN
           /\ closedCp \in Checkpoint
           /\ closedCp.closed
           /\ closedCp.next = cp.next /\ closedCp.emitted = cp.emitted
           /\ CheckpointAdmitted(cp) => CheckpointAdmitted(closedCp)
           /\ cp.closed <=> closedCp = cp
<1> DEFINE closedCp == [cp EXCEPT !.closed = TRUE]
<1>1. /\ closedCp \in Checkpoint
      /\ closedCp.closed = TRUE /\ closedCp.next = cp.next /\ closedCp.emitted = cp.emitted
      /\ closedCp.waves = cp.waves /\ closedCp.shards = cp.shards
  BY DEF Checkpoint
<1>2. CheckpointAdmitted(cp) => CheckpointAdmitted(closedCp)
  <2> HIDE DEF closedCp
  <2> QED BY <1>1 DEF CheckpointAdmitted
<1>3. cp.closed <=> closedCp = cp
  BY DEF Checkpoint
<1> QED BY <1>1, <1>2, <1>3

-----------------------------------------------------------------------------
(***************************************************************************)
(* Frames: what a step of one session leaves alone.                        *)
(***************************************************************************)

\* A step of session s changes no other session's part of the state, and
\* takes the RESERVED lock only when it is free and gives back only its own.
LEMMA FrameOthers ==
    ASSUME TypeOK, NEW s \in Session, NEW t \in Session, t # s, SessionNext(s)
    PROVE  /\ pc'[t] = pc[t] /\ phase'[t] = phase[t] /\ cancelled'[t] = cancelled[t]
           /\ request'[t] = request[t] /\ before'[t] = before[t]
           /\ plan'[t] = plan[t] /\ answer'[t] = answer[t]
           /\ writer = t => writer' = t
<1> DEFINE Kept ==
        /\ pc'[t] = pc[t] /\ phase'[t] = phase[t] /\ cancelled'[t] = cancelled[t]
        /\ request'[t] = request[t] /\ before'[t] = before[t]
        /\ plan'[t] = plan[t] /\ answer'[t] = answer[t]
        /\ writer = t => writer' = t
<1>d. /\ DOMAIN pc = Session /\ DOMAIN phase = Session /\ DOMAIN cancelled = Session
      /\ DOMAIN request = Session /\ DOMAIN before = Session /\ DOMAIN plan = Session
      /\ DOMAIN answer = Session
  BY DEF TypeOK
<1> USE <1>d
<1>0. ASSUME NEW kind, NEW receipt, Answer(s, kind, receipt)
      PROVE  /\ pc'[t] = pc[t] /\ request'[t] = request[t] /\ before'[t] = before[t]
             /\ plan'[t] = plan[t] /\ answer'[t] = answer[t]
             /\ writer = t => writer' = t
  BY <1>0 DEF Answer
<1>1. ASSUME NEW kind, NEW receipt, Return(s, kind, receipt) PROVE Kept
  BY <1>0, <1>1 DEF Return
<1>2. ASSUME NEW kind, Settle(s, kind) PROVE Kept
  BY <1>0, <1>2 DEF Settle
<1>3. ASSUME NEW r \in Submitted, Apply(s, r) PROVE Kept BY <1>3 DEF Apply
<1>4. ASSUME Fail(s) PROVE Kept BY <1>2, <1>4 DEF Fail
<1>5. ASSUME SqlFails(s) PROVE Kept BY <1>1, <1>5 DEF SqlFails
<1>6. ASSUME AnswerExisting(s) PROVE Kept BY <1>1, <1>6 DEF AnswerExisting
<1>7. ASSUME Lookup(s) PROVE Kept BY <1>1, <1>6, <1>7 DEF Lookup
<1>8. ASSUME NEW cp, NEW rows, Stage(s, cp, rows) PROVE Kept BY <1>1, <1>8 DEF Stage
<1>9. ASSUME Execute(s) PROVE Kept BY <1>2, <1>8, <1>9 DEF Execute
<1>10. ASSUME StageEof(s) PROVE Kept BY <1>8, <1>10 DEF StageEof
<1>11. ASSUME Begin(s) PROVE Kept BY <1>11 DEF Begin
<1>12. ASSUME Admit(s) PROVE Kept
  <2>1. CASE AnswerExisting(s) BY <2>1, <1>6
  <2>2. CASE \E kind : Return(s, kind, None) BY <2>2, <1>1
  <2>3. CASE /\ writer' = IF Changed(s) THEN s ELSE writer
             /\ pc' = [pc EXCEPT ![s] = "written"]
             /\ UNCHANGED <<phase, cancelled, request, before, plan, answer>>
    <3>1. Changed(s) => writer = None BY <1>12 DEF Admit
    <3>2. t # None BY JournalAssumption
    <3> QED BY <2>3, <3>1, <3>2
  <2> QED BY <1>12, <2>1, <2>2, <2>3 DEF Admit
<1>13. ASSUME FinalCheck(s) PROVE Kept BY <1>13 DEF FinalCheck
<1>14. ASSUME Commit(s) PROVE Kept BY <1>1, <1>2, <1>14 DEF Commit
<1>15. ASSUME Cancel(s) PROVE Kept BY <1>15 DEF Cancel
<1>16. ASSUME Close(s) PROVE Kept BY <1>16 DEF Close
<1>17. ASSUME Crash(s) PROVE Kept BY <1>0, <1>17 DEF Crash
<1>18. ASSUME Reopen(s) PROVE Kept BY <1>18 DEF Reopen
<1> HIDE DEF Kept
<1>19. Kept
  BY <1>3, <1>4, <1>5, <1>7, <1>9, <1>10, <1>11, <1>12, <1>13, <1>14, <1>15, <1>16,
     <1>17, <1>18 DEF SessionNext, Step
<1> QED BY <1>19 DEF Kept

\* Only COMMIT, returned or cut short, changes the database.
LEMMA FrameDurable ==
    ASSUME NEW s \in Session, SessionNext(s)
    PROVE  \/ UNCHANGED durable
           \/ /\ pc[s] = "commit"
              /\ Changed(s)
              /\ Install(s)
              /\ Commit(s) \/ Crash(s)
<1>1. Commit(s) => UNCHANGED durable \/ (pc[s] = "commit" /\ Install(s))
  BY DEF Commit
<1>2. Crash(s) => UNCHANGED durable \/ (pc[s] = "commit" /\ Install(s))
  BY DEF Crash
<1>3. Install(s) => UNCHANGED durable \/ Changed(s) BY DEF Install
<1>4. CASE Commit(s) \/ Crash(s) BY <1>1, <1>2, <1>3, <1>4
<1>5. CASE ~ (Commit(s) \/ Crash(s))
  BY <1>5 DEF SessionNext, Step, Apply, Fail, SqlFails, Lookup, Execute, StageEof, Begin,
         Admit, FinalCheck, Cancel, Close, Reopen, durable
<1> QED BY <1>4, <1>5

-----------------------------------------------------------------------------
(***************************************************************************)
(* Type correctness.                                                       *)
(***************************************************************************)

DurableOK == head \in Point /\ commits \in Seq(Receipts) /\ outputs \in Seq(OutputRow)

\* The end of an apply, whatever became of the session and the database.
LEMMA AnswerTyped ==
    ASSUME TypeOK, NEW s \in Session,
           NEW kind \in {"none", "receipt", "conflict", "invalid", "output", "worker"},
           NEW receipt \in Receipts \cup {None},
           Answer(s, kind, receipt), DurableOK',
           phase' \in [Session -> {"ready", "failed", "closed"}], UNCHANGED cancelled
    PROVE  TypeOK'
<1>1. answer' \in [Session ->
          [kind : {"none", "receipt", "conflict", "invalid", "output", "worker"},
           receipt : Receipts \cup {None}]]
  BY DEF Answer, TypeOK
<1>2. /\ pc' = [pc EXCEPT ![s] = "idle"] /\ request' = [request EXCEPT ![s] = None]
      /\ before' = [before EXCEPT ![s] = None] /\ plan' = [plan EXCEPT ![s] = NoPlan]
      /\ writer' = IF writer = s THEN None ELSE writer
  BY DEF Answer
<1> QED BY <1>1, <1>2 DEF TypeOK, DurableOK

\* Staging a typed wave leaves a typed plan, or returns.
LEMMA StageTyped ==
    ASSUME TypeOK, NEW s \in Session, pc[s] \in {"execute", "plan"},
           NEW cp \in Checkpoint, NEW rows \in Seq(Row),
           Stage(s, cp, rows), UNCHANGED durable
    PROVE  TypeOK'
<1> DEFINE b == before[s].point
           a == NextPoint(b, cp)
           receipt == Receipt(request[s], b, a)
<1>1. b \in Point /\ request[s] \in Request
  BY JournalAssumption DEF TypeOK, Snapshot
<1>2. a \in Point BY <1>1 DEF NextPoint, Point
<1>3. receipt \in Receipts BY <1>1, <1>2 DEF Receipt, Receipts
<1>4. Tagged(a.generation, rows) \in Seq(OutputRow)
  BY <1>2, TaggedFacts DEF Point
<1> HIDE DEF b, a, receipt
<1>5. CASE PointAdmitted(a) /\ FitsStore(before[s], receipt, rows)
  <2>1. /\ plan' = [plan EXCEPT ![s] = [receipt |-> receipt, rows |-> Tagged(a.generation, rows)]]
        /\ pc' = [pc EXCEPT ![s] = "staged"]
        /\ UNCHANGED <<writer, phase, cancelled, request, before, answer>>
    BY <1>5 DEF Stage, b, a, receipt
  <2>2. [receipt |-> receipt, rows |-> Tagged(a.generation, rows)] \in Plan
    BY <1>3, <1>4 DEF Plan
  <2> HIDE DEF Plan, Snapshot
  <2> QED BY <2>1, <2>2 DEF TypeOK, durable
<1>6. CASE ~ (PointAdmitted(a) /\ FitsStore(before[s], receipt, rows))
  <2>1. Return(s, "invalid", None) BY <1>6 DEF Stage, b, a, receipt
  <2>2. DurableOK' BY DEF DurableOK, TypeOK, durable
  <2> QED BY <2>1, <2>2, AnswerTyped DEF Return, TypeOK
<1> QED BY <1>5, <1>6

\* Installing a plan leaves a well-typed database.
LEMMA InstallTyped ==
    ASSUME TypeOK, NEW s \in Session, pc[s] = "commit", Install(s) \/ UNCHANGED durable
    PROVE  DurableOK'
<1>1. plan[s] \in Plan BY DEF TypeOK
<1>2. CASE UNCHANGED durable BY <1>2 DEF durable, DurableOK, TypeOK
<1>3. CASE Install(s) /\ Changed(s)
  <2>1. /\ head' = plan[s].receipt.after
        /\ commits' = Append(commits, plan[s].receipt)
        /\ outputs' = outputs \o plan[s].rows
    BY <1>3 DEF Install
  <2>2. /\ plan[s].receipt \in Receipts /\ plan[s].rows \in Seq(OutputRow)
        /\ plan[s].receipt.after \in Point
    BY <1>1 DEF Plan, Receipts
  <2> HIDE DEF Receipts
  <2> QED BY <2>1, <2>2 DEF DurableOK, TypeOK
<1>4. CASE Install(s) /\ ~ Changed(s) BY <1>2, <1>4 DEF Install
<1> QED BY <1>2, <1>3, <1>4

\* A retained receipt answers, with itself or with a conflict.
LEMMA ExistingTyped ==
    ASSUME TypeOK, NEW s \in Session, AnswerExisting(s), UNCHANGED durable
    PROVE  TypeOK'
<1>1. ReceiptOf(request[s].id) \in Receipts
  <2>1. PICK g \in DOMAIN commits : commits[g].request.id = request[s].id
    BY DEF AnswerExisting, HasReceipt
  <2>2. \A h \in DOMAIN commits : commits[h] \in Receipts BY DEF TypeOK
  <2> HIDE DEF Receipts
  <2> QED BY <2>1, <2>2 DEF ReceiptOf
<1>2. DurableOK' BY DEF DurableOK, TypeOK, durable
<1> QED BY <1>1, <1>2, AnswerTyped DEF AnswerExisting, Return, TypeOK

\* Every step keeps the types.
LEMMA TypeStep ==
    ASSUME TypeOK, NEW s \in Session, SessionNext(s)
    PROVE  TypeOK'
<1>1. UNCHANGED durable => DurableOK' BY DEF DurableOK, TypeOK, durable
<1>2. phase \in [Session -> {"ready", "failed", "closed"}] BY DEF TypeOK
<1>3. None \in Receipts \cup {None} OBVIOUS
<1>4. ASSUME NEW kind \in {"conflict", "invalid", "output"}, Return(s, kind, None),
             DurableOK'
      PROVE  TypeOK'
  BY <1>2, <1>3, <1>4, AnswerTyped DEF Return
<1>5. ASSUME Settle(s, "worker"), DurableOK' PROVE TypeOK'
  BY <1>2, <1>3, <1>5, AnswerTyped DEF Settle
<1>6. CASE \E r \in Submitted : Apply(s, r)
  <2> HIDE DEF Snapshot
  <2> QED BY <1>6, JournalAssumption DEF Apply, TypeOK, NoAnswer
<1>7. CASE Fail(s) BY <1>7, <1>1, <1>5 DEF Fail
<1>8. CASE SqlFails(s) BY <1>8, <1>1, <1>4 DEF SqlFails
<1>9. CASE Lookup(s)
  <2> DEFINE r == request[s]
  <2>1. UNCHANGED durable /\ pc[s] = "lookup" BY <1>9 DEF Lookup
  <2>2. CASE AnswerExisting(s) BY <2>1, <2>2, ExistingTyped
  <2>3. CASE \E kind \in {"conflict", "invalid"} : Return(s, kind, None)
    BY <2>1, <2>3, <1>1, <1>4
  <2>4. CASE /\ before' = [before EXCEPT ![s] = [point |-> head, retained |-> Retained]]
             /\ \E next \in (IF r.cause = "eof" THEN {"plan"} ELSE {"execute", "hung"}) :
                   pc' = [pc EXCEPT ![s] = next]
             /\ UNCHANGED <<writer, phase, cancelled, request, plan, answer>>
    <3>1. [point |-> head, retained |-> Retained] \in Snapshot
      BY DEF TypeOK, Snapshot, Retained
    <3> HIDE DEF Snapshot
    <3> QED BY <2>4, <2>1, <3>1 DEF TypeOK, durable
  <2> QED BY <1>9, <2>2, <2>3, <2>4 DEF Lookup, RefusedBySnapshot
<1>10. CASE Execute(s)
  <2> DEFINE b == before[s].point
             r == request[s]
             batch == CandidateBatch(b.checkpoint, r.start, r.records)
  <2>1. UNCHANGED durable /\ pc[s] = "execute" BY <1>10 DEF Execute
  <2>2. CASE Settle(s, "worker") BY <2>1, <2>2, <1>1, <1>5
  <2>3. CASE /\ BatchAdmitted(b.checkpoint, r.start, r.records, batch)
             /\ Stage(s, batch.checkpoint, batch.outputs)
    <3>1. batch.checkpoint \in Checkpoint /\ batch.outputs \in Seq(Row)
      BY <2>3 DEF BatchAdmitted
    <3> HIDE DEF batch
    <3> QED BY <2>1, <2>3, <3>1, StageTyped
  <2> QED BY <1>10, <2>2, <2>3 DEF Execute
<1>11. CASE StageEof(s)
  <2> DEFINE cp == [before[s].point.checkpoint EXCEPT !.closed = TRUE]
  <2>1. before[s].point.checkpoint \in Checkpoint
    BY <1>11 DEF StageEof, TypeOK, Snapshot, Point
  <2>2. cp \in Checkpoint BY <2>1, ClosedFacts
  <2>3. <<>> \in Seq(Row) OBVIOUS
  <2>4. pc[s] = "plan" /\ Stage(s, cp, <<>>) /\ UNCHANGED durable BY <1>11 DEF StageEof
  <2> HIDE DEF cp
  <2> QED BY <2>2, <2>3, <2>4, StageTyped
<1>12. CASE Begin(s)
  <2> HIDE DEF Snapshot, Plan
  <2> QED BY <1>12 DEF Begin, TypeOK
<1>13. CASE Admit(s)
  <2>1. UNCHANGED durable /\ pc[s] = "begin" BY <1>13 DEF Admit
  <2>2. CASE AnswerExisting(s) BY <2>1, <2>2, ExistingTyped
  <2>3. CASE Return(s, "conflict", None) BY <2>1, <2>3, <1>1, <1>4
  <2>4. CASE /\ writer' = IF Changed(s) THEN s ELSE writer
             /\ pc' = [pc EXCEPT ![s] = "written"]
             /\ UNCHANGED <<phase, cancelled, request, before, plan, answer>>
    BY <2>4, <2>1 DEF TypeOK, durable
  <2> QED BY <1>13, <2>2, <2>3, <2>4 DEF Admit
<1>14. CASE FinalCheck(s) BY <1>14 DEF FinalCheck, TypeOK
<1>15. CASE Commit(s)
  <2>1. DurableOK' BY <1>15, InstallTyped DEF Commit
  <2>2. plan[s].receipt \in Receipts BY <1>15 DEF Commit, TypeOK, Plan
  <2>3. CASE Return(s, "receipt", plan[s].receipt)
    BY <2>1, <2>2, <2>3, <1>2, AnswerTyped DEF Return
  <2>4. CASE Return(s, "output", None) BY <2>1, <2>4, <1>4
  <2>5. CASE Settle(s, "worker") BY <2>1, <2>5, <1>5
  <2> QED BY <1>15, <2>3, <2>4, <2>5 DEF Commit
<1>16. CASE Cancel(s) BY <1>16 DEF Cancel, TypeOK
<1>17. CASE Close(s) BY <1>17 DEF Close, TypeOK
<1>18. CASE Crash(s)
  <2>1. DurableOK' BY <1>18, <1>1, InstallTyped DEF Crash
  <2>2. phase' \in [Session -> {"ready", "failed", "closed"}] BY <1>2, <1>18 DEF Crash
  <2> QED BY <2>1, <2>2, <1>3, <1>18, AnswerTyped DEF Crash
<1>19. CASE Reopen(s) BY <1>19 DEF Reopen, TypeOK, NoAnswer
<1> QED
  BY <1>6, <1>7, <1>8, <1>9, <1>10, <1>11, <1>12, <1>13, <1>14, <1>15, <1>16, <1>17,
     <1>18, <1>19 DEF SessionNext, Step

\* The initial state is typed.
LEMMA TypeInit == Init => TypeOK
<1> SUFFICES ASSUME Init PROVE TypeOK OBVIOUS
<1>1. InitialPoint \in Point BY InitialCheckpointAdmitted DEF InitialPoint, Point
<1> QED BY <1>1 DEF Init, TypeOK, NoPlan, NoAnswer

\* A stuttering step keeps the types.
LEMMA TypeStutter == TypeOK /\ UNCHANGED vars => TypeOK'
  BY DEF TypeOK, vars

(***************************************************************************)
(* Every variable keeps its type, for any number of sessions, workers,     *)
(* keys and requests: in particular no step of apply runs without the      *)
(* snapshot or the plan it reads.                                          *)
(***************************************************************************)
THEOREM TypeCorrect == Spec => []TypeOK
<1>1. TypeOK /\ [Next]_vars => TypeOK' BY TypeStep, TypeStutter DEF Next
<1> QED BY <1>1, TypeInit, PTL DEF Spec

-----------------------------------------------------------------------------
(***************************************************************************)
(* Publication keeps the journal consistent.                               *)
(***************************************************************************)

\* A typed recovery point has natural-number counters.
LEMMA PointFacts ==
    ASSUME NEW p \in Point
    PROVE  /\ p.generation \in Nat /\ p.checkpoint \in Checkpoint
           /\ p.checkpoint.next \in Nat /\ p.checkpoint.emitted \in Nat
           /\ p.checkpoint.closed \in BOOLEAN
  BY DEF Point, Checkpoint

\* A computed receipt advances every counter by exactly its own wave, and its
\* rows lie in the wave.
LEMMA ComputedFacts ==
    ASSUME NEW x \in Receipts, Computed(x)
    PROVE  /\ RowsPlanned(x) \in Seq(OutputRow)
           /\ Len(RowsPlanned(x)) \in Nat
           /\ OutputStop(x) = OutputStart(x) + Len(RowsPlanned(x))
           /\ Len(RowsPlanned(x)) <= MaxOutputs
           /\ x.before.checkpoint.next <= x.after.checkpoint.next
           /\ x.after.checkpoint.next - x.before.checkpoint.next <= MaxBatch
           /\ \A i \in 1 .. Len(RowsPlanned(x)) :
                 LET row == RowsPlanned(x)[i] IN
                 /\ x.request.cause = "wave"
                 /\ row.generation = x.after.generation
                 /\ x.before.checkpoint.next <= row.output.position
                 /\ row.output.position < x.after.checkpoint.next
                 /\ i = 1 => row.output.ordinal = 0
<1> DEFINE r == x.request
           b == x.before.checkpoint
           batch == BatchOf(x)
<1>1. r \in Request /\ x.before \in Point /\ x.after \in Point BY DEF Receipts
<1>2. b.next \in Nat /\ b.emitted \in Nat /\ x.after.generation \in Nat
      /\ b \in Checkpoint
  BY <1>1, PointFacts
<1>3. Len(r.records) \in Nat /\ Len(r.records) <= MaxBatch /\ r.start = b.next
  BY <1>1, RequestFacts DEF Computed
<1>4. CASE r.cause = "wave"
  <2>1. BatchAdmitted(b, b.next, r.records, batch) /\ x.after.checkpoint = batch.checkpoint
    BY <1>4, <1>3 DEF Computed
  <2> HIDE DEF batch, b
  <2>2. /\ batch.outputs \in Seq(Row)
        /\ Len(batch.outputs) \in Nat
        /\ Len(batch.outputs) <= MaxOutputs
        /\ batch.checkpoint.next = b.next + Len(r.records)
        /\ batch.checkpoint.emitted = b.emitted + Len(batch.outputs)
        /\ \A i \in 1 .. Len(batch.outputs) :
              /\ b.next <= batch.outputs[i].position
              /\ batch.outputs[i].position < b.next + Len(r.records)
              /\ i = 1 => batch.outputs[i].ordinal = 0
    BY <2>1, <1>2, BatchFacts
  <2>3. RowsPlanned(x) = Tagged(x.after.generation, batch.outputs)
    BY <1>4 DEF RowsPlanned, batch
  <2>4. /\ RowsPlanned(x) \in Seq(OutputRow)
        /\ Len(RowsPlanned(x)) = Len(batch.outputs)
        /\ \A i \in 1 .. Len(batch.outputs) :
              /\ RowsPlanned(x)[i].generation = x.after.generation
              /\ RowsPlanned(x)[i].output = batch.outputs[i]
    BY <2>2, <2>3, <1>2, TaggedFacts
  <2>5. OutputStop(x) = b.emitted + Len(batch.outputs) /\ OutputStart(x) = b.emitted
    BY <2>1, <2>2 DEF OutputStop, OutputStart, b
  <2>6. x.after.checkpoint.next = b.next + Len(r.records) BY <2>1, <2>2
  <2>7. \A i \in 1 .. Len(RowsPlanned(x)) :
            LET row == RowsPlanned(x)[i] IN
            /\ x.request.cause = "wave"
            /\ row.generation = x.after.generation
            /\ b.next <= row.output.position
            /\ row.output.position < x.after.checkpoint.next
            /\ i = 1 => row.output.ordinal = 0
    BY <1>4, <2>2, <2>4, <2>6
  <2>8. /\ OutputStop(x) = OutputStart(x) + Len(RowsPlanned(x))
        /\ b.next <= x.after.checkpoint.next
        /\ x.after.checkpoint.next - b.next <= MaxBatch
    BY <2>4, <2>5, <2>6, <1>2, <1>3, WaveAssumption
  <2> QED BY <2>2, <2>4, <2>7, <2>8 DEF b
<1>5. CASE r.cause # "wave"
  <2>1. x.after.checkpoint = [b EXCEPT !.closed = TRUE] BY <1>5 DEF Computed
  <2>2. x.after.checkpoint.next = b.next /\ x.after.checkpoint.emitted = b.emitted
    BY <2>1, <1>2, ClosedFacts
  <2>3. RowsPlanned(x) = <<>> BY <1>5 DEF RowsPlanned
  <2> QED BY <2>2, <2>3, <1>2, WaveAssumption DEF OutputStop, OutputStart
<1> QED BY <1>4, <1>5

\* A computed receipt changes the checkpoint.
LEMMA ComputedChanges ==
    ASSUME NEW x \in Receipts, Computed(x)
    PROVE  x.after.checkpoint # x.before.checkpoint
<1> DEFINE r == x.request
           old == x.before.checkpoint
           batch == BatchOf(x)
<1>1. r \in Request /\ old \in Checkpoint /\ old.next \in Nat
  BY PointFacts DEF Receipts
<1>2. CASE r.cause = "wave"
  <2>1. /\ BatchAdmitted(old, r.start, r.records, batch)
        /\ x.after.checkpoint = batch.checkpoint /\ r.start = old.next
    BY <1>2 DEF Computed
  <2>2. r.start \in Nat /\ Len(r.records) \in Nat /\ Len(r.records) > 0
    BY <1>1, <1>2, RequestFacts
  <2> HIDE DEF batch, old
  <2>3. batch.checkpoint.next = r.start + Len(r.records) BY <2>1, <2>2, BatchFacts
  <2>4. x.after.checkpoint # old BY <2>1, <2>2, <2>3
  <2> QED BY <2>4 DEF old
<1>3. CASE r.cause # "wave"
  <2>1. x.after.checkpoint = [old EXCEPT !.closed = TRUE] /\ ~ old.closed
    BY <1>3 DEF Computed
  <2> QED BY <2>1, <1>1, ClosedFacts
<1> QED BY <1>2, <1>3

\* What holds when a session that changes the head is about to commit.
LEMMA CommitFacts ==
    ASSUME IInv, NEW s \in Session, pc[s] = "commit", Changed(s)
    PROVE  LET x == plan[s].receipt IN
           /\ x \in Receipts
           /\ Computed(x)
           /\ x.status = "committed"
           /\ x.before = head
           /\ x.request = request[s]
           /\ plan[s].rows = RowsPlanned(x)
           /\ ~ HasReceipt(x.request.id)
           /\ ~ head.checkpoint.closed
           /\ head.generation + head.checkpoint.emitted + Len(RowsPlanned(x)) + 1
                 <= StoreBudget
<1>1. /\ SnapshotInv(s) /\ PlanInv(s) /\ AdmittedInv(s) BY DEF IInv, SessionInv
<1>2. plan[s].receipt \in Receipts BY DEF IInv, TypeOK, Plan
<1>3. head = before[s].point /\ ~ HasReceipt(request[s].id) BY <1>1 DEF AdmittedInv
<1>4. /\ plan[s].receipt.request = request[s] /\ plan[s].receipt.before = before[s].point
      /\ Computed(plan[s].receipt)
      /\ plan[s].rows = RowsPlanned(plan[s].receipt)
      /\ FitsStore(before[s], plan[s].receipt, plan[s].rows)
  BY <1>1 DEF PlanInv
<1>5. before[s].retained = head.generation + head.checkpoint.emitted
  BY <1>1, <1>3 DEF SnapshotInv
<1>6. ~ head.checkpoint.closed BY <1>3, <1>4 DEF Computed
<1>7. head.generation \in Nat /\ head.checkpoint.emitted \in Nat
  BY PointFacts DEF IInv, TypeOK
<1>8. Len(RowsPlanned(plan[s].receipt)) \in Nat BY <1>2, <1>4, ComputedFacts
<1>9. head.generation + head.checkpoint.emitted + Len(RowsPlanned(plan[s].receipt)) + 1
          <= StoreBudget
  BY <1>4, <1>5, <1>7, <1>8, JournalAssumption DEF FitsStore, Changed
<1> QED BY <1>2, <1>3, <1>4, <1>6, <1>9 DEF Changed

\* COMMIT appends one computed receipt and its rows.
LEMMA InstallFacts ==
    ASSUME IInv, NEW s \in Session, pc[s] = "commit", Changed(s), Install(s)
    PROVE  LET x == plan[s].receipt
               n == Len(commits)
           IN  /\ n \in Nat /\ n = head.generation
               /\ head' = x.after
               /\ Len(commits') = n + 1
               /\ commits'[n + 1] = x
               /\ \A g \in 1 .. n : commits'[g] = commits[g]
               /\ commits' \in Seq(Receipts)
               /\ Len(outputs) \in Nat /\ Len(outputs) = head.checkpoint.emitted
               /\ outputs' \in Seq(OutputRow)
               /\ Len(outputs') = Len(outputs) + Len(RowsPlanned(x))
               /\ \A i \in 1 .. Len(outputs) : outputs'[i] = outputs[i]
               /\ \A i \in Len(outputs) + 1 .. Len(outputs') :
                     outputs'[i] = RowsPlanned(x)[i - Len(outputs)]
<1> DEFINE x == plan[s].receipt
<1>1. /\ x \in Receipts /\ Computed(x) /\ plan[s].rows = RowsPlanned(x)
  BY CommitFacts
<1>2. head' = x.after /\ commits' = Append(commits, x) /\ outputs' = outputs \o RowsPlanned(x)
  BY <1>1 DEF Install
<1>3. commits \in Seq(Receipts) /\ outputs \in Seq(OutputRow) /\ head \in Point
  BY DEF IInv, TypeOK
<1>4. Len(commits) = head.generation /\ Len(outputs) = head.checkpoint.emitted
  BY DEF IInv, JournalInv, JournalAdmitted, LatestAdmitted
<1>5. RowsPlanned(x) \in Seq(OutputRow) BY <1>1, ComputedFacts
<1> HIDE DEF x
<1>6. /\ commits' \in Seq(Receipts) /\ Len(commits') = Len(commits) + 1
      /\ commits'[Len(commits) + 1] = x
      /\ \A g \in 1 .. Len(commits) : commits'[g] = commits[g]
  BY <1>1, <1>2, <1>3, AppendProperties
<1>7. /\ outputs' \in Seq(OutputRow)
      /\ Len(outputs') = Len(outputs) + Len(RowsPlanned(x))
      /\ \A i \in 1 .. Len(outputs) + Len(RowsPlanned(x)) : outputs'[i] =
            IF i <= Len(outputs) THEN outputs[i] ELSE RowsPlanned(x)[i - Len(outputs)]
  BY <1>2, <1>3, <1>5, ConcatProperties
<1>8. Len(commits) \in Nat /\ Len(outputs) \in Nat /\ Len(RowsPlanned(x)) \in Nat
  BY <1>3, <1>5, LenProperties
<1>9. /\ \A i \in 1 .. Len(outputs) : outputs'[i] = outputs[i]
      /\ \A i \in Len(outputs) + 1 .. Len(outputs') :
            outputs'[i] = RowsPlanned(x)[i - Len(outputs)]
  BY <1>7, <1>8
<1> QED BY <1>2, <1>4, <1>6, <1>7, <1>8, <1>9 DEF x

\* A publication admitted against an unchanged head extends an
\* admitted journal to an admitted journal.
LEMMA InstallPreserves ==
    ASSUME IInv, NEW s \in Session, pc[s] = "commit", Changed(s), Install(s)
    PROVE  JournalInv'
<1> DEFINE x == plan[s].receipt
           n == Len(commits)
           m == Len(outputs)
           rows == RowsPlanned(x)
<1>1. /\ x \in Receipts /\ Computed(x) /\ x.status = "committed" /\ x.before = head
      /\ ~ HasReceipt(x.request.id)
      /\ head.generation + head.checkpoint.emitted + Len(rows) + 1 <= StoreBudget
  BY CommitFacts
<1>2. /\ n \in Nat /\ n = head.generation
      /\ head' = x.after
      /\ Len(commits') = n + 1
      /\ commits'[n + 1] = x
      /\ \A g \in 1 .. n : commits'[g] = commits[g]
      /\ commits' \in Seq(Receipts)
      /\ m \in Nat /\ m = head.checkpoint.emitted
      /\ outputs' \in Seq(OutputRow)
      /\ Len(outputs') = m + Len(rows)
      /\ \A i \in 1 .. m : outputs'[i] = outputs[i]
      /\ \A i \in m + 1 .. Len(outputs') : outputs'[i] = rows[i - m]
  BY InstallFacts
<1>3. /\ Len(rows) \in Nat
      /\ OutputStop(x) = OutputStart(x) + Len(rows) /\ Len(rows) <= MaxOutputs
      /\ x.before.checkpoint.next <= x.after.checkpoint.next
      /\ x.after.checkpoint.next - x.before.checkpoint.next <= MaxBatch
      /\ \A i \in 1 .. Len(rows) :
            /\ x.request.cause = "wave"
            /\ rows[i].generation = x.after.generation
            /\ x.before.checkpoint.next <= rows[i].output.position
            /\ rows[i].output.position < x.after.checkpoint.next
            /\ i = 1 => rows[i].output.ordinal = 0
  BY <1>1, ComputedFacts
<1>4. /\ x.after.generation = n + 1 /\ x.request.expected = n
      /\ PointAdmitted(x.after) /\ CheckpointAdmitted(x.after.checkpoint)
  BY <1>1, <1>2 DEF Computed
<1>5. DOMAIN commits = 1 .. n /\ DOMAIN commits' = 1 .. n + 1
      /\ DOMAIN outputs = 1 .. m /\ DOMAIN outputs' = 1 .. m + Len(rows)
  BY <1>2 DEF IInv, TypeOK
<1>6. OutputStart(x) = m /\ OutputStop(x) = x.after.checkpoint.emitted
  BY <1>1, <1>2 DEF OutputStart, OutputStop
<1>7. head.checkpoint.next \in Nat /\ head.checkpoint.emitted \in Nat
      /\ x.after.checkpoint.next \in Nat /\ x.after.checkpoint.emitted \in Nat
      /\ \A g \in 1 .. n : /\ commits[g].after.checkpoint.next \in Nat
                           /\ OutputStop(commits[g]) \in Nat
  <2>1. head \in Point /\ x.after \in Point BY <1>1 DEF IInv, TypeOK, Receipts
  <2>2. \A g \in 1 .. n : commits[g] \in Receipts
    BY <1>5 DEF IInv, TypeOK
  <2>3. \A g \in 1 .. n : commits[g].after \in Point
    <3> HIDE DEF n
    <3> QED BY <2>2 DEF Receipts
  <2> HIDE DEF n, x
  <2> QED BY <2>1, <2>3, PointFacts DEF OutputStop
<1>8. \A g \in 1 .. n : ChainHolds(g)
  BY <1>5 DEF IInv, JournalInv, JournalAdmitted
<1>9. n = 0 => head = InitialPoint
  BY <1>2 DEF IInv, JournalInv, JournalAdmitted, LatestAdmitted
<1> HIDE DEF x, n, m, rows
<1>n. n \in Nat /\ m \in Nat /\ Len(rows) \in Nat BY <1>2, <1>3
<1>c. commits'[n + 1] = x /\ \A g \in 1 .. n : commits'[g] = commits[g] BY <1>2
<1>o. \A i \in m + 1 .. m + Len(rows) : outputs'[i] = rows[i - m] BY <1>2
<1>g. \A g \in 1 .. n + 1 : g = n + 1 \/ g \in 1 .. n BY <1>n
<1>10. \A g \in 1 .. n + 1 : ChainHolds(g)'
  <2> SUFFICES ASSUME NEW g \in 1 .. n + 1 PROVE ChainHolds(g)' OBVIOUS
  <2>1. CASE g = n + 1
    <3>1. commits'[g] = x BY <2>1, <1>2
    <3>2. x.before = IF g = 1 THEN InitialPoint ELSE commits'[g - 1].after
      <4>1. CASE n = 0 BY <4>1, <2>1, <1>1, <1>9
      <4>2. CASE n # 0
        <5>1. n \in 1 .. n /\ g - 1 = n /\ g # 1 BY <4>2, <2>1, <1>n
        <5>2. head = commits[n].after BY <5>1, <1>8 DEF ChainHolds, n
        <5>3. commits'[g - 1] = commits[n] BY <5>1, <1>c
        <5> QED BY <5>1, <5>2, <5>3, <1>1
      <4> QED BY <4>1, <4>2
    <3>3. (OutputStop(commits[g]))' = OutputStop(x) /\ (OutputStart(commits[g]))' = OutputStart(x)
      BY <3>1 DEF OutputStop, OutputStart
    <3>4. x.after.checkpoint.next <= head'.checkpoint.next
          /\ OutputStop(x) <= head'.checkpoint.emitted
      <4>1. head' = x.after BY <1>2
      <4>2. OutputStop(x) = x.after.checkpoint.emitted BY <1>6
      <4>3. x.after.checkpoint.next \in Nat /\ x.after.checkpoint.emitted \in Nat BY <1>7
      <4> QED BY <4>1, <4>2, <4>3
    <3>5. OutputStop(x) - OutputStart(x) <= MaxOutputs
      BY <1>2, <1>3, <1>6, WaveAssumption
    <3> QED BY <2>1, <3>1, <3>2, <3>3, <3>4, <3>5, <1>1, <1>2, <1>3, <1>4 DEF ChainHolds
  <2>2. CASE g \in 1 .. n
    <3>1. commits'[g] = commits[g] /\ ChainHolds(g) BY <2>2, <1>2, <1>8
    <3>2. g # 1 => commits'[g - 1] = commits[g - 1]
      <4>1. g # 1 => g - 1 \in 1 .. n BY <2>2, <1>n
      <4> QED BY <4>1, <1>c
    <3>3. commits[g].after = commits'[g + 1].before
      <4>1. CASE g = n
        <5>1. commits[g].after = head BY <4>1, <3>1 DEF ChainHolds, n
        <5> QED BY <5>1, <4>1, <1>1, <1>2
      <4>2. CASE g # n
        <5>1. g + 1 \in 1 .. n BY <4>2, <2>2, <1>n
        <5>2. commits'[g + 1] = commits[g + 1] BY <5>1, <1>c
        <5> QED BY <5>2, <4>2, <3>1 DEF ChainHolds, n
      <4> QED BY <4>1, <4>2
    <3>4. (OutputStop(commits[g]))' = OutputStop(commits[g])
          /\ (OutputStart(commits[g]))' = OutputStart(commits[g])
      BY <3>1 DEF OutputStop, OutputStart
    <3>5. commits[g].after.checkpoint.next <= head'.checkpoint.next
      <4>1. commits[g].after.checkpoint.next <= head.checkpoint.next BY <3>1 DEF ChainHolds
      <4>2. head.checkpoint.next <= head'.checkpoint.next BY <1>1, <1>2, <1>3
      <4>3. head'.checkpoint.next \in Nat BY <1>2, <1>7
      <4> QED BY <4>1, <4>2, <4>3, <1>7, <2>2
    <3>6. OutputStop(commits[g]) <= head'.checkpoint.emitted
      <4>1. OutputStop(commits[g]) <= head.checkpoint.emitted BY <3>1 DEF ChainHolds
      <4>2. head.checkpoint.emitted <= head'.checkpoint.emitted
        BY <1>2, <1>3, <1>6
      <4>3. head'.checkpoint.emitted \in Nat BY <1>2, <1>7
      <4> QED BY <4>1, <4>2, <4>3, <1>7, <2>2
    <3>7. g # Len(commits') BY <2>2, <1>2
    <3> QED BY <3>1, <3>2, <3>3, <3>4, <3>5, <3>6, <3>7 DEF ChainHolds
  <2> QED BY <2>1, <2>2, <1>2
<1>11. LatestAdmitted'
  <2>1. Len(commits') = head'.generation BY <1>2, <1>4
  <2>2. Len(outputs') = head'.checkpoint.emitted BY <1>2, <1>3, <1>6
  <2>3. (Retained <= StoreBudget)'
    <3>1. Retained' = Len(commits') + Len(outputs') BY DEF Retained
    <3>2. Len(commits') = n + 1 /\ Len(outputs') = m + Len(rows) BY <1>2
    <3>3. n + m + Len(rows) + 1 <= StoreBudget BY <1>1, <1>2
    <3>4. n \in Nat /\ m \in Nat /\ Len(rows) \in Nat BY <1>2, <1>3
    <3>5. Len(commits') + Len(outputs') <= StoreBudget
      <4> HIDE DEF n, m, rows
      <4> QED BY <3>2, <3>3, <3>4, JournalAssumption
    <3> QED BY <3>1, <3>5
  <2>4. (PointAdmitted(head))' /\ (CheckpointAdmitted(head.checkpoint))'
    BY <1>2, <1>4
  <2>5. head'.generation # 0 /\ head'.generation \in 1 .. n + 1 BY <1>2, <1>4
  <2>6. \A g \in 1 .. n + 1 : g = head'.generation => (ChainHolds(head.generation))'
    BY <1>10
  <2> QED BY <2>1, <2>2, <2>3, <2>4, <2>5, <2>6 DEF LatestAdmitted
<1>12. JournalAdmitted' BY <1>5, <1>10, <1>11 DEF JournalAdmitted
<1>13. PublishedOnce'
  <2>1. \A g \in 1 .. n : commits[g].request.id # x.request.id
    BY <1>1, <1>5 DEF HasReceipt
  <2>2. \A g, h \in 1 .. n : commits[g].request.id = commits[h].request.id => g = h
    BY <1>5 DEF IInv, JournalInv, PublishedOnce
  <2>3. \A g, h \in 1 .. n + 1 : commits'[g].request.id = commits'[h].request.id => g = h
    BY <2>1, <2>2, <1>c, <1>g
  <2> QED BY <2>3, <1>5 DEF PublishedOnce
<1>14. AllComputed'
  <2>1. \A g \in 1 .. n : Computed(commits[g]) BY <1>5 DEF IInv, JournalInv, AllComputed
  <2>2. \A g \in 1 .. n + 1 : Computed(commits'[g]) BY <2>1, <1>1, <1>c, <1>g
  <2>3. \A g \in 1 .. n + 1 : Computed(commits[g])'
    BY <2>2 DEF Computed, BatchOf
  <2> QED BY <2>3, <1>5 DEF AllComputed
<1>15. OutputsLieInReceipts'
  <2> SUFFICES ASSUME NEW i \in 1 .. m + Len(rows)
               PROVE  LET row == outputs'[i]
                          receipt == commits'[row.generation]
                      IN /\ row.generation \in 1 .. n + 1
                         /\ receipt.request.cause = "wave"
                         /\ OutputStart(receipt) < i /\ i <= OutputStop(receipt)
                         /\ receipt.before.checkpoint.next <= row.output.position
                         /\ row.output.position < receipt.after.checkpoint.next
                         /\ i = OutputStart(receipt) + 1 => row.output.ordinal = 0
    BY <1>5 DEF OutputsLieInReceipts, OutputStart, OutputStop
  <2>1. CASE i \in 1 .. m
    <3>1. outputs'[i] = outputs[i] BY <2>1, <1>2
    <3>2. outputs[i].generation \in 1 .. n
      BY <2>1, <1>5 DEF IInv, JournalInv, OutputsLieInReceipts
    <3>3. commits'[outputs[i].generation] = commits[outputs[i].generation]
      BY <3>2, <1>2
    <3>4. LET row == outputs[i]
              receipt == commits[row.generation]
          IN /\ receipt.request.cause = "wave"
             /\ OutputStart(receipt) < i /\ i <= OutputStop(receipt)
             /\ receipt.before.checkpoint.next <= row.output.position
             /\ row.output.position < receipt.after.checkpoint.next
             /\ i = OutputStart(receipt) + 1 => row.output.ordinal = 0
      BY <2>1, <1>5 DEF IInv, JournalInv, OutputsLieInReceipts
    <3>5. outputs[i].generation \in 1 .. n + 1 BY <3>2, <1>2
    <3> QED BY <3>1, <3>3, <3>4, <3>5
  <2>2. CASE i \in m + 1 .. m + Len(rows)
    <3>0. i - m \in 1 .. Len(rows) /\ (i = m + 1 => i - m = 1) BY <2>2, <1>n
    <3>1. outputs'[i] = rows[i - m] BY <2>2, <1>o
    <3>2. /\ x.request.cause = "wave"
          /\ rows[i - m].generation = n + 1
          /\ x.before.checkpoint.next <= rows[i - m].output.position
          /\ rows[i - m].output.position < x.after.checkpoint.next
          /\ i = m + 1 => rows[i - m].output.ordinal = 0
      <4>1. x.after.generation = n + 1 BY <1>4
      <4> QED BY <3>0, <4>1, <1>3
    <3>3. commits'[n + 1] = x BY <1>2
    <3>4. OutputStart(x) < i /\ i <= OutputStop(x) BY <2>2, <1>2, <1>3, <1>6
    <3>5. n + 1 \in 1 .. n + 1 BY <1>2
    <3> QED BY <3>1, <3>2, <3>3, <3>4, <3>5, <1>6
  <2> QED BY <2>1, <2>2, <1>2, <1>3
<1> QED BY <1>12, <1>13, <1>14, <1>15 DEF JournalInv

-----------------------------------------------------------------------------
(***************************************************************************)
(* What every session relies on survives the steps of the others.          *)
(***************************************************************************)

\* A step that leaves the tables alone keeps the journal admitted.
LEMMA JournalStutter ==
    ASSUME JournalInv, UNCHANGED durable
    PROVE  JournalInv'
<1>1. head' = head /\ commits' = commits /\ outputs' = outputs BY DEF durable
<1>2. LatestAdmitted' <=> LatestAdmitted
  BY <1>1 DEF LatestAdmitted, Retained, ChainHolds, PointAdmitted, CheckpointAdmitted
<1>3. (\A g \in DOMAIN commits : ChainHolds(g))' <=> \A g \in DOMAIN commits : ChainHolds(g)
  BY <1>1 DEF ChainHolds
<1>4. AllComputed' <=> AllComputed
  BY <1>1 DEF AllComputed
<1> QED
  BY <1>1, <1>2, <1>3, <1>4
     DEF JournalInv, JournalAdmitted, PublishedOnce, OutputsLieInReceipts

\* The snapshot, plan and admission of a session depend on its own variables,
\* on the database and on its hold of the RESERVED lock.
LEMMA SessionStutter ==
    ASSUME NEW t \in Session, UNCHANGED durable,
           pc'[t] = pc[t], request'[t] = request[t], before'[t] = before[t],
           plan'[t] = plan[t],
           pc[t] \in {"written", "commit"} => cancelled'[t] = cancelled[t],
           writer = t => writer' = t,
           SnapshotInv(t), PlanInv(t), AdmittedInv(t)
    PROVE  SnapshotInv(t)' /\ PlanInv(t)' /\ AdmittedInv(t)'
<1>1. head' = head /\ commits' = commits /\ outputs' = outputs BY DEF durable
<1>2. SnapshotInv(t)' BY <1>1 DEF SnapshotInv, PointAt
<1>3. PlanInv(t)'
  <2>1. Changed(t)' <=> Changed(t) BY DEF Changed
  <2> QED BY <2>1 DEF PlanInv
<1>4. AdmittedInv(t)'
  <2>1. Changed(t)' <=> Changed(t) BY DEF Changed
  <2>2. HasReceipt(request[t].id)' <=> HasReceipt(request[t].id) BY <1>1 DEF HasReceipt
  <2> QED BY <1>1, <2>1, <2>2 DEF AdmittedInv
<1> QED BY <1>2, <1>3, <1>4

\* A publication of one session keeps what the others hold: their
\* snapshots are older, and none of them has been admitted.
LEMMA OthersKept ==
    ASSUME IInv, NEW s \in Session, NEW t \in Session, t # s, SessionNext(s)
    PROVE  SnapshotInv(t)' /\ PlanInv(t)' /\ AdmittedInv(t)'
<1>1. /\ pc'[t] = pc[t] /\ cancelled'[t] = cancelled[t]
      /\ request'[t] = request[t] /\ before'[t] = before[t]
      /\ plan'[t] = plan[t]
      /\ writer = t => writer' = t
  BY FrameOthers DEF IInv
<1>2. SnapshotInv(t) /\ PlanInv(t) /\ AdmittedInv(t) BY DEF IInv, SessionInv
<1>3. CASE UNCHANGED durable BY <1>1, <1>2, <1>3, SessionStutter
<1>4. CASE pc[s] = "commit" /\ Changed(s) /\ Install(s)
  <2> DEFINE x == plan[s].receipt
             n == Len(commits)
             b == before[t].point
  <2>1. x.before = head /\ ~ head.checkpoint.closed /\ x \in Receipts /\ Computed(x)
    BY <1>4, CommitFacts
  <2>2. /\ n \in Nat /\ n = head.generation
        /\ head' = x.after /\ Len(commits') = n + 1 /\ commits'[n + 1] = x
        /\ \A g \in 1 .. n : commits'[g] = commits[g]
    BY <1>4, InstallFacts
  <2>3. x.after.generation = n + 1 BY <2>1, <2>2 DEF Computed
  <2>4. writer = s BY <1>4 DEF IInv, SessionInv, AdmittedInv
  <2>5. pc[t] \notin {"written", "commit"}
    <3> SUFFICES ASSUME pc[t] \in {"written", "commit"} PROVE FALSE OBVIOUS
    <3>1. ~ Changed(t) BY <1>2, <2>4 DEF AdmittedInv
    <3>2. plan[t].receipt.before.checkpoint.closed /\ plan[t].receipt.before = before[t].point
      BY <1>2, <3>1 DEF PlanInv
    <3>3. before[t].point = head BY <1>2 DEF AdmittedInv
    <3> QED BY <2>1, <3>2, <3>3
  <2>6. AdmittedInv(t)' BY <1>1, <2>5 DEF AdmittedInv
  <2>7. PlanInv(t)'
    <3>1. Changed(t)' <=> Changed(t) BY <1>1 DEF Changed
    <3> QED BY <1>1, <1>2, <3>1 DEF PlanInv
  <2>8. SnapshotInv(t)'
    <3> SUFFICES ASSUME pc[t] \in {"execute", "hung", "plan", "staged", "begin",
                                   "written", "commit"}
                 PROVE  SnapshotInv(t)'
      BY <1>1 DEF SnapshotInv
    <3>1. b.generation \in Nat /\ b.generation <= n /\ b = PointAt(b.generation)
      <4>1. before[t] \in Snapshot BY DEF IInv, TypeOK
      <4>2. b \in Point BY <4>1 DEF Snapshot
      <4> QED BY <4>2, <1>2, <2>2, PointFacts DEF SnapshotInv
    <3> HIDE DEF b, n, x
    <3>2. PointAt(b.generation)' = b
      <4>0. PointAt(b.generation)' =
               IF b'.generation = n + 1 THEN head' ELSE commits'[b'.generation + 1].before
        BY <2>2 DEF PointAt
      <4>1. b' = b BY <1>1 DEF b
      <4>2. CASE b.generation = n
        <5>1. b = head BY <4>2, <3>1 DEF PointAt, n
        <5>2. commits'[b.generation + 1].before = head BY <4>2, <2>1, <2>2
        <5> QED BY <4>0, <4>1, <4>2, <5>1, <5>2, <3>1
      <4>3. CASE b.generation # n
        <5>1. b.generation + 1 \in 1 .. n /\ b.generation # n + 1 BY <4>3, <3>1, <2>2
        <5>2. b = commits[b.generation + 1].before BY <4>3, <3>1 DEF PointAt, n
        <5>3. commits'[b.generation + 1] = commits[b.generation + 1] BY <5>1, <2>2
        <5> QED BY <4>0, <4>1, <5>1, <5>2, <5>3
      <4> QED BY <4>2, <4>3
    <3>3. b.generation <= head'.generation BY <3>1, <2>2, <2>3
    <3>4. b' = b BY <1>1 DEF b
    <3> QED BY <3>2, <3>3, <3>4, <1>1, <1>2 DEF SnapshotInv, b
  <2> QED BY <2>6, <2>7, <2>8
<1> QED BY <1>3, <1>4, FrameDurable

-----------------------------------------------------------------------------
(***************************************************************************)
(* What a session relies on is established by its own steps.               *)
(***************************************************************************)

\* A session outside apply, or about to look up, relies on nothing.
LEMMA NothingHeld ==
    ASSUME NEW s \in Session, pc[s] \in {"idle", "lookup"}
    PROVE  SnapshotInv(s) /\ PlanInv(s) /\ AdmittedInv(s)
  BY DEF SnapshotInv, PlanInv, AdmittedInv

\* Staging builds the plan the invariant describes.
LEMMA StageEstablishes ==
    ASSUME IInv, NEW s \in Session, UNCHANGED durable,
           NEW cp, NEW rows, Stage(s, cp, rows),
           \/ /\ pc[s] = "execute"
              /\ cp = CandidateBatch(before[s].point.checkpoint, request[s].start,
                                     request[s].records).checkpoint
              /\ rows = CandidateBatch(before[s].point.checkpoint, request[s].start,
                                       request[s].records).outputs
              /\ BatchAdmitted(before[s].point.checkpoint, request[s].start,
                     request[s].records,
                     CandidateBatch(before[s].point.checkpoint, request[s].start,
                                    request[s].records))
           \/ /\ pc[s] = "plan"
              /\ cp = [before[s].point.checkpoint EXCEPT !.closed = TRUE]
              /\ rows = <<>>
    PROVE  SnapshotInv(s)' /\ PlanInv(s)' /\ AdmittedInv(s)'
<1> DEFINE b == before[s].point
           r == request[s]
           batch == CandidateBatch(b.checkpoint, r.start, r.records)
           a == NextPoint(b, cp)
           x == Receipt(r, b, a)
<1>1. b \in Point /\ r \in Request
  <2>1. before[s] \in Snapshot /\ request[s] \in Submitted BY DEF IInv, TypeOK
  <2> QED BY <2>1, JournalAssumption DEF Snapshot
<1>2. SnapshotInv(s) BY DEF IInv, SessionInv
<1>3. /\ r.journal = ThisJournal /\ r.expected = b.generation /\ r.start = b.checkpoint.next
      /\ CheckpointAdmitted(b.checkpoint)
      /\ r.cause = "wave" => ~ b.checkpoint.closed
      /\ pc[s] = "execute" => r.cause = "wave"
      /\ pc[s] = "plan" => r.cause = "eof"
  BY <1>2 DEF SnapshotInv
<1>4. CASE ~ (PointAdmitted(a) /\ FitsStore(before[s], x, rows))
  <2>1. Return(s, "invalid", None) BY <1>4 DEF Stage
  <2>2. pc'[s] = "idle" BY <2>1 DEF Return, Answer, IInv, TypeOK
  <2> QED BY <2>2 DEF SnapshotInv, PlanInv, AdmittedInv
<1>5. CASE PointAdmitted(a) /\ FitsStore(before[s], x, rows)
  <2>1. /\ plan' = [plan EXCEPT ![s] = [receipt |-> x, rows |-> Tagged(a.generation, rows)]]
        /\ pc' = [pc EXCEPT ![s] = "staged"]
        /\ UNCHANGED <<writer, phase, cancelled, request, before, answer>>
    BY <1>5 DEF Stage
  <2>2. /\ plan'[s].receipt = x /\ plan'[s].rows = Tagged(a.generation, rows)
        /\ pc'[s] = "staged" /\ request'[s] = r /\ before'[s] = before[s]
    BY <2>1 DEF IInv, TypeOK
  <2>3. SnapshotInv(s)'
    BY <1>2, <2>2 DEF SnapshotInv, durable, PointAt
  <2>4. AdmittedInv(s)' BY <2>2 DEF AdmittedInv
  <2>5. x.request = r /\ x.before = b /\ x.after = a /\ (x.status = "committed" <=> a # b)
    BY DEF Receipt
  <2>6. cp # b.checkpoint => a # b /\ a.generation = b.generation + 1
    BY DEF NextPoint
  <2>7. a.checkpoint = cp BY DEF NextPoint
  <2>8. cp = b.checkpoint => a = b
    <3>1. b = [generation |-> b.generation, checkpoint |-> b.checkpoint]
      BY <1>1 DEF Point
    <3> QED BY <3>1 DEF NextPoint
  <2>9. Changed(s)' <=> cp # b.checkpoint
    <3> HIDE DEF x, a
    <3> QED BY <2>2, <2>5, <2>6, <2>8 DEF Changed
  <2> HIDE DEF x, a
  <2>10. CASE pc[s] = "execute"
    <3>1. BatchAdmitted(b.checkpoint, r.start, r.records, batch)
          /\ cp = batch.checkpoint /\ rows = batch.outputs
      BY <2>10
    <3>2. r.cause = "wave" /\ r.start \in Nat /\ Len(r.records) \in Nat /\ Len(r.records) > 0
      BY <1>1, <1>3, <2>10, RequestFacts
    <3>3. cp.next = r.start + Len(r.records) /\ CheckpointAdmitted(cp)
      <4> HIDE DEF batch
      <4> QED BY <3>1, <3>2, BatchFacts
    <3>4. cp # b.checkpoint BY <3>2, <3>3, <1>3
    <3>5. BatchOf(x) = batch BY <2>5 DEF BatchOf
    <3>6. Computed(x) /\ RowsPlanned(x) = Tagged(a.generation, rows)
      <4> HIDE DEF batch
      <4>1. RowsPlanned(x) = Tagged(a.generation, rows)
        BY <3>1, <3>2, <3>5, <2>5 DEF RowsPlanned
      <4>2. Computed(x)
        BY <3>1, <3>2, <3>3, <3>4, <3>5, <2>5, <2>6, <2>7, <1>3, <1>5 DEF Computed
      <4> QED BY <4>1, <4>2
    <3>7. FitsStore(before[s], x, Tagged(a.generation, rows))
      <4>1. rows \in Seq(Row) /\ a.generation \in Nat
        <5>1. rows \in Seq(Row) BY <3>1 DEF BatchAdmitted
        <5>2. b.generation \in Nat BY <1>1, PointFacts
        <5> QED BY <5>1, <5>2, <2>6, <3>4
      <4>2. Len(Tagged(a.generation, rows)) = Len(rows) BY <4>1, TaggedFacts
      <4> QED BY <1>5, <4>2 DEF FitsStore
    <3>8. PlanInv(s)'
      <4> HIDE DEF b, r
      <4>1. /\ Computed(plan'[s].receipt)
            /\ plan'[s].rows = RowsPlanned(plan'[s].receipt)
            /\ FitsStore(before'[s], plan'[s].receipt, plan'[s].rows)
        BY <2>2, <3>6, <3>7
      <4>2. Changed(s)' BY <2>9, <3>4
      <4>3. plan'[s].receipt.request = request'[s] /\ plan'[s].receipt.before = before'[s].point
        BY <2>2, <2>5 DEF b
      <4> QED BY <4>1, <4>2, <4>3 DEF PlanInv
    <3> QED BY <2>3, <2>4, <3>8
  <2>11. CASE pc[s] = "plan"
    <3>1. cp = [b.checkpoint EXCEPT !.closed = TRUE] /\ rows = <<>> /\ r.cause = "eof"
      BY <2>11, <1>3
    <3>2. b.checkpoint \in Checkpoint BY <1>1, PointFacts
    <3>3. CheckpointAdmitted(cp) /\ (b.checkpoint.closed <=> cp = b.checkpoint)
      BY <3>1, <3>2, <1>3, ClosedFacts
    <3>4. Tagged(a.generation, rows) = <<>> BY <3>1 DEF Tagged
    <3>5. plan'[s].receipt.request = request'[s] /\ plan'[s].receipt.before = before'[s].point
      BY <2>2, <2>5
    <3>6. CASE cp = b.checkpoint
      <4>1. ~ Changed(s)' BY <2>9, <3>6
      <4>2. request'[s].cause = "eof" /\ plan'[s].receipt.before.checkpoint.closed
        BY <2>2, <2>5, <3>1, <3>3, <3>6
      <4> QED BY <2>3, <2>4, <3>5, <4>1, <4>2 DEF PlanInv
    <3>7. CASE cp # b.checkpoint
      <4>1. Computed(x)
        BY <3>1, <3>3, <3>7, <2>5, <2>6, <2>7, <1>3, <1>5 DEF Computed
      <4>2. RowsPlanned(x) = Tagged(a.generation, rows)
        BY <3>1, <3>4, <2>5 DEF RowsPlanned
      <4>3. FitsStore(before[s], x, Tagged(a.generation, rows)) BY <1>5, <3>1, <3>4
      <4>4. /\ Computed(plan'[s].receipt)
            /\ plan'[s].rows = RowsPlanned(plan'[s].receipt)
            /\ FitsStore(before'[s], plan'[s].receipt, plan'[s].rows)
        <5> HIDE DEF b, r
        <5> QED BY <2>2, <4>1, <4>2, <4>3
      <4>5. Changed(s)' BY <2>9, <3>7
      <4> QED BY <2>3, <2>4, <3>5, <4>4, <4>5 DEF PlanInv
    <3> QED BY <3>6, <3>7
  <2> QED BY <2>3, <2>4, <2>10, <2>11
<1> QED BY <1>4, <1>5

\* A step of a session before its COMMIT keeps, or establishes, what that
\* session's own snapshot, plan and admission mean.
LEMMA OwnKept ==
    ASSUME IInv, NEW s \in Session, SessionNext(s), UNCHANGED durable
    PROVE  SnapshotInv(s)' /\ PlanInv(s)' /\ AdmittedInv(s)'
<1> DEFINE Held == SnapshotInv(s)' /\ PlanInv(s)' /\ AdmittedInv(s)'
<1>1. SnapshotInv(s) /\ PlanInv(s) /\ AdmittedInv(s) BY DEF IInv, SessionInv
<1>2. TypeOK BY DEF IInv
<1>3. pc'[s] \in {"idle", "lookup"} => Held
  BY DEF SnapshotInv, PlanInv, AdmittedInv
<1>4. ASSUME NEW kind, NEW receipt, Answer(s, kind, receipt) PROVE Held
  BY <1>2, <1>3, <1>4 DEF Answer, TypeOK
<1>5. ASSUME NEW kind, NEW receipt, Return(s, kind, receipt) PROVE Held
  BY <1>4, <1>5 DEF Return
<1>6. ASSUME NEW kind, Settle(s, kind) PROVE Held BY <1>4, <1>6 DEF Settle
<1>7. CASE \E r \in Submitted : Apply(s, r)
  BY <1>2, <1>3, <1>7 DEF Apply, TypeOK
<1>8. CASE Fail(s) BY <1>6, <1>8 DEF Fail
<1>9. CASE SqlFails(s) BY <1>5, <1>9 DEF SqlFails
<1>10. CASE Lookup(s)
  <2> DEFINE r == request[s]
             next == IF r.cause = "eof" THEN {"plan"} ELSE {"execute", "hung"}
  <2>1. CASE AnswerExisting(s) BY <2>1, <1>5 DEF AnswerExisting
  <2>2. CASE \E kind : Return(s, kind, None) BY <2>2, <1>5
  <2>3. CASE /\ r.journal = ThisJournal
             /\ RefusedBySnapshot(r) = "no"
             /\ before' = [before EXCEPT ![s] = [point |-> head, retained |-> Retained]]
             /\ \E p \in next : pc' = [pc EXCEPT ![s] = p]
             /\ UNCHANGED <<writer, phase, cancelled, request, plan, answer>>
    <3>1. before'[s].point = head /\ before'[s].retained = Retained /\ request'[s] = r
      BY <2>3, <1>2 DEF TypeOK
    <3>2. pc'[s] \in {"execute", "hung", "plan"}
          /\ (pc'[s] = "execute" => r.cause # "eof")
          /\ (pc'[s] = "plan" => r.cause = "eof")
      <4>1. PICK p \in next : pc' = [pc EXCEPT ![s] = p] BY <2>3
      <4>2. pc'[s] = p BY <4>1, <1>2 DEF TypeOK
      <4> QED BY <4>1, <4>2
    <3>3. r.expected = head.generation /\ r.start = head.checkpoint.next
          /\ (r.cause = "wave" => ~ head.checkpoint.closed)
      BY <2>3 DEF RefusedBySnapshot
    <3>4. /\ Len(commits) = head.generation /\ Len(outputs) = head.checkpoint.emitted
          /\ CheckpointAdmitted(head.checkpoint)
      BY DEF IInv, JournalInv, JournalAdmitted, LatestAdmitted
    <3>5. r.cause \in {"wave", "eof"} /\ head.generation \in Nat
      <4>1. r \in Request
        BY <1>2, <1>10, JournalAssumption DEF TypeOK, Lookup
      <4> QED BY <4>1, RequestFacts, PointFacts, <1>2 DEF TypeOK
    <3>6. head' = head /\ commits' = commits BY DEF durable
    <3>7. SnapshotInv(s)'
      BY <2>3, <3>1, <3>2, <3>3, <3>4, <3>5, <3>6 DEF SnapshotInv, PointAt, Retained
    <3>8. PlanInv(s)' /\ AdmittedInv(s)' BY <3>2 DEF PlanInv, AdmittedInv
    <3> QED BY <3>7, <3>8
  <2> QED BY <1>10, <2>1, <2>2, <2>3 DEF Lookup
<1>11. CASE Execute(s)
  <2>1. CASE Settle(s, "worker") BY <2>1, <1>6
  <2> QED BY <1>11, <2>1, StageEstablishes DEF Execute
<1>12. CASE StageEof(s) BY <1>12, StageEstablishes DEF StageEof
<1>13. CASE Begin(s)
  <2>1. /\ pc[s] = "staged" /\ pc'[s] = "begin" /\ request' = request /\ before' = before
        /\ plan' = plan
    BY <1>2, <1>13 DEF Begin, TypeOK
  <2>2. SnapshotInv(s)' BY <1>1, <2>1 DEF SnapshotInv, durable, PointAt
  <2>3. PlanInv(s)' BY <1>1, <2>1 DEF PlanInv, Changed
  <2>4. AdmittedInv(s)' BY <2>1 DEF AdmittedInv
  <2> QED BY <2>2, <2>3, <2>4
<1>14. CASE Admit(s)
  <2>1. CASE AnswerExisting(s) BY <2>1, <1>5 DEF AnswerExisting
  <2>2. CASE Return(s, "conflict", None) BY <2>2, <1>5
  <2>3. CASE /\ pc[s] = "begin"
             /\ ~ HasReceipt(request[s].id)
             /\ head = before[s].point
             /\ ~ cancelled[s]
             /\ writer' = IF Changed(s) THEN s ELSE writer
             /\ pc' = [pc EXCEPT ![s] = "written"]
             /\ UNCHANGED <<phase, cancelled, request, before, plan, answer>>
    <3>1. pc'[s] = "written" BY <1>2, <2>3 DEF TypeOK
    <3>2. SnapshotInv(s)' BY <1>1, <2>3, <3>1 DEF SnapshotInv, durable, PointAt
    <3>3. PlanInv(s)' BY <1>1, <2>3, <3>1 DEF PlanInv, Changed
    <3>4. AdmittedInv(s)' BY <2>3, <3>1 DEF AdmittedInv, Changed, HasReceipt, durable
    <3> QED BY <3>2, <3>3, <3>4
  <2> QED BY <1>14, <2>1, <2>2, <2>3 DEF Admit
<1>15. CASE FinalCheck(s)
  <2>1. /\ pc[s] = "written" /\ pc'[s] = "commit" /\ request' = request /\ before' = before
        /\ plan' = plan /\ writer' = writer /\ cancelled' = cancelled
    BY <1>2, <1>15 DEF FinalCheck, TypeOK
  <2>2. SnapshotInv(s)' BY <1>1, <2>1 DEF SnapshotInv, durable, PointAt
  <2>3. PlanInv(s)' BY <1>1, <2>1 DEF PlanInv, Changed
  <2>4. AdmittedInv(s)' BY <1>1, <2>1 DEF AdmittedInv, Changed, HasReceipt, durable
  <2> QED BY <2>2, <2>3, <2>4
<1>16. CASE Commit(s) BY <1>5, <1>6, <1>16 DEF Commit
<1>17. CASE Cancel(s)
  <2>1. pc[s] \notin {"written", "commit"} BY <1>17 DEF Cancel, Publishing
  <2> QED BY <1>1, <1>17, <2>1, SessionStutter DEF Cancel
<1>18. CASE Close(s) BY <1>1, <1>18, SessionStutter DEF Close
<1>19. CASE Crash(s) BY <1>4, <1>19 DEF Crash
<1>20. CASE Reopen(s)
  <2>1. /\ pc' = pc /\ request' = request /\ before' = before /\ plan' = plan
        /\ writer' = writer /\ head' = head /\ commits' = commits
        /\ ~ cancelled'[s]
    BY <1>2, <1>20 DEF Reopen, TypeOK
  <2>2. SnapshotInv(s)' BY <1>1, <2>1 DEF SnapshotInv, PointAt
  <2>3. PlanInv(s)' BY <1>1, <2>1 DEF PlanInv, Changed
  <2>4. AdmittedInv(s)' BY <1>1, <2>1 DEF AdmittedInv, Changed, HasReceipt
  <2> QED BY <2>2, <2>3, <2>4
<1> QED
  BY <1>7, <1>8, <1>9, <1>10, <1>11, <1>12, <1>13, <1>14, <1>15, <1>16, <1>17, <1>18,
     <1>19, <1>20 DEF SessionNext, Step

-----------------------------------------------------------------------------
(***************************************************************************)
(* The inductive invariant.                                                *)
(***************************************************************************)

\* The inductive invariant holds initially.
LEMMA InvInit == Init => IInv
<1> SUFFICES ASSUME Init PROVE IInv OBVIOUS
<1>1. TypeOK BY TypeInit
<1>2. head = InitialPoint /\ commits = <<>> /\ outputs = <<>> /\ DOMAIN commits = {}
      /\ DOMAIN outputs = {} /\ Len(commits) = 0 /\ Len(outputs) = 0
  BY DEF Init
<1>3. PointAdmitted(head)
  BY <1>2, JournalAssumption DEF PointAdmitted, InitialPoint, InitialCheckpoint
<1>4. LatestAdmitted
  BY <1>2, <1>3, InitialCheckpointAdmitted, JournalAssumption
     DEF LatestAdmitted, Retained, InitialPoint, InitialCheckpoint
<1>5. JournalInv
  BY <1>2, <1>4
     DEF JournalInv, JournalAdmitted, PublishedOnce, OutputsLieInReceipts, AllComputed
<1>6. SessionInv BY NothingHeld DEF Init, SessionInv
<1> QED BY <1>1, <1>5, <1>6 DEF IInv

\* Every step keeps the inductive invariant.
LEMMA InvStep ==
    ASSUME IInv, NEW s \in Session, SessionNext(s)
    PROVE  IInv'
<1>1. TypeOK' BY TypeStep DEF IInv
<1>2. JournalInv'
  BY InstallPreserves, JournalStutter, FrameDurable DEF IInv
<1>3. SnapshotInv(s)' /\ PlanInv(s)' /\ AdmittedInv(s)'
  <2>1. CASE UNCHANGED durable BY <2>1, OwnKept
  <2>2. CASE Commit(s) \/ Crash(s)
    <3>1. pc'[s] = "idle"
      BY <2>2 DEF Commit, Crash, Return, Settle, Answer, IInv, TypeOK
    <3> QED BY <3>1 DEF SnapshotInv, PlanInv, AdmittedInv
  <2> QED BY <2>1, <2>2, FrameDurable
<1>4. \A t \in Session \ {s} : SnapshotInv(t)' /\ PlanInv(t)' /\ AdmittedInv(t)'
  BY OthersKept
<1>5. SessionInv' BY <1>3, <1>4 DEF SessionInv
<1> QED BY <1>1, <1>2, <1>5 DEF IInv

\* A stuttering step keeps the inductive invariant.
LEMMA InvStutter == IInv /\ UNCHANGED vars => IInv'
<1> SUFFICES ASSUME IInv, UNCHANGED vars PROVE IInv' OBVIOUS
<1>1. UNCHANGED durable BY DEF vars, durable
<1>2. TypeOK' BY TypeStutter DEF IInv
<1>3. JournalInv' BY <1>1, JournalStutter DEF IInv
<1>4. \A t \in Session : SnapshotInv(t)' /\ PlanInv(t)' /\ AdmittedInv(t)'
  BY <1>1, SessionStutter DEF vars, IInv, SessionInv
<1>5. SessionInv' BY <1>4 DEF SessionInv
<1> QED BY <1>2, <1>3, <1>5 DEF IInv

\* The inductive invariant of the journal holds in every reachable state:
\* apply's snapshot outside the transaction and its comparison inside it are
\* enough to keep the three tables of the database consistent.
THEOREM Invariance == Spec => []IInv
<1>1. IInv /\ [Next]_vars => IInv' BY InvStep, InvStutter DEF Next
<1> QED BY <1>1, InvInit, PTL DEF Spec

-----------------------------------------------------------------------------
(***************************************************************************)
(* The safety invariants.                                                  *)
(***************************************************************************)

(***************************************************************************)
(* The journal never rejects itself: the stored head, every receipt and    *)
(* the chain between them pass the admission of _latest and _chain in      *)
(* every reachable state.                                                  *)
(***************************************************************************)
THEOREM JournalAlwaysAdmitted == Spec => []JournalAdmitted
<1>1. IInv => JournalAdmitted BY DEF IInv, JournalInv
<1> QED BY <1>1, Invariance, PTL

(***************************************************************************)
(* A request identifier is published at most once, however many sessions   *)
(* retry it and whatever commits reported.                                 *)
(***************************************************************************)
THEOREM RequestsPublishedOnce == Spec => []PublishedOnce
<1>1. IInv => PublishedOnce BY DEF IInv, JournalInv
<1> QED BY <1>1, Invariance, PTL

(***************************************************************************)
(* The inserts of a publication never meet an existing generation, output  *)
(* sequence or request identifier.                                         *)
(***************************************************************************)
THEOREM InsertsNeverCollide == Spec => []InsertsAreNew
<1>1. IInv => InsertsAreNew
  <2> SUFFICES ASSUME IInv, NEW s \in Session, pc[s] \in {"written", "commit"}, Changed(s)
               PROVE  /\ writer = s
                      /\ ~ HasReceipt(request[s].id)
                      /\ plan[s].receipt.after.generation = Len(commits) + 1
                      /\ OutputStart(plan[s].receipt) = Len(outputs)
    BY DEF InsertsAreNew
  <2>1. PlanInv(s) /\ AdmittedInv(s) BY DEF IInv, SessionInv
  <2>2. writer = s /\ ~ HasReceipt(request[s].id) /\ head = before[s].point
    BY <2>1 DEF AdmittedInv
  <2>3. Computed(plan[s].receipt) /\ plan[s].receipt.before = head
    BY <2>1, <2>2 DEF PlanInv
  <2>4. Len(commits) = head.generation /\ Len(outputs) = head.checkpoint.emitted
    BY DEF IInv, JournalInv, JournalAdmitted, LatestAdmitted
  <2> QED BY <2>2, <2>3, <2>4 DEF Computed, OutputStart
<1> QED BY <1>1, Invariance, PTL

(***************************************************************************)
(* Every stored output row lies in the output range and the source range   *)
(* of the receipt of its generation.                                       *)
(***************************************************************************)
THEOREM OutputsAlwaysInReceipts == Spec => []OutputsLieInReceipts
<1>1. IInv => OutputsLieInReceipts BY DEF IInv, JournalInv
<1> QED BY <1>1, Invariance, PTL

(***************************************************************************)
(* The journal stays sound, for any sessions, requests, workers and        *)
(* bounds: what the runs check of it on a small instance.                  *)
(***************************************************************************)
THEOREM JournalStaysSound == Spec => []JournalSound
<1> QED
  BY JournalAlwaysAdmitted, RequestsPublishedOnce, InsertsNeverCollide, OutputsAlwaysInReceipts,
     PTL DEF JournalSound

-----------------------------------------------------------------------------
(***************************************************************************)
(* The action properties.                                                  *)
(***************************************************************************)

\* A sequence is a prefix of itself.
LEMMA PrefixRefl == ASSUME NEW S, NEW u \in Seq(S) PROVE IsPrefix(u, u)
  BY LenProperties DEF IsPrefix

\* A sequence is a prefix of what it is extended to.
LEMMA PrefixExtended ==
    ASSUME NEW S, NEW u \in Seq(S), NEW v \in Seq(S), Len(u) <= Len(v),
           \A i \in 1 .. Len(u) : v[i] = u[i]
    PROVE  IsPrefix(u, v)
<1>1. Len(u) \in Nat /\ Len(v) \in Nat BY LenProperties
<1>2. \A i \in 1 .. Len(u) : u[i] \in S /\ v[i] \in S BY <1>1, ElementOfSeq
<1>3. /\ SubSeq(u, 1, Len(u)) \in Seq(S) /\ SubSeq(v, 1, Len(u)) \in Seq(S)
      /\ Len(SubSeq(u, 1, Len(u))) = IF 1 <= Len(u) THEN Len(u) - 1 + 1 ELSE 0
      /\ Len(SubSeq(v, 1, Len(u))) = IF 1 <= Len(u) THEN Len(u) - 1 + 1 ELSE 0
      /\ \A i \in 1 .. Len(u) - 1 + 1 : SubSeq(u, 1, Len(u))[i] = u[1 + i - 1]
      /\ \A i \in 1 .. Len(u) - 1 + 1 : SubSeq(v, 1, Len(u))[i] = v[1 + i - 1]
  BY <1>1, <1>2, SubSeqProperties
<1>4. \A i \in 1 .. Len(u) : SubSeq(u, 1, Len(u))[i] = SubSeq(v, 1, Len(u))[i]
  BY <1>1, <1>3
<1>5. Len(SubSeq(u, 1, Len(u))) = Len(u) /\ Len(SubSeq(v, 1, Len(u))) = Len(u)
  BY <1>1, <1>3
<1>6. SubSeq(u, 1, Len(u)) = SubSeq(v, 1, Len(u))
  BY <1>3, <1>4, <1>5, SeqEqual
<1> QED BY <1>6 DEF IsPrefix

(***************************************************************************)
(* Receipts and output rows are only appended, and nothing is after EOF.   *)
(***************************************************************************)
THEOREM HistoryAlwaysKept == Spec => HistoryIsKept
<1>1. IInv /\ [Next]_vars => [KeepsHistory]_vars
  <2> SUFFICES ASSUME IInv, NEW s \in Session, SessionNext(s) PROVE KeepsHistory
    BY DEF Next
  <2>1. CASE UNCHANGED durable
    BY <2>1, PrefixRefl DEF KeepsHistory, durable, IInv, TypeOK
  <2>2. CASE pc[s] = "commit" /\ Changed(s) /\ Install(s)
    <3>1. ~ head.checkpoint.closed BY <2>2, CommitFacts
    <3>2. Len(RowsPlanned(plan[s].receipt)) \in Nat BY <2>2, CommitFacts, ComputedFacts
    <3>3. commits \in Seq(Receipts) /\ outputs \in Seq(OutputRow) BY DEF IInv, TypeOK
    <3>4. IsPrefix(commits, commits')
      <4>1. /\ commits' \in Seq(Receipts) /\ Len(commits) <= Len(commits')
            /\ \A g \in 1 .. Len(commits) : commits'[g] = commits[g]
        BY <2>2, InstallFacts
      <4> QED BY <4>1, <3>3, PrefixExtended
    <3>5. IsPrefix(outputs, outputs')
      <4>1. /\ outputs' \in Seq(OutputRow) /\ Len(outputs) <= Len(outputs')
            /\ \A g \in 1 .. Len(outputs) : outputs'[g] = outputs[g]
        BY <2>2, <3>2, InstallFacts
      <4> QED BY <4>1, <3>3, PrefixExtended
    <3> QED BY <3>1, <3>4, <3>5 DEF KeepsHistory
  <2> QED BY <2>1, <2>2, FrameDurable
<1> QED BY <1>1, Invariance, PTL DEF Spec, HistoryIsKept

(***************************************************************************)
(* No session publishes after its cancel() returned.                       *)
(***************************************************************************)
THEOREM CancelledAreSilent == Spec => CancelledNeverPublishes
<1>1. IInv /\ [Next]_vars => [CancelledIsSilent]_vars
  <2> SUFFICES ASSUME IInv, NEW s \in Session, SessionNext(s), NEW t \in Session,
                      cancelled[t], pc[t] # "idle", pc'[t] = "idle"
               PROVE  UNCHANGED durable
    BY DEF Next, CancelledIsSilent
  <2>1. CASE t = s
    <3>1. pc[s] # "commit" BY <2>1 DEF IInv, SessionInv, AdmittedInv
    <3> QED BY <3>1, FrameDurable
  <2>2. CASE t # s
    <3>1. pc'[t] = pc[t] BY <2>2, FrameOthers DEF IInv
    <3> QED BY <3>1
  <2> QED BY <2>1, <2>2
<1> QED BY <1>1, Invariance, PTL DEF Spec, CancelledNeverPublishes

\* How an apply can end.
LEMMA Endings ==
    ASSUME IInv, NEW s \in Session, SessionNext(s), pc[s] # "idle", pc'[s] = "idle"
    PROVE  \/ answer'[s].kind \in {"none", "output", "worker"}
           \/ Commit(s)
           \/ AnswerExisting(s) /\ UNCHANGED durable
           \/ /\ UNCHANGED durable
              /\ request[s].journal # ThisJournal \/ ~ HasReceipt(request[s].id)
              /\ answer'[s].kind \in {"conflict", "invalid"}
           \/ (Execute(s) \/ StageEof(s)) /\ answer'[s].kind = "invalid"
<1>1. TypeOK BY DEF IInv
<1>2. ASSUME NEW kind, NEW receipt, Answer(s, kind, receipt) PROVE answer'[s].kind = kind
  BY <1>1, <1>2 DEF Answer, TypeOK
<1>3. ASSUME NEW kind, NEW receipt, Return(s, kind, receipt) PROVE answer'[s].kind = kind
  BY <1>2, <1>3 DEF Return
<1>4. ASSUME NEW kind, Settle(s, kind) PROVE answer'[s].kind = kind
  BY <1>2, <1>4 DEF Settle
<1>5. ASSUME NEW p, p # "idle", pc' = [pc EXCEPT ![s] = p] PROVE FALSE
  BY <1>1, <1>5 DEF TypeOK
<1>6. CASE \E r \in Submitted : Apply(s, r) BY <1>6 DEF Apply
<1>7. CASE Fail(s) BY <1>7, <1>4 DEF Fail
<1>8. CASE SqlFails(s) BY <1>8, <1>3 DEF SqlFails
<1>9. CASE Lookup(s)
  <2>1. CASE request[s].journal # ThisJournal /\ Return(s, "invalid", None)
    BY <2>1, <1>3, <1>9 DEF Lookup
  <2>2. CASE AnswerExisting(s) BY <2>2, <1>9 DEF Lookup
  <2>3. CASE /\ ~ HasReceipt(request[s].id) /\ RefusedBySnapshot(request[s]) # "no"
             /\ Return(s, RefusedBySnapshot(request[s]), None)
    <3>1. answer'[s].kind = RefusedBySnapshot(request[s]) BY <2>3, <1>3
    <3>2. answer'[s].kind \in {"conflict", "invalid"} BY <2>3, <3>1 DEF RefusedBySnapshot
    <3> QED BY <2>3, <3>2, <1>9 DEF Lookup
  <2>4. CASE \E next \in (IF request[s].cause = "eof" THEN {"plan"} ELSE {"execute", "hung"}) :
                 pc' = [pc EXCEPT ![s] = next]
    BY <2>4, <1>5
  <2> QED BY <1>9, <2>1, <2>2, <2>3, <2>4 DEF Lookup
<1>10. ASSUME NEW cp, NEW rows, Stage(s, cp, rows) PROVE answer'[s].kind = "invalid"
  BY <1>10, <1>3, <1>5 DEF Stage
<1>11. CASE Execute(s) BY <1>11, <1>4, <1>10 DEF Execute
<1>12. CASE StageEof(s) BY <1>12, <1>10 DEF StageEof
<1>13. CASE Begin(s) BY <1>13, <1>5 DEF Begin
<1>14. CASE Admit(s) BY <1>14, <1>3, <1>5 DEF Admit
<1>15. CASE FinalCheck(s) BY <1>15, <1>5 DEF FinalCheck
<1>16. CASE Cancel(s) BY <1>16 DEF Cancel
<1>17. CASE Close(s) BY <1>17 DEF Close
<1>18. CASE Crash(s) BY <1>18, <1>2 DEF Crash
<1>19. CASE Reopen(s) BY <1>19 DEF Reopen
<1> QED
  BY <1>6, <1>7, <1>8, <1>9, <1>11, <1>12, <1>13, <1>14, <1>15, <1>16, <1>17, <1>18,
     <1>19 DEF SessionNext, Step

(***************************************************************************)
(* A receipt handed to a caller is retained, under the caller's own        *)
(* request; or it is the no-op of an EOF on a closed source.               *)
(***************************************************************************)
THEOREM ReceiptsAlwaysHold == Spec => ReceiptMeansDurable
<1>1. IInv /\ [Next]_vars => [ReceiptsHold]_vars
  <2> SUFFICES ASSUME IInv, NEW s \in Session, SessionNext(s), NEW t \in Session,
                      Answered(t, "receipt")
               PROVE  LET receipt == answer'[t].receipt IN
                      /\ receipt.request = request[t]
                      /\ IF receipt.status = "committed"
                           THEN \E g \in DOMAIN commits' : commits'[g] = receipt
                           ELSE request[t].cause = "eof" /\ head.checkpoint.closed
    BY DEF Next, ReceiptsHold
  <2>1. t = s BY FrameOthers DEF IInv, Answered
  <2>2. TypeOK BY DEF IInv
  <2>3. ASSUME NEW kind, NEW receipt, Return(s, kind, receipt)
        PROVE  answer'[s].receipt = receipt /\ answer'[s].kind = kind
    BY <2>2, <2>3 DEF Return, Answer, TypeOK
  <2>4. ASSUME NEW kind, Settle(s, kind) PROVE answer'[s].kind = kind
    BY <2>2, <2>4 DEF Settle, Answer, TypeOK
  <2>5. CASE AnswerExisting(s) /\ UNCHANGED durable
    <3>1. PICK g \in DOMAIN commits :
              commits[g] = ReceiptOf(request[s].id)
      BY <2>5 DEF AnswerExisting, HasReceipt, ReceiptOf
    <3>2. answer'[s].receipt = commits[g] /\ commits[g].request = request[s]
      BY <2>1, <2>3, <2>5, <3>1 DEF AnswerExisting, Answered
    <3>3. commits[g].status = "committed"
      BY DEF IInv, JournalInv, JournalAdmitted, ChainHolds
    <3> QED BY <2>1, <2>5, <3>2, <3>3 DEF durable
  <2>6. CASE Commit(s)
    <3>1. Install(s) /\ answer'[s].receipt = plan[s].receipt /\ pc[s] = "commit"
      BY <2>1, <2>3, <2>4, <2>6 DEF Commit, Answered
    <3>2. PlanInv(s) /\ AdmittedInv(s) BY DEF IInv, SessionInv
    <3>3. plan[s].receipt.request = request[s] BY <3>1, <3>2 DEF PlanInv
    <3>4. CASE Changed(s)
      <4>1. /\ Len(commits) \in Nat /\ Len(commits') = Len(commits) + 1
            /\ commits'[Len(commits) + 1] = plan[s].receipt
            /\ commits' \in Seq(Receipts)
        BY <3>1, <3>4, InstallFacts
      <4>2. Len(commits) + 1 \in DOMAIN commits' BY <4>1
      <4> QED BY <2>1, <3>1, <3>3, <3>4, <4>1, <4>2 DEF Changed
    <3>5. CASE ~ Changed(s)
      BY <2>1, <3>1, <3>2, <3>3, <3>5 DEF PlanInv, AdmittedInv, Changed
    <3> QED BY <3>4, <3>5
  <2> QED BY <2>1, <2>5, <2>6, Endings DEF Answered
<1> QED BY <1>1, Invariance, PTL DEF Spec, ReceiptMeansDurable

(***************************************************************************)
(* Executing a request on its snapshot cannot be refused once the same     *)
(* request is retained: the execution is a function of the request and of  *)
(* the point it was written for, so it gives the point that was admitted   *)
(* and rows that fitted the store.                                         *)
(***************************************************************************)
LEMMA RetainedFits ==
    ASSUME IInv, NEW s \in Session, pc[s] \in {"execute", "plan"},
           NEW g \in DOMAIN commits, commits[g].request = request[s],
           NEW cp, NEW rows,
           \/ /\ pc[s] = "execute"
              /\ cp = CandidateBatch(before[s].point.checkpoint, request[s].start,
                                     request[s].records).checkpoint
              /\ rows = CandidateBatch(before[s].point.checkpoint, request[s].start,
                                       request[s].records).outputs
           \/ /\ pc[s] = "plan"
              /\ cp = [before[s].point.checkpoint EXCEPT !.closed = TRUE]
              /\ rows = <<>>
    PROVE  LET b == before[s].point
               a == NextPoint(b, cp)
           IN  PointAdmitted(a) /\ FitsStore(before[s], Receipt(request[s], b, a), rows)
<1> DEFINE b == before[s].point
           r == request[s]
           x == commits[g]
           a == NextPoint(b, cp)
           n == Len(commits)
<1>1. /\ b \in Point /\ x \in Receipts /\ n \in Nat /\ g \in 1 .. n /\ r \in Request
  <2>1. before[s] \in Snapshot /\ request[s] \in Submitted /\ commits \in Seq(Receipts)
    BY DEF IInv, TypeOK
  <2> HIDE DEF Receipts
  <2> QED BY <2>1, JournalAssumption DEF Snapshot
<1>2. /\ r.expected = b.generation /\ r.start = b.checkpoint.next
      /\ b = PointAt(b.generation)
      /\ before[s].retained = b.generation + b.checkpoint.emitted
      /\ pc[s] = "execute" => r.cause = "wave"
      /\ pc[s] = "plan" => r.cause = "eof"
  BY DEF IInv, SessionInv, SnapshotInv
<1>3. ChainHolds(g) /\ Computed(x)
  BY DEF IInv, JournalInv, JournalAdmitted, AllComputed
<1>4. b.generation = g - 1 BY <1>2, <1>3 DEF ChainHolds
<1>5. b = x.before
  <2>1. g - 1 # n /\ g - 1 + 1 = g BY <1>1
  <2> QED BY <1>2, <1>4, <2>1 DEF PointAt
<1>6. x.after.checkpoint = cp /\ Len(RowsPlanned(x)) = Len(rows)
  <2>1. CASE pc[s] = "execute"
    <3>1. r.cause = "wave" /\ cp = BatchOf(x).checkpoint /\ rows = BatchOf(x).outputs
      BY <2>1, <1>2, <1>5 DEF BatchOf
    <3>2. BatchAdmitted(x.before.checkpoint, x.request.start, x.request.records, BatchOf(x))
          /\ x.after.checkpoint = BatchOf(x).checkpoint
      BY <3>1, <1>3 DEF Computed
    <3>3. rows \in Seq(Row) BY <3>1, <3>2 DEF BatchAdmitted
    <3>4. x.after.generation \in Nat BY <1>1, PointFacts DEF Receipts
    <3>5. Len(Tagged(x.after.generation, rows)) = Len(rows) BY <3>3, <3>4, TaggedFacts
    <3> QED BY <3>1, <3>2, <3>5 DEF RowsPlanned
  <2>2. CASE pc[s] = "plan"
    <3>1. r.cause = "eof" /\ cp = [b.checkpoint EXCEPT !.closed = TRUE] /\ rows = <<>>
      BY <2>2, <1>2
    <3> QED BY <3>1, <1>3, <1>5 DEF Computed, RowsPlanned
  <2> QED BY <2>1, <2>2
<1> HIDE DEF x, b, r
<1>7. cp # b.checkpoint BY <1>1, <1>3, <1>5, <1>6, ComputedChanges
<1>8. a.checkpoint = x.after.checkpoint /\ a.generation = x.after.generation
      /\ a.generation = g
  <2>1. x.after.generation = x.before.generation + 1 BY <1>3 DEF Computed
  <2> QED BY <2>1, <1>1, <1>4, <1>5, <1>6, <1>7 DEF NextPoint
<1>9. PointAdmitted(a)
  <2>1. PointAdmitted(x.after) BY <1>3 DEF Computed
  <2> QED BY <2>1, <1>8 DEF PointAdmitted
<1>10. b.generation + b.checkpoint.emitted + Len(rows) + 1 <= StoreBudget
  <2>1. OutputStop(x) = OutputStart(x) + Len(rows) /\ Len(rows) \in Nat
    BY <1>1, <1>3, <1>6, ComputedFacts
  <2>2. OutputStart(x) = b.checkpoint.emitted BY <1>5 DEF OutputStart
  <2>3. OutputStop(x) <= head.checkpoint.emitted BY <1>3 DEF ChainHolds, x
  <2>4. n + head.checkpoint.emitted <= StoreBudget
    BY DEF IInv, JournalInv, JournalAdmitted, LatestAdmitted, Retained
  <2>5. b.checkpoint.emitted \in Nat /\ head.checkpoint.emitted \in Nat
    BY <1>1, PointFacts DEF IInv, TypeOK
  <2>6. /\ n \in Nat /\ g \in Nat /\ g <= n /\ b.generation \in Nat
        /\ b.generation + 1 = g
    BY <1>1, <1>4, PointFacts
  <2>7. b.checkpoint.emitted + Len(rows) <= head.checkpoint.emitted BY <2>1, <2>2, <2>3
  <2>8. StoreBudget \in Nat /\ Len(rows) \in Nat BY <2>1, JournalAssumption
  <2> DEFINE bg == b.generation
             be == b.checkpoint.emitted
             he == head.checkpoint.emitted
             k  == Len(rows)
  <2>9. /\ n \in Nat /\ bg \in Nat /\ be \in Nat /\ he \in Nat /\ k \in Nat
        /\ StoreBudget \in Nat /\ bg + 1 <= n /\ be + k <= he /\ n + he <= StoreBudget
    BY <2>4, <2>5, <2>6, <2>7, <2>8
  <2> HIDE DEF n, bg, be, he, k
  <2>10. bg + be + k + 1 <= StoreBudget BY <2>9
  <2> QED BY <2>10 DEF bg, be, k
<1>11. FitsStore(before[s], Receipt(r, b, a), rows)
  <2>1. a # b BY <1>6, <1>7, <1>8
  <2>2. Receipt(r, b, a).status = "committed" BY <2>1 DEF Receipt
  <2>3. before[s].retained = b.generation + b.checkpoint.emitted BY <1>2 DEF b
  <2>4. Len(rows) \in Nat BY <1>1, <1>3, <1>6, ComputedFacts
  <2>5. b.generation \in Nat /\ b.checkpoint.emitted \in Nat BY <1>1, PointFacts
  <2> QED BY <2>2, <2>3, <2>4, <2>5, <1>10, JournalAssumption DEF FitsStore
<1> QED BY <1>9, <1>11 DEF b, r

(***************************************************************************)
(* A RecoveryConflict or a ValidationError is never the answer to a        *)
(* request that is retained.                                               *)
(***************************************************************************)
THEOREM RefusalsAlwaysHold == Spec => RefusalMeansAbsent
<1>1. IInv /\ [Next]_vars => [RefusalsHold]_vars
  <2> SUFFICES ASSUME IInv, NEW s \in Session, SessionNext(s), NEW t \in Session,
                      Answered(t, "conflict") \/ Answered(t, "invalid"),
                      NEW g \in DOMAIN commits', commits'[g].request = request[t]
               PROVE  FALSE
    BY DEF Next, RefusalsHold
  <2>1. t = s BY FrameOthers DEF IInv, Answered
  <2>2. TypeOK BY DEF IInv
  <2>3. ASSUME NEW kind, NEW receipt, Return(s, kind, receipt)
        PROVE  answer'[s].kind = kind
    BY <2>2, <2>3 DEF Return, Answer, TypeOK
  <2>4. ASSUME NEW kind, Settle(s, kind) PROVE answer'[s].kind = kind
    BY <2>2, <2>4 DEF Settle, Answer, TypeOK
  <2>5. ~ Commit(s) BY <2>1, <2>3, <2>4 DEF Commit, Answered
  <2>6. CASE AnswerExisting(s) /\ UNCHANGED durable
    <3>1. HasReceipt(request[s].id) /\ ReceiptOf(request[s].id).request # request[s]
      BY <2>1, <2>3, <2>6 DEF AnswerExisting, Answered
    <3>2. g \in DOMAIN commits /\ commits[g].request = request[s]
      BY <2>1, <2>6 DEF durable
    <3>3. \A h \in DOMAIN commits : commits[h].request.id = request[s].id => h = g
      BY <3>2 DEF IInv, JournalInv, PublishedOnce
    <3>4. ReceiptOf(request[s].id) = commits[g]
      BY <3>1, <3>2, <3>3 DEF ReceiptOf, HasReceipt
    <3> QED BY <3>1, <3>2, <3>4
  <2>7. CASE /\ UNCHANGED durable
             /\ request[s].journal # ThisJournal \/ ~ HasReceipt(request[s].id)
    <3>1. g \in DOMAIN commits /\ commits[g].request = request[s]
      BY <2>1, <2>7 DEF durable
    <3>2. commits[g].request.journal = ThisJournal
      BY <3>1 DEF IInv, JournalInv, AllComputed, Computed
    <3> QED BY <2>7, <3>1, <3>2 DEF HasReceipt
  <2>8. CASE Execute(s) \/ StageEof(s)
    <3>1. UNCHANGED durable /\ pc[s] \in {"execute", "plan"}
      BY <2>8 DEF Execute, StageEof
    <3>2. g \in DOMAIN commits /\ commits[g].request = request[s]
      BY <2>1, <3>1 DEF durable
    <3>3. ASSUME NEW cp, NEW rows, Stage(s, cp, rows),
                 LET b == before[s].point
                     a == NextPoint(b, cp)
                 IN  PointAdmitted(a) /\ FitsStore(before[s], Receipt(request[s], b, a), rows)
          PROVE  FALSE
      <4>1. pc' = [pc EXCEPT ![s] = "staged"] BY <3>3 DEF Stage
      <4> QED BY <4>1, <2>1, <2>2 DEF Answered, TypeOK
    <3>4. ~ Settle(s, "worker") BY <2>1, <2>4 DEF Answered
    <3>5. CASE Execute(s)
      <4> DEFINE batch == CandidateBatch(before[s].point.checkpoint, request[s].start,
                                         request[s].records)
      <4>1. pc[s] = "execute" /\ Stage(s, batch.checkpoint, batch.outputs)
        BY <3>4, <3>5 DEF Execute
      <4>2. LET b == before[s].point
                a == NextPoint(b, batch.checkpoint)
            IN  PointAdmitted(a)
                /\ FitsStore(before[s], Receipt(request[s], b, a), batch.outputs)
        BY <4>1, <3>1, <3>2, RetainedFits
      <4> HIDE DEF batch
      <4> QED BY <4>1, <4>2, <3>3
    <3>6. CASE StageEof(s)
      <4> DEFINE cp == [before[s].point.checkpoint EXCEPT !.closed = TRUE]
      <4>1. pc[s] = "plan" /\ Stage(s, cp, <<>>) BY <3>6 DEF StageEof
      <4>2. LET b == before[s].point
                a == NextPoint(b, cp)
            IN  PointAdmitted(a) /\ FitsStore(before[s], Receipt(request[s], b, a), <<>>)
        BY <4>1, <3>1, <3>2, RetainedFits
      <4> HIDE DEF cp
      <4> QED BY <4>1, <4>2, <3>3
    <3> QED BY <2>8, <3>5, <3>6
  <2> QED BY <2>1, <2>5, <2>6, <2>7, <2>8, Endings DEF Answered
<1> QED BY <1>1, Invariance, PTL DEF Spec, RefusalMeansAbsent

(***************************************************************************)
(* Every answer of apply is true of the journal.                           *)
(***************************************************************************)
THEOREM AnswersStayTrue == Spec => AnswersAreTrue
BY ReceiptsAlwaysHold, RefusalsAlwaysHold DEF AnswersAreTrue

-----------------------------------------------------------------------------
(***************************************************************************)
(* The journal implements the serial Flow.                                 *)
(***************************************************************************)

\* The inputs and the rows the abstract Flow sees.
RecordsOf == [g \in DOMAIN commits |-> commits[g].request.records]

Inputs == FlattenSeq(RecordsOf)

Rows == [i \in DOMAIN outputs |-> outputs[i].output]

CellsNow == [k \in Key |-> Filtered(Inputs, OfKey(k))]

\* The head has counted every input and holds, for each key, its inputs.
SerialInv ==
    /\ Len(Inputs) = head.checkpoint.next
    /\ \A k \in Key : head.checkpoint.shards[RouteOf[k]].cells[k] = CellsNow[k]

\* The abstract Flow's cell and rows, in terms of the wave's.
LEMMA SerialNames ==
    /\ \A s : Serial!FlattenSeq(s) = FlattenSeq(s)
    /\ \A s : Serial!Last(s) = s[Len(s)]
    /\ \A s : Serial!Cell(s) = Filtered(s, OfKey(KeyOf[s[Len(s)]]))
<1>1. ASSUME NEW s PROVE Serial!FlattenSeq(s) = FlattenSeq(s)
  BY DEF Serial!FlattenSeq, FlattenSeq
<1>2. ASSUME NEW s PROVE Serial!Last(s) = s[Len(s)] BY DEF Serial!Last
<1>3. ASSUME NEW s, NEW S PROVE Serial!Filtered(s, S) = Filtered(s, S)
  BY DEF Serial!Filtered, Filtered
<1>4. ASSUME NEW s PROVE Serial!Cell(s) = Filtered(s, OfKey(KeyOf[s[Len(s)]]))
  BY <1>2, <1>3 DEF Serial!Cell, OfKey
<1> QED BY <1>1, <1>2, <1>4

\* The records of a request are records.
LEMMA RecordsTyped ==
    ASSUME NEW r \in Request
    PROVE  r.records \in Seq(Record) /\ (r.cause = "eof" => r.records = <<>>)
<1>1. \A x \in Batch : x \in Seq(Record) BY WaveAssumption DEF Batch
<1>2. <<>> \in Seq(Record) BY EmptySeq
<1>3. CASE r.cause = "wave" BY <1>1, <1>3 DEF Request
<1>4. CASE r.cause # "wave"
  <2>1. r.cause = "eof" /\ r.records = <<>> BY <1>4 DEF Request
  <2> QED BY <2>1, <1>2
<1> QED BY <1>3, <1>4

LEMMA InputsTyped ==
    ASSUME TypeOK
    PROVE  RecordsOf \in Seq(Seq(Record)) /\ Inputs \in Seq(Record)
<1>1. commits \in Seq(Receipts) /\ Len(commits) \in Nat BY LenProperties DEF TypeOK
<1>2. \A g \in 1 .. Len(commits) : commits[g].request.records \in Seq(Record)
  <2>1. \A g \in 1 .. Len(commits) : commits[g] \in Receipts BY <1>1, ElementOfSeq
  <2>2. \A g \in 1 .. Len(commits) : commits[g].request \in Request BY <2>1 DEF Receipts
  <2> QED BY <2>2, RecordsTyped
<1>3. RecordsOf \in [1 .. Len(commits) -> Seq(Record)] BY <1>1, <1>2 DEF RecordsOf
<1>4. RecordsOf \in Seq(Seq(Record)) BY <1>1, <1>3
<1> QED BY <1>4, FlattenTyped DEF Inputs

\* A published receipt appends its records and its rows.
LEMMA InstallAppends ==
    ASSUME IInv, NEW s \in Session, pc[s] = "commit", Changed(s), Install(s)
    PROVE  LET x == plan[s].receipt IN
           /\ Inputs' = Inputs \o x.request.records
           /\ Rows' = Rows \o [i \in 1 .. Len(RowsPlanned(x)) |-> RowsPlanned(x)[i].output]
<1> DEFINE x    == plan[s].receipt
           n    == Len(commits)
           m    == Len(outputs)
           more == RowsPlanned(x)
           recs == x.request.records
<1>1. /\ x \in Receipts /\ Computed(x) BY CommitFacts
<1>2. /\ n \in Nat /\ Len(commits') = n + 1 /\ commits'[n + 1] = x
      /\ \A g \in 1 .. n : commits'[g] = commits[g]
      /\ commits' \in Seq(Receipts)
      /\ m \in Nat /\ outputs' \in Seq(OutputRow) /\ Len(outputs') = m + Len(more)
      /\ \A i \in 1 .. m : outputs'[i] = outputs[i]
      /\ \A i \in m + 1 .. Len(outputs') : outputs'[i] = more[i - m]
  BY InstallFacts
<1>3. /\ commits \in Seq(Receipts) /\ DOMAIN commits = 1 .. n
      /\ outputs \in Seq(OutputRow) /\ DOMAIN outputs = 1 .. m
  BY LenProperties DEF IInv, TypeOK
<1>4. recs \in Seq(Record) BY <1>1, RecordsTyped DEF Receipts
<1>5. more \in Seq(OutputRow) /\ Len(more) \in Nat BY <1>1, ComputedFacts
<1>6. RecordsOf \in Seq(Seq(Record)) BY InputsTyped DEF IInv
<1> HIDE DEF x, more, recs
<1>7. RecordsOf' = Append(RecordsOf, recs)
  <2> DEFINE longer == Append(RecordsOf, recs)
  <2>1. RecordsOf = [g \in 1 .. n |-> commits[g].request.records] BY <1>3 DEF RecordsOf
  <2>2. Len(RecordsOf) = n BY <1>2, <1>6, <2>1, LenProperties
  <2>3. /\ longer \in Seq(Seq(Record)) /\ Len(longer) = n + 1 /\ longer[n + 1] = recs
        /\ \A g \in 1 .. n : longer[g] = RecordsOf[g]
    BY <1>4, <1>6, <2>2, AppendProperties
  <2>4. DOMAIN commits' = 1 .. n + 1 BY <1>2, LenProperties
  <2>5. RecordsOf' = [g \in 1 .. n + 1 |-> commits'[g].request.records]
    BY <2>4 DEF RecordsOf
  <2>6. longer = [g \in 1 .. n + 1 |-> longer[g]] BY <2>3, LenProperties
  <2> HIDE DEF longer
  <2>7. \A g \in 1 .. n + 1 : longer[g] = commits'[g].request.records
    <3> SUFFICES ASSUME NEW g \in 1 .. n + 1 PROVE longer[g] = commits'[g].request.records
      OBVIOUS
    <3>1. CASE g = n + 1
      <4>1. longer[g] = recs /\ commits'[g] = x BY <3>1, <1>2, <2>3
      <4> QED BY <4>1 DEF recs
    <3>2. CASE g # n + 1
      <4>1. g \in 1 .. n BY <3>2, <1>2
      <4> QED BY <4>1, <1>2, <2>1, <2>3
    <3> QED BY <3>1, <3>2
  <2>8. RecordsOf' = longer BY <2>5, <2>6, <2>7
  <2> QED BY <2>8 DEF longer
<1>8. Inputs' = Inputs \o recs BY <1>4, <1>6, <1>7, FlattenGrows DEF Inputs
<1> DEFINE extra == [i \in 1 .. Len(more) |-> more[i].output]
<1>9. Rows' = Rows \o extra
  <2> HIDE DEF extra
  <2>0. \A o \in OutputRow : o.output \in Row BY DEF OutputRow
  <2>1. \A i \in 1 .. m : outputs[i].output \in Row BY <2>0, <1>3, ElementOfSeq
  <2>2. \A i \in 1 .. Len(more) : more[i].output \in Row BY <2>0, <1>5, ElementOfSeq
  <2>3. Rows \in [1 .. m -> Row] /\ \A i \in 1 .. m : Rows[i] = outputs[i].output
    BY <1>3, <2>1 DEF Rows
  <2>4. extra \in [1 .. Len(more) -> Row] /\ \A i \in 1 .. Len(more) : extra[i] = more[i].output
    BY <2>2 DEF extra
  <2>5. Rows \in Seq(Row) /\ Len(Rows) = m BY <1>2, <2>3
  <2>6. extra \in Seq(Row) /\ Len(extra) = Len(more) BY <1>5, <2>4
  <2> DEFINE longer == Rows \o extra
  <2>7. /\ longer \in Seq(Row) /\ Len(longer) = m + Len(more)
        /\ \A i \in 1 .. m + Len(more) : longer[i] =
              IF i <= m THEN Rows[i] ELSE extra[i - m]
    <3> DEFINE u == Rows
    <3> HIDE DEF u
    <3>1. u \in Seq(Row) /\ Len(u) = m BY <2>5 DEF u
    <3>2. /\ u \o extra \in Seq(Row) /\ Len(u \o extra) = Len(u) + Len(extra)
          /\ \A i \in 1 .. Len(u) + Len(extra) : (u \o extra)[i] =
                IF i <= Len(u) THEN u[i] ELSE extra[i - Len(u)]
      <4>1. extra \in Seq(Row) BY <2>6
      <4> HIDE DEF m, n
      <4>2. u \in Seq(Row) BY <3>1
      <4> QED BY ONLY <4>1, <4>2, ConcatProperties
    <3> QED BY <2>6, <3>1, <3>2 DEF u
  <2>8. DOMAIN outputs' = 1 .. m + Len(more) BY <1>2, LenProperties
  <2>9. Rows' = [i \in 1 .. m + Len(more) |-> outputs'[i].output] BY <2>8 DEF Rows
  <2>10. longer = [i \in 1 .. m + Len(more) |-> longer[i]] BY <2>7, LenProperties
  <2> HIDE DEF longer
  <2>11. \A i \in 1 .. m + Len(more) : longer[i] = outputs'[i].output
    <3> SUFFICES ASSUME NEW i \in 1 .. m + Len(more) PROVE longer[i] = outputs'[i].output
      OBVIOUS
    <3>1. CASE i <= m
      <4>1. i \in 1 .. m BY <3>1, <1>2
      <4> QED BY <3>1, <4>1, <1>2, <2>3, <2>7
    <3>2. CASE i > m
      <4>1. i \in m + 1 .. m + Len(more) /\ i - m \in 1 .. Len(more) /\ ~ (i <= m)
        BY <3>2, <1>2, <1>5
      <4>2. longer[i] = more[i - m].output BY <4>1, <2>4, <2>7
      <4>3. outputs'[i] = more[i - m] BY <4>1, <1>2
      <4> QED BY <4>2, <4>3
    <3> QED BY <3>1, <3>2, <1>2
  <2>12. Rows' = longer BY <2>9, <2>10, <2>11
  <2> QED BY <2>12 DEF longer
<1> QED BY <1>8, <1>9 DEF x, more, recs

\* The rows the abstract Flow emits for one more input are the wave's.
LEMMA OneInput ==
    ASSUME NEW history \in Seq(Record), NEW records \in Seq(Record),
           NEW i \in 1 .. Len(records)
    PROVE  Serial!RowsOfInput(history \o SubSeq(records, 1, i)) =
              RowsOfOne(Len(history), records,
                        [k \in Key |-> Filtered(history, OfKey(k))], i)
<1> DEFINE cells == [k \in Key |-> Filtered(history, OfKey(k))]
           taken == SubSeq(records, 1, i)
           all   == history \o taken
           k     == KeyOf[records[i]]
<1>1. Len(records) \in Nat /\ Len(history) \in Nat BY LenProperties
<1>2. taken \in Seq(Record) /\ Len(taken) = i /\ taken[i] = records[i]
  <2> DEFINE w == SubSeq(records, 1, i - 1)
  <2>1. /\ w \in Seq(Record) /\ records[i] \in Record /\ Len(w) = i - 1
        /\ taken = Append(w, records[i])
    BY PrefixGrows
  <2> HIDE DEF w, taken
  <2> QED BY <1>1, <2>1, AppendProperties
<1>3. k \in Key /\ RowsOf[records[i]] \in Nat BY InputTyped
<1> HIDE DEF taken
<1>4. /\ all \in Seq(Record) /\ Len(all) = Len(history) + i
      /\ all[Len(history) + i] = records[i]
  <2>1. /\ Len(all) = Len(history) + Len(taken) /\ all \in Seq(Record)
        /\ \A j \in 1 .. Len(history) + Len(taken) : all[j] =
              IF j <= Len(history) THEN history[j] ELSE taken[j - Len(history)]
    BY <1>2, ConcatProperties
  <2> QED BY <1>1, <1>2, <2>1
<1>5. Filtered(all, OfKey(k)) = CellBy(records, cells, k, i)
  <2>1. Filtered(all, OfKey(k)) = Filtered(history, OfKey(k)) \o Filtered(taken, OfKey(k))
    BY <1>2, FilteredConcat
  <2> QED BY <1>3, <2>1 DEF CellBy, taken
<1> HIDE DEF all, cells
<1>6. Serial!Last(all) = records[i] /\ Serial!Cell(all) = CellBy(records, cells, k, i)
  BY <1>4, <1>5, SerialNames
<1>7. Serial!RowsOfInput(all) =
         [j \in 1 .. RowsOf[records[i]] |->
             [position |-> Len(history) + i - 1, ordinal |-> j - 1,
              key |-> k, value |-> CellBy(records, cells, k, i)]]
  BY <1>4, <1>6 DEF Serial!RowsOfInput
<1>8. Serial!RowsOfInput(all) = RowsOfOne(Len(history), records, cells, i)
  BY <1>7 DEF RowsOfOne, RowOf
<1> QED BY <1>8 DEF all, taken, cells

\* The cells of the inputs so far are cells.
LEMMA CellsNowTyped ==
    ASSUME Inputs \in Seq(Record)
    PROVE  CellsNow \in [Key -> Seq(Record)]
<1>1. \A k \in Key : Filtered(Inputs, OfKey(k)) \in Seq(Record) BY FilteredTyped
<1> QED BY <1>1 DEF CellsNow

\* A published wave is a run of inputs the abstract Flow consumes.
LEMMA WaveConsumes ==
    ASSUME IInv, SerialInv, NEW s \in Session, pc[s] = "commit", Changed(s), Install(s),
           plan[s].receipt.request.cause = "wave"
    PROVE  Serial!Next /\ SerialInv'
<1> DEFINE x     == plan[s].receipt
           recs  == x.request.records
           batch == BatchOf(x)
           start == Len(Inputs)
           rows  == SerialRows(start, recs, CellsNow, Len(recs))
           b     == head.checkpoint
<1>1. /\ x \in Receipts /\ Computed(x) /\ x.before = head /\ ~ b.closed /\ head' = x.after
      /\ x.request \in Request /\ x.after \in Point
  BY CommitFacts, InstallFacts DEF Receipts
<1>2. /\ head \in Point /\ b \in Checkpoint /\ b.next \in Nat /\ x.after.generation \in Nat
  BY <1>1, PointFacts DEF IInv, TypeOK
<1>3. Inputs \in Seq(Record) /\ recs \in Seq(Record) /\ start \in Nat /\ Len(recs) \in Nat
  BY <1>1, InputsTyped, RecordsTyped, LenProperties DEF IInv
<1>4. /\ BatchAdmitted(b, start, recs, batch)
      /\ x.after.checkpoint = batch.checkpoint
      /\ batch = CandidateBatch(b, start, recs)
  <2>1. x.request.start = start BY <1>1 DEF Computed, SerialInv
  <2> QED BY <1>1, <2>1 DEF Computed, BatchOf
<1>5. Len(recs) > 0 /\ recs \in Batch BY <1>1 DEF Request, Batch
<1>6. CellsNow \in [Key -> Seq(Record)] BY <1>3, CellsNowTyped
<1>7. /\ batch.outputs = rows
      /\ \A k \in Key : batch.checkpoint.shards[RouteOf[k]].cells[k] =
                           CellBy(recs, CellsNow, k, Len(recs))
  <2>1. \A k \in Key : b.shards[RouteOf[k]].cells[k] = CellsNow[k] BY DEF SerialInv
  <2> HIDE DEF b, batch, start, recs
  <2>2. LET w == CandidateBatch(b, start, recs) IN
        /\ w.outputs = SerialRows(start, recs, CellsNow, Len(recs))
        /\ \A k \in Key : w.checkpoint.shards[RouteOf[k]].cells[k] =
                             CellBy(recs, CellsNow, k, Len(recs))
    BY <1>2, <1>3, <1>6, <2>1, WaveIsSerial
  <2> QED BY <1>4, <2>2
<1>8. /\ batch.outputs \in Seq(Row) /\ Len(batch.outputs) \in Nat
      /\ batch.checkpoint.next = start + Len(recs)
      /\ batch.checkpoint.closed = b.closed
  <2>1. BatchAdmitted(b, start, recs, batch) BY <1>4
  <2> HIDE DEF b, batch, start, recs
  <2> QED BY <1>3, <2>1, BatchFacts
<1>9. Inputs' = Inputs \o recs /\ Rows' = Rows \o rows
  <2>1. /\ Inputs' = Inputs \o recs
        /\ Rows' = Rows \o [i \in 1 .. Len(RowsPlanned(x)) |-> RowsPlanned(x)[i].output]
    BY InstallAppends
  <2>2. RowsPlanned(x) = Tagged(x.after.generation, batch.outputs) BY DEF RowsPlanned
  <2> HIDE DEF x, batch
  <2>3. /\ Len(RowsPlanned(x)) = Len(batch.outputs)
        /\ \A i \in 1 .. Len(batch.outputs) : RowsPlanned(x)[i].output = batch.outputs[i]
    BY <1>2, <1>8, <2>2, TaggedFacts
  <2>4. [i \in 1 .. Len(RowsPlanned(x)) |-> RowsPlanned(x)[i].output] =
           [i \in 1 .. Len(batch.outputs) |-> batch.outputs[i]]
    BY <2>3
  <2>5. [i \in 1 .. Len(batch.outputs) |-> batch.outputs[i]] = batch.outputs BY <1>8
  <2> QED BY <1>7, <2>1, <2>4, <2>5 DEF x, batch
<1>10. rows = Serial!FlattenSeq([i \in 1 .. Len(recs) |->
                                    Serial!RowsOfInput(Inputs \o SubSeq(recs, 1, i))])
  <2> HIDE DEF recs
  <2>1. \A i \in 1 .. Len(recs) :
           Serial!RowsOfInput(Inputs \o SubSeq(recs, 1, i)) =
              RowsOfOne(start, recs, CellsNow, i)
    BY <1>3, OneInput DEF CellsNow
  <2>2. rows = FlattenSeq([i \in 1 .. Len(recs) |->
                              Serial!RowsOfInput(Inputs \o SubSeq(recs, 1, i))])
    BY <2>1 DEF SerialRows
  <2> QED BY <2>2, SerialNames
<1>11. head'.checkpoint.closed = b.closed BY <1>1, <1>4, <1>8
<1>12. Serial!Next
  <2> HIDE DEF recs, rows
  <2>1. PICK n \in 1 .. MaxBatch : recs \in [1 .. n -> Record] BY <1>5 DEF Batch
  <2>2. PICK w \in [1 .. n -> Record] : w = recs BY <2>1
  <2>3. /\ Inputs' = Inputs \o w /\ Rows' = Rows \o rows
        /\ rows = Serial!FlattenSeq([i \in 1 .. Len(w) |->
                                       Serial!RowsOfInput(Inputs \o SubSeq(w, 1, i))])
    BY <1>9, <1>10, <2>2
  <2>4. Serial!Consume(w)
    BY <1>1, <1>11, <2>3 DEF Serial!Consume, Inputs, RecordsOf, Rows
  <2> QED BY <2>4 DEF Serial!Next
<1>13. Len(Inputs') = head'.checkpoint.next
  <2> HIDE DEF recs
  <2>1. Len(Inputs \o recs) = start + Len(recs) BY <1>3, ConcatProperties
  <2> QED BY <1>1, <1>4, <1>8, <1>9, <2>1
<1>14. \A k \in Key : head'.checkpoint.shards[RouteOf[k]].cells[k] = CellsNow'[k]
  <2> SUFFICES ASSUME NEW k \in Key
               PROVE  head'.checkpoint.shards[RouteOf[k]].cells[k] = CellsNow'[k]
    OBVIOUS
  <2>1. head'.checkpoint.shards[RouteOf[k]].cells[k] = CellBy(recs, CellsNow, k, Len(recs))
    BY <1>1, <1>4, <1>7
  <2>2. CellsNow'[k] = Filtered(Inputs \o recs, OfKey(k))
    <3>1. CellsNow' = [c \in Key |-> Filtered(Inputs', OfKey(c))] BY DEF CellsNow
    <3> QED BY <1>9, <3>1
  <2> HIDE DEF recs
  <2>3. Filtered(Inputs \o recs, OfKey(k)) =
           Filtered(Inputs, OfKey(k)) \o Filtered(recs, OfKey(k))
    BY <1>3, FilteredConcat
  <2>4. CellBy(recs, CellsNow, k, Len(recs)) =
           Filtered(Inputs, OfKey(k)) \o Filtered(recs, OfKey(k))
    BY <1>3, SubSeqFull DEF CellBy, CellsNow
  <2> QED BY <2>1, <2>2, <2>3, <2>4
<1> QED BY <1>12, <1>13, <1>14 DEF SerialInv

\* A published EOF closes the abstract source.
LEMMA EofCloses ==
    ASSUME IInv, SerialInv, NEW s \in Session, pc[s] = "commit", Changed(s), Install(s),
           plan[s].receipt.request.cause # "wave"
    PROVE  Serial!Next /\ SerialInv'
<1> DEFINE x == plan[s].receipt
           b == head.checkpoint
<1>1. /\ x \in Receipts /\ Computed(x) /\ x.before = head /\ ~ b.closed /\ head' = x.after
      /\ x.request \in Request
  BY CommitFacts, InstallFacts DEF Receipts
<1>2. b \in Checkpoint BY PointFacts DEF IInv, TypeOK
<1>3. x.request.records = <<>> BY <1>1, RequestFacts, RecordsTyped
<1>4. RowsPlanned(x) = <<>> BY DEF RowsPlanned
<1>5. Inputs' = Inputs /\ Rows' = Rows
  <2>1. /\ Inputs' = Inputs \o x.request.records
        /\ Rows' = Rows \o [i \in 1 .. Len(RowsPlanned(x)) |-> RowsPlanned(x)[i].output]
    BY InstallAppends
  <2>2. [i \in 1 .. Len(RowsPlanned(x)) |-> RowsPlanned(x)[i].output] = <<>> BY <1>4
  <2>3. Inputs \in Seq(Record) BY InputsTyped DEF IInv
  <2>4. Rows \in Seq(Row)
    <3>1. outputs \in Seq(OutputRow) /\ Len(outputs) \in Nat /\ DOMAIN outputs = 1 .. Len(outputs)
      BY LenProperties DEF IInv, TypeOK
    <3>2. \A i \in 1 .. Len(outputs) : outputs[i].output \in Row
      <4>1. \A o \in OutputRow : o.output \in Row BY DEF OutputRow
      <4> QED BY <3>1, <4>1, ElementOfSeq
    <3>3. Rows \in [1 .. Len(outputs) -> Row] BY <3>1, <3>2 DEF Rows
    <3> QED BY <3>1, <3>3
  <2>5. Inputs \o <<>> = Inputs BY <2>3, ConcatEmptySeq
  <2>6. Rows \o <<>> = Rows BY <2>4, ConcatEmptySeq
  <2> QED BY <1>3, <2>1, <2>2, <2>5, <2>6
<1>6. /\ head'.checkpoint = [b EXCEPT !.closed = TRUE]
      /\ head'.checkpoint.closed = TRUE
      /\ head'.checkpoint.next = b.next /\ head'.checkpoint.shards = b.shards
  <2>1. x.after.checkpoint = [b EXCEPT !.closed = TRUE] BY <1>1 DEF Computed
  <2>2. DOMAIN b = {"next", "waves", "closed", "emitted", "shards"} BY <1>2 DEF Checkpoint
  <2> QED BY <1>1, <2>1, <2>2
<1>7. Serial!CloseSource
  BY <1>1, <1>5, <1>6 DEF Serial!CloseSource, Inputs, RecordsOf, Rows
<1>8. CellsNow' = CellsNow BY <1>5 DEF CellsNow
<1>9. SerialInv' BY <1>5, <1>6, <1>8 DEF SerialInv
<1> QED BY <1>7, <1>9 DEF Serial!Next

\* The empty journal is the initial state of the abstract Flow.
LEMMA SerialInit == Init => Serial!Init /\ SerialInv
<1> SUFFICES ASSUME Init PROVE Serial!Init /\ SerialInv OBVIOUS
<1>1. head = InitialPoint /\ commits = <<>> /\ outputs = <<>> BY DEF Init
<1>2. RecordsOf = <<>> /\ Rows = <<>> BY <1>1 DEF RecordsOf, Rows
<1>3. Inputs = <<>> BY <1>2, FlattenEmpty DEF Inputs
<1>4. head.checkpoint.closed = FALSE /\ head.checkpoint.next = 0
  BY <1>1 DEF InitialPoint, InitialCheckpoint
<1>5. \A k \in Key : head.checkpoint.shards[RouteOf[k]].cells[k] = <<>>
  BY <1>1, WaveAssumption DEF InitialPoint, InitialCheckpoint, EmptyShard, Worker
<1>6. \A k \in Key : CellsNow[k] = <<>> BY <1>3, FilteredEmpty DEF CellsNow
<1>7. Serial!FlattenSeq(RecordsOf) = Inputs BY SerialNames DEF Inputs
<1>8. Serial!Init BY <1>2, <1>3, <1>4, <1>7 DEF Serial!Init, Inputs, RecordsOf, Rows
<1> QED BY <1>3, <1>4, <1>5, <1>6, <1>8 DEF SerialInv

\* Every step of the journal is a step of the abstract Flow, or none.
LEMMA SerialStep ==
    ASSUME IInv, SerialInv, [Next]_vars
    PROVE  [Serial!Next]_(Serial!serialVars) /\ SerialInv'
<1>1. ASSUME UNCHANGED durable PROVE UNCHANGED Serial!serialVars /\ SerialInv'
  <2>1. head' = head /\ commits' = commits /\ outputs' = outputs BY <1>1 DEF durable
  <2>2. UNCHANGED Serial!serialVars BY <2>1 DEF Serial!serialVars
  <2>3. Inputs' = Inputs BY <2>1 DEF Inputs, RecordsOf
  <2>4. CellsNow' = CellsNow BY <2>3 DEF CellsNow
  <2> QED BY <2>1, <2>2, <2>3, <2>4 DEF SerialInv
<1>2. CASE UNCHANGED vars BY <1>1, <1>2 DEF vars, durable
<1>3. ASSUME NEW s \in Session, SessionNext(s)
      PROVE  [Serial!Next]_(Serial!serialVars) /\ SerialInv'
  BY <1>1, <1>3, FrameDurable, WaveConsumes, EofCloses
<1> QED BY <1>2, <1>3 DEF Next

(***************************************************************************)
(* The journal implements the serial Flow.                                 *)
(***************************************************************************)
THEOREM JournalImplementsSerialFlow == Spec => SerialSpec
<1>1. Init => Serial!Init /\ SerialInv BY SerialInit
<1>2. IInv /\ SerialInv /\ [Next]_vars => [Serial!Next]_(Serial!serialVars) /\ SerialInv'
  BY SerialStep
<1> QED BY <1>1, <1>2, Invariance, PTL DEF Spec, SerialSpec, Serial!Spec

-----------------------------------------------------------------------------
(***************************************************************************)
(* PartitionedJournalReader, for any number of readers and sessions and    *)
(* any page sizes: a cursor captured at any moment stays readable, and its *)
(* pages return exactly the prefix it was captured for, however many waves *)
(* other sessions append between them.                                     *)
(***************************************************************************)

\* Any two neighbours in the output table pass what a page verifies of them.
RowsFollow == \A i \in 1 .. Len(outputs) - 1 : Follows(outputs[i], outputs[i + 1])

Cursor == [anchor : Nat, digest : Point \cup Receipts, stop : Nat, next : Nat]

ReaderTypes ==
    /\ cursor \in [Reader -> Cursor \cup {None}]
    /\ DOMAIN got = Reader
    /\ origin \in [Reader -> Nat]

\* A cursor still names a receipt, or the initial head, and its end.
CursorInv(c) ==
    /\ c \in Cursor
    /\ c.anchor <= Len(commits)
    /\ c.stop = StopOf(c.anchor) /\ c.digest = AnchorOf(c.anchor)
    /\ c.next <= c.stop /\ c.stop <= Len(outputs)

\* The rows up to the stop of c are those of the generations up to its anchor,
\* and no input has rows on both sides of it.
PrefixInv(c) ==
    \A i \in 1 .. Len(outputs) : i <= c.stop =>
        /\ outputs[i].generation <= c.anchor
        /\ \A k \in 1 .. Len(outputs) : c.stop < k =>
              outputs[i].output.position < outputs[k].output.position

\* What a reader has collected.
CollectedInv(r) ==
    /\ origin[r] <= cursor[r].next
    /\ got[r] = SubSeq(outputs, origin[r] + 1, cursor[r].next)

HoldsCursor(r) == CursorInv(cursor[r]) /\ PrefixInv(cursor[r]) /\ CollectedInv(r)

(***************************************************************************)
(* The inductive invariant: the journal's own, the order of its rows, and  *)
(* for every reader with a cursor that the journal still is, up to the     *)
(* stop, what it was when the cursor was captured.                         *)
(***************************************************************************)
ReaderInv ==
    /\ IInv /\ RowsFollow /\ ReaderTypes
    /\ \A r \in Reader : cursor[r] # None => HoldsCursor(r)

-----------------------------------------------------------------------------
(***************************************************************************)
(* The rows of the journal.                                                *)
(***************************************************************************)

\* The admission of a wave puts its rows in (position, ordinal) order and
\* gives rows of one input one key: what a page verifies of neighbours.
LEMMA PlannedRowsFollow ==
    ASSUME NEW x \in Receipts, Computed(x), NEW i \in 1 .. Len(RowsPlanned(x)) - 1
    PROVE  Follows(RowsPlanned(x)[i], RowsPlanned(x)[i + 1])
<1> DEFINE r == x.request
           b == x.before.checkpoint
           batch == BatchOf(x)
<1>1. r \in Request /\ x.before \in Point /\ x.after \in Point BY DEF Receipts
<1>2. x.after.generation \in Nat /\ r.start = b.next /\ b.next \in Nat
  BY <1>1, PointFacts DEF Computed
<1>3. CASE r.cause = "wave"
  <2>1. BatchAdmitted(b, r.start, r.records, batch) BY <1>3 DEF Computed
  <2>2. RowsPlanned(x) = Tagged(x.after.generation, batch.outputs)
    BY <1>3 DEF RowsPlanned
  <2> HIDE DEF batch, b
  <2>3. batch.outputs \in Seq(Row) /\ Len(batch.outputs) \in Nat
    BY <2>1 DEF BatchAdmitted
  <2>4. /\ Len(RowsPlanned(x)) = Len(batch.outputs)
        /\ \A k \in 1 .. Len(batch.outputs) :
              /\ RowsPlanned(x)[k].generation = x.after.generation
              /\ RowsPlanned(x)[k].output = batch.outputs[k]
    BY <1>2, <2>2, <2>3, TaggedFacts
  <2>5. i \in 1 .. Len(batch.outputs) /\ i + 1 \in 1 .. Len(batch.outputs) /\ i + 1 > 1
    BY <2>3, <2>4
  <2> DEFINE y == batch.outputs[i]
             z == batch.outputs[i + 1]
  <2>6. /\ y.key = KeyOf[r.records[y.position - r.start + 1]]
        /\ z.key = KeyOf[r.records[z.position - r.start + 1]]
        /\ \/ z.position = y.position /\ z.ordinal = y.ordinal + 1
           \/ z.position > y.position /\ z.ordinal = 0
    <3>1. \A k \in 1 .. Len(batch.outputs) :
              /\ batch.outputs[k].key
                    = KeyOf[r.records[batch.outputs[k].position - r.start + 1]]
              /\ k > 1 => \/ /\ batch.outputs[k].position = batch.outputs[k - 1].position
                             /\ batch.outputs[k].ordinal = batch.outputs[k - 1].ordinal + 1
                          \/ /\ batch.outputs[k].position > batch.outputs[k - 1].position
                             /\ batch.outputs[k].ordinal = 0
      BY <2>1 DEF BatchAdmitted
    <3>2. (i + 1) - 1 = i OBVIOUS
    <3> QED BY <3>1, <3>2, <2>5
  <2>7. y.position \in Nat /\ z.position \in Nat
    <3>1. y \in Row /\ z \in Row BY <2>3, <2>5
    <3> QED BY <3>1 DEF Row
  <2>8. /\ RowsPlanned(x)[i].output = y /\ RowsPlanned(x)[i + 1].output = z
        /\ RowsPlanned(x)[i].generation = RowsPlanned(x)[i + 1].generation
        /\ RowsPlanned(x)[i].generation <= RowsPlanned(x)[i + 1].generation
    BY <2>4, <2>5, <1>2
  <2> HIDE DEF y, z
  <2> QED BY <2>6, <2>7, <2>8 DEF Follows
<1>4. CASE r.cause # "wave"
  <2>1. RowsPlanned(x) = <<>> BY <1>4 DEF RowsPlanned
  <2> QED BY <2>1
<1> QED BY <1>3, <1>4

\* The rows of an admitted journal belong to retained generations, and to
\* inputs before the head.
LEMMA RowFacts ==
    ASSUME IInv, NEW i \in 1 .. Len(outputs)
    PROVE  /\ outputs[i] \in OutputRow
           /\ outputs[i].generation \in Nat /\ outputs[i].output.position \in Nat
           /\ outputs[i].generation \in DOMAIN commits
           /\ outputs[i].generation <= Len(commits)
           /\ ChainHolds(outputs[i].generation)
           /\ outputs[i].output.position < head.checkpoint.next
<1> DEFINE row == outputs[i]
           g == outputs[i].generation
<1>1. /\ outputs \in Seq(OutputRow) /\ commits \in Seq(Receipts) /\ head \in Point
      /\ OutputsLieInReceipts /\ \A h \in DOMAIN commits : ChainHolds(h)
  BY DEF IInv, TypeOK, JournalInv, JournalAdmitted
<1>2. i \in DOMAIN outputs /\ row \in OutputRow BY <1>1
<1>3. g \in Nat /\ row.output.position \in Nat BY <1>2 DEF OutputRow, Row
<1>4. g \in DOMAIN commits /\ row.output.position < commits[g].after.checkpoint.next
  BY <1>1, <1>2 DEF OutputsLieInReceipts
<1>5. g <= Len(commits) /\ commits[g] \in Receipts BY <1>1, <1>4
<1>6. commits[g].after \in Point BY <1>5 DEF Receipts
<1>7. commits[g].after.checkpoint.next <= head.checkpoint.next
  BY <1>1, <1>4 DEF ChainHolds
<1>8. commits[g].after.checkpoint.next \in Nat /\ head.checkpoint.next \in Nat
  BY <1>1, <1>6, PointFacts
<1> QED BY <1>1, <1>2, <1>3, <1>4, <1>5, <1>7, <1>8

\* A publication puts its rows behind those that are there, in a generation of
\* their own and for inputs that come after all earlier ones.
LEMMA InstalledRows ==
    ASSUME IInv, NEW s \in Session, pc[s] = "commit", Changed(s), Install(s)
    PROVE  LET x == plan[s].receipt
               m == Len(outputs)
           IN  /\ m \in Nat /\ Len(outputs') \in Nat /\ m <= Len(outputs')
               /\ \A i \in 1 .. m : outputs'[i] = outputs[i]
               /\ \A i \in m + 1 .. Len(outputs') :
                     /\ i - m \in 1 .. Len(RowsPlanned(x))
                     /\ outputs'[i] = RowsPlanned(x)[i - m]
                     /\ outputs'[i].generation = Len(commits) + 1
                     /\ head.checkpoint.next <= outputs'[i].output.position
                     /\ outputs'[i].output.position \in Nat
                     /\ i = m + 1 => outputs'[i].output.ordinal = 0
<1> DEFINE x == plan[s].receipt
           m == Len(outputs)
           rows == RowsPlanned(x)
<1>1. x \in Receipts /\ Computed(x) /\ x.before = head BY CommitFacts
<1>2. /\ Len(commits) \in Nat /\ Len(commits) = head.generation
      /\ m \in Nat /\ Len(outputs') = m + Len(rows)
      /\ \A i \in 1 .. m : outputs'[i] = outputs[i]
      /\ \A i \in m + 1 .. Len(outputs') : outputs'[i] = rows[i - m]
      /\ outputs' \in Seq(OutputRow)
  BY InstallFacts
<1>3. /\ Len(rows) \in Nat
      /\ \A i \in 1 .. Len(rows) :
            /\ rows[i].generation = x.after.generation
            /\ x.before.checkpoint.next <= rows[i].output.position
            /\ i = 1 => rows[i].output.ordinal = 0
  BY <1>1, ComputedFacts
<1>4. x.after.generation = Len(commits) + 1 BY <1>1, <1>2 DEF Computed
<1> HIDE DEF x, rows
<1>5. \A i \in m + 1 .. Len(outputs') : i - m \in 1 .. Len(rows) /\ i \in 1 .. Len(outputs')
  BY <1>2, <1>3
<1>6. \A i \in 1 .. Len(outputs') : outputs'[i].output.position \in Nat
  <2>1. \A i \in 1 .. Len(outputs') : outputs'[i] \in OutputRow BY <1>2
  <2> QED BY <2>1 DEF OutputRow, Row
<1>7. \A i \in m + 1 .. Len(outputs') :
          /\ outputs'[i].generation = Len(commits) + 1
          /\ head.checkpoint.next <= outputs'[i].output.position
          /\ i = m + 1 => outputs'[i].output.ordinal = 0
  <2> SUFFICES ASSUME NEW i \in m + 1 .. Len(outputs')
               PROVE  /\ outputs'[i].generation = Len(commits) + 1
                      /\ head.checkpoint.next <= outputs'[i].output.position
                      /\ i = m + 1 => outputs'[i].output.ordinal = 0
    OBVIOUS
  <2>1. outputs'[i] = rows[i - m] /\ i - m \in 1 .. Len(rows) BY <1>2, <1>5
  <2>2. i = m + 1 => i - m = 1 BY <1>2
  <2>3. /\ rows[i - m].generation = x.after.generation
        /\ x.before.checkpoint.next <= rows[i - m].output.position
        /\ i - m = 1 => rows[i - m].output.ordinal = 0
    BY <1>3, <2>1
  <2> QED BY ONLY <1>1, <1>4, <2>1, <2>2, <2>3
<1> QED BY <1>2, <1>3, <1>5, <1>6, <1>7 DEF x, rows

\* Publication keeps neighbours in order, also across its own boundary.
LEMMA RowsKeepFollowing ==
    ASSUME IInv, RowsFollow, NEW s \in Session, SessionNext(s)
    PROVE  RowsFollow'
<1>1. CASE UNCHANGED durable BY <1>1 DEF RowsFollow, durable
<1>2. CASE pc[s] = "commit" /\ Changed(s) /\ Install(s)
  <2> DEFINE x == plan[s].receipt
             m == Len(outputs)
             rows == RowsPlanned(x)
  <2>1. /\ m \in Nat /\ Len(outputs') \in Nat /\ m <= Len(outputs')
        /\ Len(outputs') = m + Len(rows) /\ Len(rows) \in Nat
        /\ \A i \in 1 .. m : outputs'[i] = outputs[i]
        /\ \A i \in m + 1 .. Len(outputs') :
              /\ outputs'[i] = rows[i - m]
              /\ outputs'[i].generation = Len(commits) + 1
              /\ head.checkpoint.next <= outputs'[i].output.position
              /\ outputs'[i].output.position \in Nat
              /\ i = m + 1 => outputs'[i].output.ordinal = 0
    <3>1. Computed(x) /\ x \in Receipts BY <1>2, CommitFacts
    <3> QED BY <1>2, <3>1, InstalledRows, InstallFacts, ComputedFacts
  <2>2. x \in Receipts /\ Computed(x) BY <1>2, CommitFacts
  <2> SUFFICES ASSUME NEW i \in 1 .. Len(outputs') - 1
               PROVE  Follows(outputs'[i], outputs'[i + 1])
    BY DEF RowsFollow, Follows
  <2>3. CASE i < m
    <3>1. i \in 1 .. m - 1 /\ i \in 1 .. m /\ i + 1 \in 1 .. m BY <2>1, <2>3
    <3>2. outputs'[i] = outputs[i] /\ outputs'[i + 1] = outputs[i + 1] BY <2>1, <3>1
    <3> QED BY <3>1, <3>2 DEF RowsFollow
  <2>4. CASE i = m
    <3>1. i \in 1 .. m /\ i + 1 = m + 1 /\ i + 1 \in m + 1 .. Len(outputs') BY <2>1, <2>4
    <3>2. /\ outputs[i].generation \in Nat /\ outputs[i].output.position \in Nat
          /\ outputs[i].generation <= Len(commits)
          /\ outputs[i].output.position < head.checkpoint.next
      BY <3>1, RowFacts
    <3>3. /\ outputs'[i] = outputs[i]
          /\ outputs'[i + 1].generation = Len(commits) + 1
          /\ head.checkpoint.next <= outputs'[i + 1].output.position
          /\ outputs'[i + 1].output.position \in Nat
          /\ outputs'[i + 1].output.ordinal = 0
      BY <2>1, <3>1
    <3>4. head.checkpoint.next \in Nat /\ Len(commits) \in Nat
      BY PointFacts DEF IInv, TypeOK
    <3> QED BY <3>2, <3>3, <3>4 DEF Follows
  <2>5. CASE m < i
    <3>1. /\ i - m \in 1 .. Len(rows) - 1 /\ (i - m) + 1 = (i + 1) - m
          /\ i \in m + 1 .. Len(outputs') /\ i + 1 \in m + 1 .. Len(outputs')
      BY <2>1, <2>5
    <3>2. outputs'[i] = rows[i - m] /\ outputs'[i + 1] = rows[(i - m) + 1]
      BY <2>1, <3>1
    <3> QED BY <2>2, <3>1, <3>2, PlannedRowsFollow
  <2> QED BY <2>1, <2>3, <2>4, <2>5
<1> QED BY <1>1, <1>2, FrameDurable

-----------------------------------------------------------------------------
(***************************************************************************)
(* Cursors.                                                                *)
(***************************************************************************)

\* A piece of a sequence stays that piece when the sequence is extended.
LEMMA PieceKept ==
    ASSUME NEW S, NEW u \in Seq(S), NEW v \in Seq(S), NEW a \in Nat, NEW b \in Nat,
           b <= Len(u), Len(u) <= Len(v), \A i \in 1 .. Len(u) : v[i] = u[i]
    PROVE  SubSeq(u, a + 1, b) = SubSeq(v, a + 1, b)
<1>1. Len(u) \in Nat /\ Len(v) \in Nat BY LenProperties
<1>2. \A i \in a + 1 .. b : i \in 1 .. Len(u) /\ u[i] \in S /\ v[i] = u[i]
  BY <1>1, ElementOfSeq
<1> DEFINE p == SubSeq(u, a + 1, b)
           q == SubSeq(v, a + 1, b)
<1>3. /\ p \in Seq(S) /\ Len(p) = IF a + 1 <= b THEN b - (a + 1) + 1 ELSE 0
      /\ \A i \in 1 .. b - (a + 1) + 1 : p[i] = u[a + 1 + i - 1]
  BY <1>2, SubSeqProperties
<1>4. /\ q \in Seq(S) /\ Len(q) = IF a + 1 <= b THEN b - (a + 1) + 1 ELSE 0
      /\ \A i \in 1 .. b - (a + 1) + 1 : q[i] = v[a + 1 + i - 1]
  BY <1>2, SubSeqProperties
<1> HIDE DEF p, q
<1>5. Len(p) = Len(q) BY <1>3, <1>4
<1>6. \A i \in 1 .. Len(p) : p[i] = q[i]
  <2> SUFFICES ASSUME NEW i \in 1 .. Len(p) PROVE p[i] = q[i] OBVIOUS
  <2>1. i \in 1 .. b - (a + 1) + 1 /\ a + 1 + i - 1 \in a + 1 .. b BY <1>3
  <2> QED BY <2>1, <1>2, <1>3, <1>4
<1>7. p = q BY <1>3, <1>4, <1>5, <1>6, SeqEqual
<1> QED BY <1>7 DEF p, q

\* What is retained stays: the receipt a cursor is anchored to, and the rows.
LEMMA PrefixKept ==
    ASSUME IInv, NEW s \in Session, SessionNext(s)
    PROVE  /\ Len(commits) \in Nat /\ Len(commits') \in Nat
           /\ Len(outputs) \in Nat /\ Len(outputs') \in Nat
           /\ outputs \in Seq(OutputRow) /\ outputs' \in Seq(OutputRow)
           /\ Len(commits) <= Len(commits') /\ Len(outputs) <= Len(outputs')
           /\ \A g \in 1 .. Len(commits) : commits'[g] = commits[g]
           /\ \A i \in 1 .. Len(outputs) : outputs'[i] = outputs[i]
<1>1. commits \in Seq(Receipts) /\ outputs \in Seq(OutputRow) BY DEF IInv, TypeOK
<1>2. CASE UNCHANGED durable BY <1>1, <1>2, LenProperties DEF durable
<1>3. CASE pc[s] = "commit" /\ Changed(s) /\ Install(s)
  <2>1. /\ Len(commits) \in Nat /\ Len(commits') = Len(commits) + 1
        /\ \A g \in 1 .. Len(commits) : commits'[g] = commits[g]
        /\ outputs' \in Seq(OutputRow)
    BY <1>3, InstallFacts
  <2> QED BY <1>1, <1>3, <2>1, InstalledRows, LenProperties
<1> QED BY <1>2, <1>3, FrameDurable

\* A cursor holds whatever a session does: its anchor and its prefix are
\* history, and what is appended comes after them.
LEMMA CursorKept ==
    ASSUME ReaderInv, NEW s \in Session, SessionNext(s), UNCHANGED readerVars,
           NEW r \in Reader, cursor[r] # None
    PROVE  HoldsCursor(r)'
<1> DEFINE c == cursor[r]
<1>1. IInv /\ CursorInv(c) /\ PrefixInv(c) /\ CollectedInv(r) /\ origin[r] \in Nat
  BY DEF ReaderInv, HoldsCursor, ReaderTypes
<1>2. cursor' = cursor /\ got' = got /\ origin' = origin BY DEF readerVars
<1>3. /\ Len(commits) \in Nat /\ Len(commits') \in Nat
      /\ Len(outputs) \in Nat /\ Len(outputs') \in Nat
      /\ outputs \in Seq(OutputRow) /\ outputs' \in Seq(OutputRow)
      /\ Len(commits) <= Len(commits') /\ Len(outputs) <= Len(outputs')
      /\ \A g \in 1 .. Len(commits) : commits'[g] = commits[g]
      /\ \A i \in 1 .. Len(outputs) : outputs'[i] = outputs[i]
  BY <1>1, PrefixKept
<1>4. /\ c.anchor \in Nat /\ c.anchor <= Len(commits)
      /\ c.stop \in Nat /\ c.next \in Nat /\ c.next <= c.stop /\ c.stop <= Len(outputs)
  BY <1>1 DEF CursorInv, Cursor
<1>5. CursorInv(c)'
  <2>1. c.anchor # 0 => commits'[c.anchor] = commits[c.anchor] BY <1>3, <1>4
  <2>2. StopOf(c.anchor)' = StopOf(c.anchor) /\ AnchorOf(c.anchor)' = AnchorOf(c.anchor)
    BY <1>2, <2>1 DEF StopOf, AnchorOf, OutputStop
  <2>3. c.anchor <= Len(commits') /\ c.stop <= Len(outputs') BY <1>3, <1>4
  <2> QED BY <1>1, <1>2, <2>2, <2>3 DEF CursorInv
<1>6. PrefixInv(c)'
  <2> SUFFICES ASSUME NEW i \in 1 .. Len(outputs'), i <= c.stop
               PROVE  /\ outputs'[i].generation <= c.anchor
                      /\ \A k \in 1 .. Len(outputs') : c.stop < k =>
                            outputs'[i].output.position < outputs'[k].output.position
    BY <1>2 DEF PrefixInv
  <2>1. i \in 1 .. Len(outputs) /\ outputs'[i] = outputs[i] BY <1>3, <1>4
  <2>2. outputs[i].generation <= c.anchor BY <1>1, <2>1 DEF PrefixInv
  <2>3. ASSUME NEW k \in 1 .. Len(outputs'), c.stop < k
        PROVE  outputs'[i].output.position < outputs'[k].output.position
    <3>1. CASE k <= Len(outputs)
      <4>1. k \in 1 .. Len(outputs) /\ outputs'[k] = outputs[k] BY <3>1, <1>3
      <4> QED BY <1>1, <2>1, <2>3, <4>1 DEF PrefixInv
    <3>2. CASE Len(outputs) < k
      <4>1. pc[s] = "commit" /\ Changed(s) /\ Install(s)
        <5>1. ~ UNCHANGED durable BY <3>2, <1>3 DEF durable
        <5> QED BY <5>1, FrameDurable
      <4>2. k \in Len(outputs) + 1 .. Len(outputs') BY <3>2, <1>3
      <4>3. head.checkpoint.next <= outputs'[k].output.position
            /\ outputs'[k].output.position \in Nat
        BY <1>1, <4>1, <4>2, InstalledRows
      <4>4. /\ outputs[i].output.position < head.checkpoint.next
            /\ outputs[i].output.position \in Nat
        BY <1>1, <2>1, RowFacts
      <4>5. head.checkpoint.next \in Nat BY <1>1, PointFacts DEF IInv, TypeOK
      <4> QED BY <2>1, <4>3, <4>4, <4>5
    <3> QED BY <1>3, <3>1, <3>2
  <2> QED BY <2>1, <2>2, <2>3
<1>7. CollectedInv(r)'
  <2> DEFINE a == origin[r]
             b == c.next
  <2>1. a \in Nat /\ b \in Nat /\ b <= Len(outputs) BY <1>1, <1>3, <1>4
  <2> HIDE DEF a, b
  <2>3. SubSeq(outputs, a + 1, b) = SubSeq(outputs', a + 1, b)
    BY <1>3, <2>1, PieceKept
  <2>2. SubSeq(outputs, origin[r] + 1, c.next) = SubSeq(outputs', origin[r] + 1, c.next)
    BY <2>3 DEF a, b
  <2> QED BY <1>1, <1>2, <2>2 DEF CollectedInv
<1> QED BY <1>2, <1>5, <1>6, <1>7 DEF HoldsCursor

\* A capture names the newest receipt, and collects nothing yet.
LEMMA CaptureHolds ==
    ASSUME ReaderInv, NEW r \in Reader, NEW start \in Nat, CaptureCursor(r, start)
    PROVE  ReaderTypes' /\ HoldsCursor(r)'
<1> DEFINE c == [anchor |-> head.generation, digest |-> AnchorOf(head.generation),
                 stop |-> head.checkpoint.emitted, next |-> start]
<1>1. /\ IInv /\ ReaderTypes /\ start <= head.checkpoint.emitted /\ UNCHANGED vars
      /\ cursor' = [cursor EXCEPT ![r] = c] /\ got' = [got EXCEPT ![r] = <<>>]
      /\ origin' = [origin EXCEPT ![r] = start]
  BY DEF ReaderInv, CaptureCursor
<1>2. head = head' /\ commits = commits' /\ outputs = outputs' BY <1>1 DEF vars
<1>3. /\ commits \in Seq(Receipts) /\ outputs \in Seq(OutputRow) /\ head \in Point
      /\ LatestAdmitted
  BY <1>1 DEF IInv, TypeOK, JournalInv, JournalAdmitted
<1>4. /\ head.generation \in Nat /\ head.checkpoint.emitted \in Nat
      /\ Len(commits) = head.generation /\ Len(outputs) = head.checkpoint.emitted
  BY <1>3, PointFacts DEF LatestAdmitted
<1>5. /\ AnchorOf(head.generation) \in Point \cup Receipts
      /\ StopOf(head.generation) = head.checkpoint.emitted
  <2>1. CASE head.generation = 0
    <3>1. head = InitialPoint BY <2>1, <1>3 DEF LatestAdmitted
    <3>2. head.checkpoint.emitted = 0
      BY <3>1 DEF InitialPoint, InitialCheckpoint
    <3> QED BY <2>1, <3>1, <3>2, <1>3 DEF AnchorOf, StopOf
  <2>2. CASE head.generation # 0
    <3>1. head.generation \in 1 .. Len(commits) BY <2>2, <1>4
    <3>2. commits[head.generation] \in Receipts BY <3>1, <1>3
    <3>3. commits[head.generation].after = head
      BY <2>2, <1>3, <1>4 DEF LatestAdmitted, ChainHolds
    <3> QED BY <2>2, <3>2, <3>3 DEF AnchorOf, StopOf, OutputStop
  <2> QED BY <2>1, <2>2
<1>6. c \in Cursor BY <1>4, <1>5 DEF Cursor
<1>7. cursor'[r] = c /\ got'[r] = <<>> /\ origin'[r] = start BY <1>1 DEF ReaderTypes
<1>8. ReaderTypes' BY <1>1, <1>6 DEF ReaderTypes
<1>9. /\ c.anchor = head.generation /\ c.digest = AnchorOf(head.generation)
      /\ c.stop = head.checkpoint.emitted /\ c.next = start
  OBVIOUS
<1> HIDE DEF c
<1>10. CursorInv(c)
  BY <1>1, <1>4, <1>5, <1>6, <1>9 DEF CursorInv
<1>11. PrefixInv(c)
  <2>1. \A i \in 1 .. Len(outputs) : outputs[i].generation <= c.anchor
    BY <1>1, <1>4, <1>9, RowFacts
  <2>2. \A k \in 1 .. Len(outputs) : ~ (c.stop < k) BY <1>4, <1>9
  <2> QED BY <2>1, <2>2 DEF PrefixInv
<1>12. SubSeq(outputs, start + 1, start) = <<>> BY SubSeqEmpty
<1>13. CursorInv(cursor[r])' /\ PrefixInv(cursor[r])'
  BY <1>2, <1>7, <1>10, <1>11 DEF CursorInv, PrefixInv, StopOf, AnchorOf
<1>14. CollectedInv(r)'
  BY <1>2, <1>7, <1>9, <1>12 DEF CollectedInv
<1> QED BY <1>8, <1>13, <1>14 DEF HoldsCursor

\* A page extends what its reader collected by the rows that come next.
LEMMA ReadHolds ==
    ASSUME ReaderInv, NEW r \in Reader, ReadPage(r)
    PROVE  ReaderTypes' /\ HoldsCursor(r)'
<1> DEFINE c == cursor[r]
<1>1. /\ IInv /\ ReaderTypes /\ c # None /\ HoldsCursor(r)
      /\ UNCHANGED vars /\ origin' = origin
  BY DEF ReaderInv, ReadPage
<1>2. head = head' /\ commits = commits' /\ outputs = outputs' BY <1>1 DEF vars
<1>3. /\ c \in Cursor /\ c.next \in Nat /\ c.stop \in Nat /\ c.next <= c.stop
      /\ c.stop <= Len(outputs) /\ origin[r] \in Nat /\ origin[r] <= c.next
      /\ got[r] = SubSeq(outputs, origin[r] + 1, c.next)
  BY <1>1 DEF HoldsCursor, CursorInv, CollectedInv, Cursor, ReaderTypes
<1>4. PICK n \in Nat : /\ n <= c.stop - c.next
                       /\ got' = [got EXCEPT ![r] = @ \o SubSeq(outputs, c.next + 1, c.next + n)]
                       /\ cursor' = [cursor EXCEPT ![r] = [c EXCEPT !.next = @ + n]]
  <2>0. PICK limit \in PageLimit : \E n \in PageSizes(c, limit) :
             /\ got' = [got EXCEPT ![r] = @ \o SubSeq(outputs, c.next + 1, c.next + n)]
             /\ cursor' = [cursor EXCEPT ![r] = [c EXCEPT !.next = @ + n]]
    BY DEF ReadPage
  <2>1. PICK n \in PageSizes(c, limit) :
             /\ got' = [got EXCEPT ![r] = @ \o SubSeq(outputs, c.next + 1, c.next + n)]
             /\ cursor' = [cursor EXCEPT ![r] = [c EXCEPT !.next = @ + n]]
    BY <2>0
  <2>2. n \in Nat /\ n <= c.stop - c.next
    BY <1>3, ReaderAssumption DEF PageSizes
  <2> QED BY <2>1, <2>2
<1> DEFINE d == [c EXCEPT !.next = @ + n]
<1>5. /\ d \in Cursor /\ d.next = c.next + n /\ d.anchor = c.anchor /\ d.stop = c.stop
      /\ d.digest = c.digest
  <2>1. d = [anchor |-> c.anchor, digest |-> c.digest, stop |-> c.stop, next |-> c.next + n]
    <3>1. c = [anchor |-> c.anchor, digest |-> c.digest, stop |-> c.stop, next |-> c.next]
      BY <1>3 DEF Cursor
    <3>2. ASSUME NEW a, NEW e, NEW l, NEW x
          PROVE  [[anchor |-> a, digest |-> e, stop |-> l, next |-> x] EXCEPT !.next = @ + n]
                     = [anchor |-> a, digest |-> e, stop |-> l, next |-> x + n]
      OBVIOUS
    <3> QED BY <3>1, <3>2
  <2>2. c.next + n \in Nat BY <1>3
  <2> QED BY <1>3, <2>1, <2>2 DEF Cursor
<1>6. cursor'[r] = d /\ cursor' = [cursor EXCEPT ![r] = d]
      /\ got'[r] = got[r] \o SubSeq(outputs, c.next + 1, c.next + n)
      /\ DOMAIN got' = Reader
  BY <1>1, <1>4 DEF ReaderTypes
<1> HIDE DEF d
<1>7. ReaderTypes' BY <1>1, <1>5, <1>6 DEF ReaderTypes
<1>8. CursorInv(cursor[r])'
  <2>1. CursorInv(c) BY <1>1 DEF HoldsCursor
  <2>2. d.next <= d.stop BY <1>3, <1>4, <1>5
  <2> QED BY <1>2, <1>5, <1>6, <2>1, <2>2 DEF CursorInv, StopOf, AnchorOf
<1>9. PrefixInv(cursor[r])'
  <2>1. PrefixInv(c) BY <1>1 DEF HoldsCursor
  <2> QED BY <1>2, <1>5, <1>6, <2>1 DEF PrefixInv
<1>10. CollectedInv(r)'
  <2>1. outputs \in Seq(OutputRow) /\ Len(outputs) \in Nat
    BY <1>1, LenProperties DEF IInv, TypeOK
  <2>2. /\ origin[r] + 1 \in 1 .. Len(outputs) + 1
        /\ c.next \in (origin[r] + 1) - 1 .. Len(outputs)
        /\ c.next + n \in c.next .. Len(outputs)
    <3>1. ASSUME NEW a \in Nat, NEW b \in Nat, NEW e \in Nat, NEW l \in Nat,
                 a <= b, b <= e, e <= l, n <= e - b
          PROVE  a + 1 \in 1 .. l + 1 /\ b \in (a + 1) - 1 .. l /\ b + n \in b .. l
      BY <3>1
    <3> QED BY <1>3, <1>4, <2>1, <3>1
  <2>3. SubSeq(outputs, origin[r] + 1, c.next) \o SubSeq(outputs, c.next + 1, c.next + n)
          = SubSeq(outputs, origin[r] + 1, c.next + n)
    BY <2>1, <2>2, ConcatAdjacentSubSeq
  <2>4. got'[r] = SubSeq(outputs', origin'[r] + 1, cursor'[r].next)
    BY <1>1, <1>2, <1>3, <1>5, <1>6, <2>3
  <2>5. origin'[r] <= cursor'[r].next
    <3>1. origin'[r] = origin[r] /\ cursor'[r].next = c.next + n BY <1>1, <1>5, <1>6
    <3> QED BY <1>3, <1>4, <3>1
  <2> QED BY <2>4, <2>5 DEF CollectedInv
<1> QED BY <1>7, <1>8, <1>9, <1>10 DEF HoldsCursor

\* A reader's own step leaves the other readers' cursors alone.
LEMMA OtherReaders ==
    ASSUME ReaderInv, UNCHANGED vars, NEW r \in Reader, NEW t \in Reader, t # r,
           cursor'[t] = cursor[t], got'[t] = got[t], origin'[t] = origin[t],
           cursor'[t] # None
    PROVE  HoldsCursor(t)'
<1>1. HoldsCursor(t) BY DEF ReaderInv
<1>2. head = head' /\ commits = commits' /\ outputs = outputs' BY DEF vars
<1> QED
  BY <1>1, <1>2 DEF HoldsCursor, CursorInv, PrefixInv, CollectedInv, StopOf, AnchorOf

-----------------------------------------------------------------------------
LEMMA ReaderInvInit == ReaderInit => ReaderInv
<1> SUFFICES ASSUME ReaderInit PROVE ReaderInv OBVIOUS
<1>1. IInv BY InvInit DEF ReaderInit
<1>2. RowsFollow
  <2>1. outputs = <<>> /\ Len(<<>>) = 0 BY DEF ReaderInit, Init
  <2> QED BY <2>1 DEF RowsFollow
<1>3. ReaderTypes /\ \A r \in Reader : cursor[r] = None
  BY DEF ReaderInit, ReaderTypes
<1> QED BY <1>1, <1>2, <1>3 DEF ReaderInv

LEMMA ReaderInvStep == ReaderInv /\ [ReaderNext]_allVars => ReaderInv'
<1> SUFFICES ASSUME ReaderInv, [ReaderNext]_allVars PROVE ReaderInv' OBVIOUS
<1>0. IInv /\ RowsFollow /\ ReaderTypes BY DEF ReaderInv
<1>1. ASSUME UNCHANGED vars PROVE IInv' /\ RowsFollow'
  <2>1. IInv' BY <1>0, <1>1, InvStutter
  <2>2. outputs' = outputs BY <1>1 DEF vars
  <2> QED BY <1>0, <2>1, <2>2 DEF RowsFollow
<1>2. CASE Next /\ UNCHANGED readerVars
  <2>1. PICK s \in Session : SessionNext(s) BY <1>2 DEF Next
  <2>2. IInv' BY <1>0, <2>1, InvStep
  <2>3. RowsFollow' BY <1>0, <2>1, RowsKeepFollowing
  <2>4. ReaderTypes' BY <1>0, <1>2 DEF ReaderTypes, readerVars
  <2>5. \A r \in Reader : cursor[r] # None => HoldsCursor(r)' BY <1>2, <2>1, CursorKept
  <2>6. cursor' = cursor BY <1>2 DEF readerVars
  <2> QED BY <2>2, <2>3, <2>4, <2>5, <2>6 DEF ReaderInv
<1>3. ASSUME NEW r \in Reader, NEW start \in 0 .. MaxHistory, CaptureCursor(r, start)
      PROVE  ReaderInv'
  <2>1. start \in Nat /\ UNCHANGED vars BY <1>3, JournalAssumption DEF CaptureCursor
  <2>2. ReaderTypes' /\ HoldsCursor(r)' BY <1>3, <2>1, CaptureHolds
  <2>3. \A t \in Reader \ {r} :
            cursor'[t] = cursor[t] /\ got'[t] = got[t] /\ origin'[t] = origin[t]
    BY <1>0, <1>3 DEF CaptureCursor, ReaderTypes
  <2>4. \A t \in Reader \ {r} : cursor'[t] # None => HoldsCursor(t)'
    BY <2>1, <2>3, OtherReaders
  <2> QED BY <1>1, <2>1, <2>2, <2>4 DEF ReaderInv
<1>4. ASSUME NEW r \in Reader, ReadPage(r) PROVE ReaderInv'
  <2>1. UNCHANGED vars BY <1>4 DEF ReadPage
  <2>2. ReaderTypes' /\ HoldsCursor(r)' BY <1>4, ReadHolds
  <2>3. \A t \in Reader \ {r} :
            cursor'[t] = cursor[t] /\ got'[t] = got[t] /\ origin'[t] = origin[t]
    BY <1>0, <1>4 DEF ReadPage, ReaderTypes
  <2>4. \A t \in Reader \ {r} : cursor'[t] # None => HoldsCursor(t)'
    BY <2>1, <2>3, OtherReaders
  <2> QED BY <1>1, <2>1, <2>2, <2>4 DEF ReaderInv
<1>5. ASSUME NEW r \in Reader, Discard(r) PROVE ReaderInv'
  <2>1. UNCHANGED vars BY <1>5 DEF Discard
  <2>2. ReaderTypes' /\ cursor'[r] = None BY <1>0, <1>5 DEF Discard, ReaderTypes
  <2>3. \A t \in Reader \ {r} :
            cursor'[t] = cursor[t] /\ got'[t] = got[t] /\ origin'[t] = origin[t]
    BY <1>0, <1>5 DEF Discard, ReaderTypes
  <2>4. \A t \in Reader \ {r} : cursor'[t] # None => HoldsCursor(t)'
    BY <2>1, <2>3, OtherReaders
  <2> QED BY <1>1, <2>1, <2>2, <2>4 DEF ReaderInv
<1>6. CASE UNCHANGED allVars
  <2>1. UNCHANGED vars /\ UNCHANGED readerVars BY <1>6 DEF allVars
  <2>2. ReaderTypes' BY <1>0, <2>1 DEF ReaderTypes, readerVars
  <2>3. \A t \in Reader : cursor'[t] # None => HoldsCursor(t)'
    <3>1. head = head' /\ commits = commits' /\ outputs = outputs' BY <2>1 DEF vars
    <3>2. cursor = cursor' /\ got = got' /\ origin = origin' BY <2>1 DEF readerVars
    <3> QED BY <3>1, <3>2 DEF ReaderInv, HoldsCursor, CursorInv, PrefixInv, CollectedInv,
           StopOf, AnchorOf
  <2> QED BY <1>1, <2>1, <2>2, <2>3 DEF ReaderInv
<1> QED BY <1>2, <1>3, <1>4, <1>5, <1>6 DEF ReaderNext

(***************************************************************************)
(* The inductive invariant holds beside any sessions and any readers.      *)
(***************************************************************************)
THEOREM ReaderInvariance == ReaderSpec => []ReaderInv
<1> QED BY ReaderInvInit, ReaderInvStep, PTL DEF ReaderSpec

\* Every check a page performs passes, on all of what is left before the stop.
LEMMA CursorReadable ==
    ASSUME ReaderInv, NEW r \in Reader, cursor[r] # None
    PROVE  PageAdmitted(cursor[r], cursor[r].stop - cursor[r].next)
<1> DEFINE c == cursor[r]
           n == c.stop - c.next
<1>1. /\ IInv /\ RowsFollow /\ CursorInv(c) /\ PrefixInv(c)
  BY DEF ReaderInv, HoldsCursor
<1>2. /\ c.anchor \in Nat /\ c.next \in Nat /\ c.stop \in Nat /\ c.next <= c.stop
      /\ c.stop <= Len(outputs) /\ c.anchor <= Len(commits)
      /\ c.stop = StopOf(c.anchor) /\ c.digest = AnchorOf(c.anchor)
  BY <1>1 DEF CursorInv, Cursor
<1>3. /\ commits \in Seq(Receipts) /\ outputs \in Seq(OutputRow)
      /\ Len(commits) = head.generation /\ OutputsLieInReceipts
      /\ \A g \in DOMAIN commits : ChainHolds(g)
  BY <1>1 DEF IInv, TypeOK, JournalInv, JournalAdmitted, LatestAdmitted
<1>4. Len(commits) \in Nat /\ Len(outputs) \in Nat BY <1>3, LenProperties
<1>5. n \in Nat /\ c.next + n = c.stop BY <1>2
<1> HIDE DEF n
<1>6. CursorAdmitted(c)
  <2>1. c.anchor > 0 => ChainHolds(c.anchor) BY <1>2, <1>3, <1>4
  <2> QED BY <1>2, <1>3, <2>1 DEF CursorAdmitted
<1>7. ASSUME NEW i \in c.next .. c.stop, i > 0 PROVE RowAdmitted(c, i)
  <2>1. i \in 1 .. Len(outputs) /\ i \in DOMAIN outputs /\ i <= c.stop
    BY <1>2, <1>3, <1>4, <1>7
  <2>2. outputs[i].generation <= c.anchor BY <1>1, <2>1 DEF PrefixInv
  <2>3. ChainHolds(outputs[i].generation) BY <1>1, <2>1, RowFacts
  <2> QED BY <1>3, <2>1, <2>2, <2>3 DEF RowAdmitted, OutputsLieInReceipts
<1>8. ASSUME NEW i \in c.next .. c.stop - 1, i > 0 PROVE Follows(outputs[i], outputs[i + 1])
  <2>1. i \in 1 .. Len(outputs) - 1 BY <1>2, <1>4, <1>8
  <2> QED BY <1>1, <2>1 DEF RowsFollow
<1>9. PageAdmitted(c, n)
  BY <1>2, <1>5, <1>6, <1>7, <1>8 DEF PageAdmitted
<1> QED BY <1>9 DEF n

(***************************************************************************)
(* The rows a reader collected are exactly the prefix it asked for, what   *)
(* is left of it passes every check of read_outputs, and the prefix ends   *)
(* between waves: for any readers, sessions, page sizes and bounds.        *)
(***************************************************************************)
THEOREM PagesStayPrefix == ReaderSpec => []PagesArePrefix
<1>1. ReaderInv => PagesArePrefix
  <2> SUFFICES ASSUME ReaderInv PROVE PagesArePrefix OBVIOUS
  <2>1. CursorStaysReadable BY CursorReadable DEF CursorStaysReadable
  <2>2. PrefixHoldsWholeWaves
    <3> SUFFICES ASSUME NEW r \in Reader, cursor[r] # None,
                        NEW i \in DOMAIN outputs, NEW k \in DOMAIN outputs,
                        i <= cursor[r].stop, cursor[r].stop < k
                 PROVE  outputs[i].output.position < outputs[k].output.position
      BY DEF PrefixHoldsWholeWaves
    <3>1. PrefixInv(cursor[r]) BY DEF ReaderInv, HoldsCursor
    <3>2. i \in 1 .. Len(outputs) /\ k \in 1 .. Len(outputs)
      BY DEF ReaderInv, IInv, TypeOK
    <3> QED BY <3>1, <3>2 DEF PrefixInv
  <2>3. \A r \in Reader : cursor[r] # None =>
            got[r] = SubSeq(outputs, origin[r] + 1, cursor[r].next)
    BY DEF ReaderInv, HoldsCursor, CollectedInv
  <2> QED BY <2>1, <2>2, <2>3 DEF PagesArePrefix
<1> QED BY <1>1, ReaderInvariance, PTL
=============================================================================
