----------------------------- MODULE RecoveryProofs ----------------------------
(***************************************************************************)
(* Proofs about the two stores without receipts.                           *)
(*                                                                         *)
(* FlowJournal, for any graph of steps and branches, source, owners,       *)
(* slices and faults: what is committed is what the flow applied once to   *)
(* every record of a prefix of the source comes to.                        *)
(*                                                                         *)
(* RecoveryStore, for any processes, configurations, sources, batches and  *)
(* faults: whatever is stored is what one uninterrupted call would have    *)
(* stored at that position, if a restored aligner cannot be told from one  *)
(* that was not restored.                                                  *)
(***************************************************************************)
EXTENDS FlowJournal, RecoveryStore, ProofLemmas, SequenceTheorems

\* The flows are admitted, and each is one the journal can rely on.
FlowsHold ==
    /\ MaxRecords \in Nat /\ MaxBatchInputs \in Nat
    /\ \A f \in Flows : FlowAdmitted(f) /\ RuntimeKept(f)

-----------------------------------------------------------------------------
(***************************************************************************)
(* The serial run, one record at a time.                                   *)
(***************************************************************************)
SerialNext(f, acc, p) ==
    LET result == Processed(f.graph, acc.runtime, f.source[p])
    IN  [ok |-> acc.ok /\ result.ok, runtime |-> result.runtime,
         rows |-> acc.rows \o RowsOf(result, p - 1, Len(acc.rows))]

SerialStart == [ok |-> TRUE, runtime |-> NewRuntime, rows |-> <<>>]

SerialRun(u, f) ==
    u = [p \in 0 .. Len(f.source) |->
            IF p = 0 THEN SerialStart ELSE SerialNext(f, u[p - 1], p)]

\* The recursion of the serial run has a solution.
LEMMA SerialDefined ==
    ASSUME NEW f, Len(f.source) \in Nat
    PROVE  \E u : SerialRun(u, f)
<1> DEFINE Step(u, p) == IF p = 0 THEN SerialStart ELSE SerialNext(f, u[p - 1], p)
           Solved(m) == \E u : u = [p \in 0 .. m |-> Step(u, p)]
           Bad == {m \in 0 .. Len(f.source) : ~ Solved(m)}
<1> SUFFICES Solved(Len(f.source)) BY DEF SerialRun
<1> SUFFICES ASSUME Bad # {} PROVE FALSE OBVIOUS
<1>1. PICK m \in Bad : \A n \in Bad : m <= n
  <2>1. Bad \in SUBSET Nat OBVIOUS
  <2> HIDE DEF Bad
  <2> QED BY <2>1, LeastNatural
<1>2. m # 0
  <2> DEFINE u == [p \in 0 .. 0 |-> SerialStart]
  <2>1. u = [p \in 0 .. 0 |-> Step(u, p)]
    <3>1. \A p \in 0 .. 0 : Step(u, p) = SerialStart OBVIOUS
    <3> QED BY <3>1
  <2> QED BY <2>1
<1>3. PICK u : u = [p \in 0 .. m - 1 |-> Step(u, p)]
  <2> HIDE DEF Solved
  <2>1. m - 1 \in 0 .. Len(f.source) /\ m - 1 \notin Bad BY <1>1, <1>2
  <2>2. Solved(m - 1) BY <2>1
  <2> QED BY <2>2 DEF Solved
<1> DEFINE v == [p \in 0 .. m |-> IF p = m THEN Step(u, m) ELSE u[p]]
<1>4. v = [p \in 0 .. m |-> Step(v, p)]
  <2>1. \A p \in 0 .. m : p # 0 => p - 1 \in 0 .. m - 1 /\ v[p - 1] = u[p - 1]
    BY <1>2
  <2>2. \A p \in 0 .. m : Step(v, p) = Step(u, p) BY <2>1
  <2>3. \A p \in 0 .. m - 1 : u[p] = Step(u, p) BY <1>3
  <2>4. \A p \in 0 .. m : v[p] = Step(u, p)
    <3> HIDE DEF Step
    <3> QED BY <2>3
  <2> HIDE DEF Step
  <2> QED BY <2>2, <2>4
<1> QED BY <1>1, <1>4

\* One more record is processed in the state the others left.
LEMMA SerialSteps ==
    ASSUME NEW f, Len(f.source) \in Nat
    PROVE  /\ Serially(f, 0) = SerialStart
           /\ \A p \in 1 .. Len(f.source) :
                 Serially(f, p) = SerialNext(f, Serially(f, p - 1), p)
<1> DEFINE u == CHOOSE u : SerialRun(u, f)
<1>1. SerialRun(u, f) BY SerialDefined
<1>2. \A n : Serially(f, n) = u[n]
  BY DEF Serially, SerialRun, SerialNext, SerialStart
<1> HIDE DEF u
<1>3. u[0] = SerialStart BY <1>1 DEF SerialRun
<1>4. \A p \in 1 .. Len(f.source) : u[p] = SerialNext(f, u[p - 1], p)
  <2> SUFFICES ASSUME NEW p \in 1 .. Len(f.source) PROVE u[p] = SerialNext(f, u[p - 1], p)
    OBVIOUS
  <2>1. p \in 0 .. Len(f.source) /\ p # 0 OBVIOUS
  <2> QED BY <1>1, <2>1 DEF SerialRun
<1> QED BY <1>2, <1>3, <1>4

-----------------------------------------------------------------------------
(***************************************************************************)
(* A slice, one record at a time.                                          *)
(***************************************************************************)
SliceNext(checkpoint, acc, record) ==
    LET result == Processed(flow.graph, acc.runtime, record)
    IN  IF acc.ok
          THEN [ok      |-> result.ok /\ Len(acc.rows) + Len(result.outputs) <= MaxBatchOutputs,
                runtime |-> result.runtime,
                rows    |-> acc.rows \o RowsOf(result, acc.runtime.processed,
                                               checkpoint.emitted + Len(acc.rows))]
          ELSE acc

SliceStart(checkpoint) == [ok |-> TRUE, runtime |-> Restored(checkpoint), rows |-> <<>>]

SliceRun(u, checkpoint, records) ==
    u = [n \in 0 .. Len(records) |->
            IF n = 0 THEN SliceStart(checkpoint)
            ELSE SliceNext(checkpoint, u[n - 1], records[n])]

\* The recursion of a slice has a solution.
LEMMA SliceDefined ==
    ASSUME NEW checkpoint, NEW records, Len(records) \in Nat
    PROVE  \E u : SliceRun(u, checkpoint, records)
<1> DEFINE Step(u, n) == IF n = 0 THEN SliceStart(checkpoint)
                         ELSE SliceNext(checkpoint, u[n - 1], records[n])
           Solved(m) == \E u : u = [n \in 0 .. m |-> Step(u, n)]
           Bad == {m \in 0 .. Len(records) : ~ Solved(m)}
<1> SUFFICES Solved(Len(records)) BY DEF SliceRun
<1> SUFFICES ASSUME Bad # {} PROVE FALSE OBVIOUS
<1>1. PICK m \in Bad : \A n \in Bad : m <= n
  <2>1. Bad \in SUBSET Nat OBVIOUS
  <2> HIDE DEF Bad
  <2> QED BY <2>1, LeastNatural
<1>2. m # 0
  <2> DEFINE u == [n \in 0 .. 0 |-> SliceStart(checkpoint)]
  <2>1. u = [n \in 0 .. 0 |-> Step(u, n)]
    <3>1. \A n \in 0 .. 0 : Step(u, n) = SliceStart(checkpoint) OBVIOUS
    <3> QED BY <3>1
  <2> QED BY <2>1
<1>3. PICK u : u = [n \in 0 .. m - 1 |-> Step(u, n)]
  <2> HIDE DEF Solved
  <2>1. m - 1 \in 0 .. Len(records) /\ m - 1 \notin Bad BY <1>1, <1>2
  <2>2. Solved(m - 1) BY <2>1
  <2> QED BY <2>2 DEF Solved
<1> DEFINE v == [n \in 0 .. m |-> IF n = m THEN Step(u, m) ELSE u[n]]
<1>4. v = [n \in 0 .. m |-> Step(v, n)]
  <2>1. \A n \in 0 .. m : n # 0 => n - 1 \in 0 .. m - 1 /\ v[n - 1] = u[n - 1]
    BY <1>2
  <2>2. \A n \in 0 .. m : Step(v, n) = Step(u, n) BY <2>1
  <2>3. \A n \in 0 .. m - 1 : u[n] = Step(u, n) BY <1>3
  <2>4. \A n \in 0 .. m : v[n] = Step(u, n)
    <3> HIDE DEF Step
    <3> QED BY <2>3
  <2> HIDE DEF Step
  <2> QED BY <2>2, <2>4
<1> QED BY <1>1, <1>4

\* A slice is the last value of such a solution.
LEMMA SliceRuns ==
    ASSUME NEW checkpoint, NEW records, Len(records) \in Nat
    PROVE  \E u : SliceRun(u, checkpoint, records) /\ Sliced(checkpoint, records) = u[Len(records)]
<1> DEFINE u == CHOOSE u : SliceRun(u, checkpoint, records)
<1>1. SliceRun(u, checkpoint, records) BY SliceDefined
<1>2. Sliced(checkpoint, records) = u[Len(records)]
  BY DEF Sliced, SliceRun, SliceNext, SliceStart
<1> QED BY <1>1, <1>2

-----------------------------------------------------------------------------
(***************************************************************************)
(* What the serial run comes to after p records.                           *)
(***************************************************************************)

\* All rows the flow emits.
RowSet(f) == UNION {{RowsAt(f, p)[i] : i \in DOMAIN RowsAt(f, p)} : p \in 1 .. Len(f.source)}

\* What the readers verify of row i when p records were processed.
RowFits(f, all, p, i) ==
    /\ all[i].sequence = i - 1
    /\ all[i].position \in 0 .. p - 1
    /\ Outgoing(f.graph, all[i].step) = <<>>
    /\ i > 1 => /\ all[i - 1].position <= all[i].position
                /\ all[i - 1].position = all[i].position =>
                      Rank(f.graph, all[i - 1].step) <= Rank(f.graph, all[i].step)

SerialFits(f, p) ==
    LET serial == Serially(f, p) IN
    /\ serial.rows \in Seq(RowSet(f))
    /\ serial.runtime.processed = p
    /\ serial.runtime.emitted = Len(serial.rows)
    /\ \A i \in 1 .. Len(serial.rows) : RowFits(f, serial.rows, p, i)

\* Counters of a runtime advance with every record.
LEMMA ProcessedCounts ==
    ASSUME NEW g, NEW state, NEW record
    PROVE  LET result == Processed(g, state, record) IN
           /\ result.runtime.processed = state.processed + 1
           /\ result.runtime.emitted = state.emitted + Len(result.outputs)
  BY DEF Processed

\* The rows of one record.
LEMMA RowsAtHold ==
    ASSUME NEW f, RuntimeKept(f), NEW p \in 1 .. Len(f.source), Serially(f, p).ok
    PROVE  LET emitted == RowsAt(f, p)
               outputs == Processed(f.graph, Serially(f, p - 1).runtime, f.source[p]).outputs
               before  == Serially(f, p - 1)
           IN  /\ emitted \in Seq(RowSet(f)) /\ Len(emitted) = Len(outputs) /\ Len(emitted) \in Nat
               /\ \A i \in 1 .. Len(emitted) :
                     /\ emitted[i].sequence = Len(before.rows) + i - 1
                     /\ emitted[i].position = p - 1
                     /\ Outgoing(f.graph, emitted[i].step) = <<>>
                     /\ i > 1 => Rank(f.graph, emitted[i - 1].step)
                                    <= Rank(f.graph, emitted[i].step)
<1> DEFINE result  == Processed(f.graph, Serially(f, p - 1).runtime, f.source[p])
           emitted == RowsAt(f, p)
           outputs == result.outputs
           count   == Len(Serially(f, p - 1).rows)
<1>1. /\ DOMAIN emitted = 1 .. Len(emitted) /\ Len(emitted) \in Nat
      /\ \A i \in DOMAIN emitted :
            /\ Outgoing(f.graph, emitted[i].step) = <<>>
            /\ i > 1 => Rank(f.graph, emitted[i - 1].step) <= Rank(f.graph, emitted[i].step)
  BY DEF RuntimeKept
<1>2. emitted = [i \in DOMAIN outputs |->
                    [sequence |-> count + i - 1, position |-> p - 1,
                     step |-> outputs[i].step, record |-> outputs[i].record]]
  BY DEF RowsAt, RowsOf
<1> HIDE DEF emitted, result, count
<1>3. DOMAIN outputs = 1 .. Len(emitted) BY <1>1, <1>2
<1>4. Len(outputs) = Len(emitted) BY <1>1, <1>3
<1>5. \A i \in 1 .. Len(emitted) : emitted[i].sequence = count + i - 1 /\ emitted[i].position = p - 1
  BY <1>2, <1>3
<1>6. emitted \in Seq(RowSet(f))
  <2>1. \A i \in DOMAIN emitted : emitted[i] \in RowSet(f) BY DEF RowSet, emitted
  <2>2. emitted = [i \in 1 .. Len(emitted) |-> emitted[i]] BY <1>2, <1>3
  <2>3. emitted \in [1 .. Len(emitted) -> RowSet(f)] BY <1>1, <2>1, <2>2
  <2> QED BY <1>1, <2>3
<1> QED BY <1>1, <1>4, <1>5, <1>6 DEF emitted, result, count

\* A record that is not refused was not preceded by one that was.
LEMMA SerialBefore ==
    ASSUME NEW f, Len(f.source) \in Nat, NEW p \in 1 .. Len(f.source), Serially(f, p).ok
    PROVE  LET result == Processed(f.graph, Serially(f, p - 1).runtime, f.source[p]) IN
           /\ Serially(f, p - 1).ok
           /\ Serially(f, p).runtime = result.runtime
           /\ Serially(f, p).rows = Serially(f, p - 1).rows \o RowsAt(f, p)
<1> DEFINE old     == Serially(f, p - 1)
           new     == Serially(f, p)
           result  == Processed(f.graph, old.runtime, f.source[p])
           emitted == RowsAt(f, p)
<1>1. new = [ok |-> old.ok /\ result.ok, runtime |-> result.runtime,
             rows |-> old.rows \o emitted]
  BY SerialSteps DEF SerialNext, RowsAt
<1>2. new.ok OBVIOUS
<1> HIDE DEF new, old, result, emitted
<1>3. new.runtime = result.runtime /\ new.rows = old.rows \o emitted BY <1>1
<1>4. new.ok = (old.ok /\ result.ok) BY ONLY <1>1
<1>5. old.ok /\ result.ok BY <1>2, <1>4
<1> QED BY <1>3, <1>5 DEF new, old, result, emitted

\* Every prefix that is not refused.
LEMMA SerialHolds ==
    ASSUME NEW f, Len(f.source) \in Nat, RuntimeKept(f), NEW p \in 0 .. Len(f.source),
           Serially(f, p).ok
    PROVE  SerialFits(f, p)
<1> DEFINE Bad == {q \in 0 .. Len(f.source) : Serially(f, q).ok /\ ~ SerialFits(f, q)}
<1> SUFFICES ASSUME Bad # {} PROVE FALSE OBVIOUS
<1>1. PICK m \in Bad : \A n \in Bad : m <= n
  <2>1. Bad \in SUBSET Nat OBVIOUS
  <2> HIDE DEF Bad
  <2> QED BY <2>1, LeastNatural
<1>2. m # 0
  <2>1. Serially(f, 0) = SerialStart BY SerialSteps
  <2>2. SerialFits(f, 0)
    <3>1. /\ SerialStart.rows = <<>> /\ SerialStart.runtime.processed = 0
          /\ SerialStart.runtime.emitted = 0
      BY DEF SerialStart, NewRuntime
    <3>2. <<>> \in Seq(RowSet(f)) /\ Len(<<>>) = 0 BY EmptySeq
    <3>3. 1 .. 0 = {} OBVIOUS
    <3> QED BY <2>1, <3>1, <3>2, <3>3 DEF SerialFits
  <2> QED BY <1>1, <2>2
<1>3. m \in 1 .. Len(f.source) /\ Serially(f, m).ok /\ ~ SerialFits(f, m) BY <1>1, <1>2
<1> DEFINE old     == Serially(f, m - 1)
           new     == Serially(f, m)
           emitted == RowsAt(f, m)
           result  == Processed(f.graph, old.runtime, f.source[m])
<1>4. /\ old.ok /\ new.runtime = result.runtime /\ new.rows = old.rows \o emitted
  BY <1>3, SerialBefore
<1>5. SerialFits(f, m - 1)
  <2>1. m - 1 \in 0 .. Len(f.source) /\ ~ (m <= m - 1) BY <1>3
  <2> QED BY <1>1, <1>4, <2>1
<1>6. /\ emitted \in Seq(RowSet(f)) /\ Len(emitted) = Len(result.outputs) /\ Len(emitted) \in Nat
      /\ \A i \in 1 .. Len(emitted) :
            /\ emitted[i].sequence = Len(old.rows) + i - 1
            /\ emitted[i].position = m - 1
            /\ Outgoing(f.graph, emitted[i].step) = <<>>
            /\ i > 1 => Rank(f.graph, emitted[i - 1].step) <= Rank(f.graph, emitted[i].step)
  BY <1>3, RowsAtHold
<1>7. /\ old.rows \in Seq(RowSet(f)) /\ old.runtime.processed = m - 1
      /\ old.runtime.emitted = Len(old.rows)
      /\ \A i \in 1 .. Len(old.rows) : RowFits(f, old.rows, m - 1, i)
  BY <1>5 DEF SerialFits
<1>8. /\ new.runtime.processed = old.runtime.processed + 1
      /\ new.runtime.emitted = old.runtime.emitted + Len(result.outputs)
  BY <1>4, ProcessedCounts
<1> HIDE DEF old, new, emitted, result, Bad
<1>9. /\ Len(old.rows) \in Nat
      /\ new.rows \in Seq(RowSet(f)) /\ Len(new.rows) = Len(old.rows) + Len(emitted)
      /\ \A i \in 1 .. Len(old.rows) + Len(emitted) : new.rows[i] =
            IF i <= Len(old.rows) THEN old.rows[i] ELSE emitted[i - Len(old.rows)]
  <2>1. Len(old.rows) \in Nat BY <1>7, LenProperties
  <2>2. old.rows \in Seq(RowSet(f)) /\ emitted \in Seq(RowSet(f)) BY <1>6, <1>7
  <2>3. /\ old.rows \o emitted \in Seq(RowSet(f))
        /\ Len(old.rows \o emitted) = Len(old.rows) + Len(emitted)
    BY <2>2, ConcatProperties
  <2>4. \A i \in 1 .. Len(old.rows) + Len(emitted) : (old.rows \o emitted)[i] =
            IF i <= Len(old.rows) THEN old.rows[i] ELSE emitted[i - Len(old.rows)]
    BY <2>2, ConcatProperties
  <2> QED BY <1>4, <2>1, <2>3, <2>4
<1> DEFINE first == Len(old.rows)
           more  == Len(emitted)
<1>10. first \in Nat /\ more \in Nat BY <1>6, <1>9
<1>11. \A i \in 1 .. Len(new.rows) : RowFits(f, new.rows, m, i)
  <2> SUFFICES ASSUME NEW i \in 1 .. Len(new.rows) PROVE RowFits(f, new.rows, m, i)
    OBVIOUS
  <2>1. CASE i <= Len(old.rows)
    <3>1. i \in 1 .. Len(old.rows) BY <1>9, <2>1
    <3>2. RowFits(f, old.rows, m - 1, i) BY <1>7, <3>1
    <3>3. new.rows[i] = old.rows[i] /\ (i > 1 => new.rows[i - 1] = old.rows[i - 1])
      BY <1>9, <2>1
    <3>4. (m - 1) - 1 < m - 1 /\ \A x \in 0 .. (m - 1) - 1 : x \in 0 .. m - 1 BY <1>3
    <3> QED BY <3>2, <3>3, <3>4 DEF RowFits
  <2>2. CASE i > Len(old.rows)
    <3> DEFINE j == i - Len(old.rows)
    <3>1. j \in 1 .. Len(emitted) /\ new.rows[i] = emitted[j] /\ Len(old.rows) + j - 1 = i - 1
      <4>1. i \in Nat /\ i <= first + more /\ i > first /\ i >= 1 BY <1>9, <2>2
      <4> HIDE DEF first, more
      <4>2. i - first \in 1 .. more /\ first + (i - first) - 1 = i - 1 BY <1>10, <4>1
      <4>3. ~ (i <= first) /\ i \in 1 .. first + more BY <1>10, <4>1
      <4> USE DEF first, more
      <4>4. new.rows[i] = emitted[j] BY <1>9, <4>3
      <4> QED BY <4>2, <4>4
    <3>2. /\ new.rows[i].sequence = i - 1 /\ new.rows[i].position = m - 1
          /\ Outgoing(f.graph, new.rows[i].step) = <<>>
      BY <1>6, <3>1
    <3>3. m - 1 \in 0 .. m - 1 BY <1>3
    <3>4. ASSUME i > 1
          PROVE  /\ new.rows[i - 1].position <= new.rows[i].position
                 /\ new.rows[i - 1].position = new.rows[i].position =>
                       Rank(f.graph, new.rows[i - 1].step) <= Rank(f.graph, new.rows[i].step)
      <4>1. CASE j = 1
        <5>1. i - 1 \in 1 .. Len(old.rows) /\ new.rows[i - 1] = old.rows[i - 1]
          BY <1>9, <2>2, <3>4, <4>1
        <5>2. old.rows[i - 1].position \in 0 .. (m - 1) - 1 BY <1>7, <5>1 DEF RowFits
        <5>3. old.rows[i - 1].position < m - 1 BY <5>2, <1>3
        <5>4. old.rows[i - 1].position \in Int /\ m - 1 \in Int BY <1>3, <5>2
        <5>5. new.rows[i - 1].position # new.rows[i].position
              /\ new.rows[i - 1].position <= new.rows[i].position
          BY <3>2, <5>1, <5>3, <5>4
        <5> QED BY <5>5
      <4>2. CASE j # 1
        <5>1. j - 1 \in 1 .. Len(emitted) /\ new.rows[i - 1] = emitted[j - 1] /\ j > 1
          <6>1. j \in 1 .. Len(emitted) /\ i \in Nat BY <3>1
          <6> HIDE DEF j
          <6>2. j - 1 \in 1 .. Len(emitted) /\ j > 1 BY <4>2, <6>1, <1>6
          <6> USE DEF j
          <6>3. i \in Nat /\ i <= first + more /\ i > first /\ i >= 1 /\ i - first # 1
            BY <1>9, <2>2, <4>2
          <6> HIDE DEF first, more
          <6>4. i - 1 \in 1 .. first + more /\ ~ (i - 1 <= first) BY <1>10, <6>3
          <6> USE DEF first, more
          <6>5. (i - 1) - Len(old.rows) = j - 1 BY <1>9, <6>1
          <6>6. new.rows[i - 1] = emitted[(i - 1) - Len(old.rows)] BY <1>9, <6>4
          <6> QED BY <6>2, <6>5, <6>6
        <5>2. new.rows[i - 1].position = m - 1 BY <1>6, <5>1
        <5>3. Rank(f.graph, emitted[j - 1].step) <= Rank(f.graph, emitted[j].step)
          BY <1>6, <3>1, <5>1
        <5> QED BY <1>3, <3>1, <3>2, <5>1, <5>2, <5>3
      <4> QED BY <4>1, <4>2
    <3> QED BY <3>2, <3>3, <3>4 DEF RowFits
  <2> QED BY <1>9, <2>1, <2>2
<1>12. SerialFits(f, m)
  <2>1. new.runtime.processed = m BY <1>3, <1>7, <1>8
  <2>2. new.runtime.emitted = Len(new.rows) BY <1>6, <1>7, <1>8, <1>9
  <2> QED BY <1>9, <1>11, <2>1, <2>2 DEF SerialFits, new
<1> QED BY <1>3, <1>12

-----------------------------------------------------------------------------
(***************************************************************************)
(* A slice from a checkpoint of the serial run is a part of that run.      *)
(***************************************************************************)
FlowHolds(f) == FlowAdmitted(f) /\ RuntimeKept(f) /\ Len(f.source) \in Nat

\* The slice u, n records after position q.
SliceFits(u, q, n) ==
    LET before == Serially(flow, q)
        after  == Serially(flow, q + n)
    IN  /\ after.ok
        /\ u[n].runtime = after.runtime
        /\ u[n].rows \in Seq(RowSet(flow))
        /\ after.rows = before.rows \o u[n].rows

\* The records of a slice are those of the source after its position.
LEMMA SliceRecords ==
    ASSUME FlowHolds(flow), NEW q \in 0 .. Len(flow.source), NEW last \in q .. Len(flow.source)
    PROVE  /\ Len(SubSeq(flow.source, q + 1, last)) = last - q
           /\ \A n \in 1 .. last - q : SubSeq(flow.source, q + 1, last)[n] = flow.source[q + n]
<1> DEFINE S == ToSet(flow.source)
<1>1. flow.source \in Seq(S) BY DEF FlowHolds, FlowAdmitted
<1>2. Len(flow.source) \in Nat BY DEF FlowHolds
<1>3. \A i \in q + 1 .. last : flow.source[i] \in S
  <2>1. \A i \in q + 1 .. last : i \in 1 .. Len(flow.source) BY <1>2
  <2> QED BY <1>1, <2>1, ElementOfSeq
<1>4. q + 1 \in Int /\ last \in Int BY <1>2
<1>5. /\ Len(SubSeq(flow.source, q + 1, last))
           = IF q + 1 <= last THEN last - (q + 1) + 1 ELSE 0
      /\ \A i \in 1 .. last - (q + 1) + 1 :
            SubSeq(flow.source, q + 1, last)[i] = flow.source[(q + 1) + i - 1]
  BY <1>3, <1>4, SubSeqProperties
<1>6. (IF q + 1 <= last THEN last - (q + 1) + 1 ELSE 0) = last - q
  BY <1>2
<1>7. last - (q + 1) + 1 = last - q /\ \A i \in 1 .. last - q : (q + 1) + i - 1 = q + i
  BY <1>2
<1> QED BY <1>5, <1>6, <1>7

\* Concatenation is associative.
LEMMA ConcatRegroups ==
    ASSUME NEW S, NEW x \in Seq(S), NEW y \in Seq(S), NEW z \in Seq(S)
    PROVE  (x \o y) \o z = x \o (y \o z)
  BY ConcatAssociative

\* One record more of a slice is one record more of the serial run.
LEMMA SliceStep ==
    ASSUME FlowHolds(flow), NEW q \in 0 .. Len(flow.source), Serially(flow, q).ok,
           NEW n \in Nat, n # 0, q + n <= Len(flow.source), NEW u, SliceFits(u, q, n - 1),
           u[n - 1].ok,
           u[n] = SliceNext(CheckpointOf(Serially(flow, q).runtime), u[n - 1], flow.source[q + n]),
           u[n].ok
    PROVE  SliceFits(u, q, n)
<1> DEFINE first  == Serially(flow, q)
           old    == Serially(flow, q + n - 1)
           new    == Serially(flow, q + n)
           result == Processed(flow.graph, u[n - 1].runtime, flow.source[q + n])
           emitted == RowsAt(flow, q + n)
           added  == RowsOf(result, u[n - 1].runtime.processed,
                            CheckpointOf(first.runtime).emitted + Len(u[n - 1].rows))
<1>1. /\ q + n - 1 = q + (n - 1) /\ q + n - 1 \in 0 .. Len(flow.source)
      /\ q + n \in 1 .. Len(flow.source) /\ q + n \in 0 .. Len(flow.source)
      /\ (q + n) - 1 = q + (n - 1)
  BY DEF FlowHolds
<1>2. /\ old.ok /\ u[n - 1].runtime = old.runtime /\ u[n - 1].rows \in Seq(RowSet(flow))
      /\ old.rows = first.rows \o u[n - 1].rows
  BY <1>1 DEF SliceFits
<1>3. u[n] = [ok |-> result.ok /\ Len(u[n - 1].rows) + Len(result.outputs) <= MaxBatchOutputs,
              runtime |-> result.runtime, rows |-> u[n - 1].rows \o added]
  BY DEF SliceNext
<1>4. new = [ok |-> old.ok /\ result.ok, runtime |-> result.runtime,
             rows |-> old.rows \o emitted]
  <2>1. Serially(flow, q + n) = SerialNext(flow, Serially(flow, (q + n) - 1), q + n)
    BY <1>1, SerialSteps DEF FlowHolds
  <2> QED BY <1>1, <1>2, <2>1 DEF SerialNext, RowsAt
<1>5. SerialFits(flow, q) /\ SerialFits(flow, q + n - 1)
  BY <1>1, <1>2, SerialHolds DEF FlowHolds
<1>6. /\ old.runtime.processed = q + n - 1 /\ first.rows \in Seq(RowSet(flow))
      /\ CheckpointOf(first.runtime).emitted = Len(first.rows)
  BY <1>5 DEF SerialFits, CheckpointOf
<1>7. emitted = RowsOf(result, q + n - 1, Len(old.rows)) BY <1>1, <1>2 DEF RowsAt
<1>8. added = RowsOf(result, old.runtime.processed, Len(first.rows) + Len(u[n - 1].rows))
  BY <1>2, <1>6
<1> HIDE DEF first, old, new, result, emitted, added
<1>9. Len(old.rows) = Len(first.rows) + Len(u[n - 1].rows)
  BY <1>2, <1>6, ConcatProperties
<1>10. added = emitted BY <1>6, <1>7, <1>8, <1>9
<1>11. u[n].runtime = result.runtime /\ u[n].rows = u[n - 1].rows \o added
  BY <1>3
<1>12. result.ok
  <2>1. u[n].ok = (result.ok /\ Len(u[n - 1].rows) + Len(result.outputs) <= MaxBatchOutputs)
    BY ONLY <1>3
  <2> QED BY <2>1
<1>13. new.ok /\ new.runtime = result.runtime /\ new.rows = old.rows \o emitted
  <2>1. new.ok = (old.ok /\ result.ok) BY ONLY <1>4
  <2>2. new.ok BY <1>2, <1>12, <2>1
  <2> QED BY <1>4, <2>2
<1>14. emitted \in Seq(RowSet(flow))
  BY <1>1, <1>13, RowsAtHold DEF FlowHolds, new, emitted
<1>15. new.rows = first.rows \o u[n].rows
  <2>1. (first.rows \o u[n - 1].rows) \o emitted = first.rows \o (u[n - 1].rows \o emitted)
    <3>1. PICK x, y, z, S : x = first.rows /\ y = u[n - 1].rows /\ z = emitted /\ S = RowSet(flow)
      OBVIOUS
    <3>2. x \in Seq(S) /\ y \in Seq(S) /\ z \in Seq(S) BY <1>2, <1>6, <1>14, <3>1
    <3>3. (x \o y) \o z = x \o (y \o z) BY ONLY <3>2, ConcatRegroups
    <3> QED BY <3>1, <3>3
  <2> QED BY <1>2, <1>10, <1>11, <1>13, <2>1
<1>16. u[n].rows \in Seq(RowSet(flow))
  BY <1>2, <1>10, <1>11, <1>14, ConcatProperties
<1> QED BY <1>11, <1>13, <1>15, <1>16 DEF SliceFits, first, new

\* What a slice leaves is what the serial run has after its records.
LEMMA SliceIsSerial ==
    ASSUME FlowHolds(flow), NEW q \in 0 .. Len(flow.source), Serially(flow, q).ok,
           NEW last \in q .. Len(flow.source), NEW slice,
           slice = Sliced(CheckpointOf(Serially(flow, q).runtime), SubSeq(flow.source, q + 1, last)),
           slice.ok
    PROVE  /\ Serially(flow, last).ok
           /\ slice.runtime = Serially(flow, last).runtime
           /\ slice.rows \in Seq(RowSet(flow))
           /\ Serially(flow, last).rows = Serially(flow, q).rows \o slice.rows
<1> DEFINE checkpoint == CheckpointOf(Serially(flow, q).runtime)
           records    == SubSeq(flow.source, q + 1, last)
<1>1. /\ Len(records) = last - q
      /\ \A n \in 1 .. last - q : records[n] = flow.source[q + n]
  BY SliceRecords
<1>2. last - q \in Nat /\ q + (last - q) = last BY DEF FlowHolds
<1>3. PICK u : SliceRun(u, checkpoint, records) /\ Sliced(checkpoint, records) = u[Len(records)]
  BY <1>1, <1>2, SliceRuns
<1> HIDE DEF checkpoint, records
<1>4. slice = u[last - q] BY <1>1, <1>3 DEF checkpoint, records
<1>5. \A n \in 0 .. last - q : u[n] = IF n = 0 THEN SliceStart(checkpoint)
                                      ELSE SliceNext(checkpoint, u[n - 1], records[n])
  BY <1>1, <1>2, <1>3 DEF SliceRun
<1> DEFINE Bad == {n \in 0 .. last - q : u[n].ok /\ ~ SliceFits(u, q, n)}
<1>6. Bad = {}
  <2> SUFFICES ASSUME Bad # {} PROVE FALSE OBVIOUS
  <2>1. PICK m \in Bad : \A n \in Bad : m <= n
    <3>1. Bad \in SUBSET Nat OBVIOUS
    <3> HIDE DEF Bad
    <3> QED BY <3>1, LeastNatural
  <2>2. m # 0
    <3>1. u[0] = SliceStart(checkpoint) BY <1>2, <1>5
    <3>2. Restored(checkpoint) = Serially(flow, q).runtime
      BY DEF FlowHolds, RuntimeKept, checkpoint
    <3>3. u[0].runtime = Serially(flow, q).runtime /\ u[0].rows = <<>>
      BY <3>1, <3>2 DEF SliceStart
    <3>4. SerialFits(flow, q) BY SerialHolds DEF FlowHolds
    <3>5. Serially(flow, q).rows \in Seq(RowSet(flow)) BY <3>4 DEF SerialFits
    <3>6. Serially(flow, q).rows \o <<>> = Serially(flow, q).rows /\ <<>> \in Seq(RowSet(flow))
      BY <3>5, ConcatEmptySeq, EmptySeq
    <3>7. q + 0 = q BY DEF FlowHolds
    <3>8. SliceFits(u, q, 0) BY <3>3, <3>6, <3>7 DEF SliceFits
    <3> QED BY <2>1, <3>8
  <2>3. /\ m \in 1 .. last - q /\ m \in Nat /\ m - 1 \in 0 .. last - q
        /\ q + m <= Len(flow.source) /\ ~ (m <= m - 1)
    BY <1>2, <2>1, <2>2 DEF FlowHolds
  <2>4. u[m] = SliceNext(checkpoint, u[m - 1], flow.source[q + m])
    BY <1>1, <1>5, <2>2, <2>3 DEF records
  <2>5. u[m].ok /\ ~ SliceFits(u, q, m) BY <2>1
  <2>6. u[m - 1].ok
    <3> SUFFICES ASSUME ~ u[m - 1].ok PROVE FALSE OBVIOUS
    <3>1. u[m] = u[m - 1] BY <2>4 DEF SliceNext
    <3> QED BY <2>5, <3>1
  <2>7. SliceFits(u, q, m - 1) BY <2>1, <2>3, <2>6
  <2> QED BY <2>2, <2>3, <2>4, <2>5, <2>6, <2>7, SliceStep DEF checkpoint
<1>7. last - q \in 0 .. last - q BY <1>2
<1>8. SliceFits(u, q, last - q) BY <1>4, <1>6, <1>7
<1> QED BY <1>2, <1>4, <1>8 DEF SliceFits

-----------------------------------------------------------------------------
(***************************************************************************)
(* The inductive invariant.                                                *)
(***************************************************************************)

\* A point of the serial run.
AtPoint(p) ==
    /\ p.position \in 0 .. Len(flow.source) /\ p.generation \in Nat
    /\ Serially(flow, p.position).ok
    /\ p = Point(p.generation, Serially(flow, p.position).runtime)

\* A point the journal has or had.
Seen(p) ==
    /\ AtPoint(p)
    /\ p.generation <= head.generation /\ p.position <= head.position
    /\ p.generation = head.generation => p = head

Begins(u, v) == Len(u) <= Len(v) /\ \A i \in 1 .. Len(u) : v[i] = u[i]

HeadInv ==
    /\ AtPoint(head) /\ PointAdmitted(head)
    /\ rows = Serially(flow, head.position).rows

\* What a call that found something to do is about to publish.
Planned(c) ==
    /\ AtPoint(c.after) /\ PointAdmitted(c.after)
    /\ c.after.generation = c.before.generation + 1
    /\ c.after.position > c.before.position
    /\ c.rows \in Seq(RowSet(flow))
    /\ Serially(flow, c.after.position).rows = Serially(flow, c.before.position).rows \o c.rows

\* A call works from the point its owner knows; to commit, from the head.
OwnerInv(o) ==
    /\ known[o] # NoPoint => Seen(known[o])
    /\ place[o] # "idle" => known[o] # NoPoint /\ call[o].before = known[o]
    /\ place[o] \in {"begin", "commit"} => Planned(call[o])
    /\ place[o] = "commit" => call[o].before = head

PlaceInv ==
    /\ place \in [Owner -> {"idle", "process", "observe", "begin", "commit"}]
    /\ call = [o \in Owner |-> call[o]]
    /\ known = [o \in Owner |-> known[o]]
    /\ \A o1, o2 \in Owner : place[o1] = "commit" /\ place[o2] = "commit" => o1 = o2

\* An open page and the consumer's rows are beginnings of the rows.
PageInv ==
    page # NoPage =>
        /\ page = [limit |-> page.limit, head |-> page.head, rows |-> page.rows]
        /\ page.rows \in Seq(RowSet(flow)) /\ Begins(page.rows, rows)

ConsumedInv == consumed \in Seq(RowSet(flow)) /\ Begins(consumed, rows)

FlowInv ==
    /\ flow \in Flows
    /\ HeadInv /\ PlaceInv /\ PageInv /\ ConsumedInv
    /\ \A o \in Owner : OwnerInv(o)

\* What holds of every flow.
LEMMA FlowOfFlows ==
    ASSUME FlowsHold, NEW f \in Flows
    PROVE  /\ FlowHolds(f) /\ MaxRecords \in Nat /\ MaxBatchInputs \in Nat
           /\ \A o \in Owner : \A most \in f.slices[o] : most \in Nat
<1>1. FlowAdmitted(f) /\ RuntimeKept(f) /\ MaxRecords \in Nat /\ MaxBatchInputs \in Nat
  BY DEF FlowsHold
<1>2. Len(f.source) \in Nat
  <2>1. f.source \in Seq(ToSet(f.source)) BY <1>1 DEF FlowAdmitted
  <2> QED BY <2>1, LenProperties
<1>3. \A o \in Owner : \A most \in f.slices[o] : most \in 0 .. MaxBatchInputs
  BY <1>1 DEF FlowAdmitted
<1> QED BY <1>1, <1>2, <1>3 DEF FlowHolds

\* The first state.
LEMMA FlowStarts == FlowsHold /\ Init => FlowInv
<1> SUFFICES ASSUME FlowsHold, Init PROVE FlowInv OBVIOUS
<1>1. PICK f \in Flows : InitOf(f) BY DEF Init
<1>2. flow \in Flows /\ flow = f BY <1>1 DEF InitOf
<1>3. FlowHolds(flow) /\ MaxRecords \in Nat /\ MaxBatchInputs \in Nat BY <1>2, FlowOfFlows
<1>4. Serially(flow, 0) = SerialStart BY <1>3, SerialSteps DEF FlowHolds
<1>5. head = Point(0, NewRuntime) /\ rows = <<>> /\ consumed = <<>> /\ page = NoPage
  BY <1>1 DEF InitOf
<1>6. /\ head.position = 0 /\ head.generation = 0 /\ head.checkpoint.processed = 0
      /\ head.checkpoint.emitted = 0 /\ head.checkpoint.cells = <<>>
  BY <1>5 DEF Point, NewRuntime, CheckpointOf
<1>7. HeadInv
  <2>1. SerialStart.ok /\ SerialStart.runtime = NewRuntime /\ SerialStart.rows = <<>>
    BY DEF SerialStart
  <2>2. AtPoint(head)
    BY <1>3, <1>4, <1>5, <1>6, <2>1 DEF AtPoint, FlowHolds
  <2>3. 0 <= 0 * MaxBatchInputs BY <1>3
  <2>4. PointAdmitted(head) BY <1>3, <1>6, <2>3 DEF PointAdmitted
  <2> QED BY <1>4, <1>5, <1>6, <2>1, <2>2, <2>4 DEF HeadInv
<1>8. /\ place = [o \in Owner |-> "idle"] /\ call = [o \in Owner |-> Idle]
      /\ known = [o \in Owner |-> NoPoint]
  BY <1>1 DEF InitOf
<1>9. PlaceInv BY <1>8 DEF PlaceInv
<1>10. \A o \in Owner : OwnerInv(o) BY <1>8 DEF OwnerInv
<1>11. PageInv BY <1>5 DEF PageInv
<1>12. ConsumedInv
  <2>1. <<>> \in Seq(RowSet(flow)) /\ Len(<<>>) = 0 /\ 1 .. 0 = {} BY EmptySeq
  <2> QED BY <1>5, <2>1 DEF ConsumedInv, Begins
<1> QED BY <1>2, <1>7, <1>9, <1>10, <1>11, <1>12 DEF FlowInv

-----------------------------------------------------------------------------
(***************************************************************************)
(* Steps that leave the journal as it is.                                  *)
(***************************************************************************)

\* Points stay what they are.
LEMMA PointsStay ==
    ASSUME NEW p, UNCHANGED flow
    PROVE  /\ AtPoint(p) => AtPoint(p)'
           /\ UNCHANGED head => (Seen(p) => Seen(p)')
  BY DEF AtPoint, Seen

\* So do the plans of calls.
LEMMA PlansStay ==
    ASSUME NEW c, UNCHANGED flow
    PROVE  Planned(c) => Planned(c)'
  BY DEF Planned, AtPoint

\* What no step of an owner disturbs, unless it commits.
LEMMA JournalStays ==
    ASSUME FlowInv, UNCHANGED <<flow, head, rows, page, consumed>>
    PROVE  (flow \in Flows)' /\ HeadInv' /\ PageInv' /\ ConsumedInv'
<1>1. (flow \in Flows)' BY DEF FlowInv
<1>2. HeadInv' BY DEF FlowInv, HeadInv, AtPoint
<1>3. PageInv' BY DEF FlowInv, PageInv
<1>4. ConsumedInv' BY DEF FlowInv, ConsumedInv
<1> QED BY <1>1, <1>2, <1>3, <1>4

\* Nor does an owner disturb another.
LEMMA OthersStay ==
    ASSUME NEW o \in Owner, OwnerInv(o), UNCHANGED <<flow, head>>, place'[o] = place[o],
           call'[o] = call[o], known'[o] = known[o]
    PROVE  OwnerInv(o)'
<1>1. known'[o] # NoPoint => Seen(known[o])'
  <2> SUFFICES ASSUME known[o] # NoPoint PROVE Seen(known[o])' OBVIOUS
  <2>1. PICK p : p = known[o] OBVIOUS
  <2>2. Seen(p) BY <2>1 DEF OwnerInv
  <2>3. Seen(p)' /\ p = known'[o] BY <2>1, <2>2, PointsStay
  <2> QED BY <2>3 DEF Seen, AtPoint
<1>2. place'[o] \in {"begin", "commit"} => Planned(call[o])'
  <2> SUFFICES ASSUME place[o] \in {"begin", "commit"} PROVE Planned(call[o])' OBVIOUS
  <2>1. PICK c : c = call[o] OBVIOUS
  <2>2. Planned(c) BY <2>1 DEF OwnerInv
  <2>3. Planned(c)' /\ c = call'[o] BY <2>1, <2>2, PlansStay
  <2> QED BY <2>3 DEF Planned, AtPoint
<1> QED BY <1>1, <1>2 DEF OwnerInv

\* A call that ends, its owner knowing a point the journal has or had.
LEMMA ReturnKeeps ==
    ASSUME FlowInv, NEW o \in Owner, NEW p, p = NoPoint \/ Seen(p), Return(o, p),
           UNCHANGED <<flow, head, rows, page, consumed>>
    PROVE  FlowInv'
<1>1. /\ place' = [place EXCEPT ![o] = "idle"] /\ call' = [call EXCEPT ![o] = Idle]
      /\ known' = [known EXCEPT ![o] = p]
  BY DEF Return, Go
<1>2. PlaceInv BY DEF FlowInv
<1>3. place'[o] = "idle" /\ call'[o] = Idle /\ known'[o] = p BY <1>1, <1>2 DEF PlaceInv
<1>4. \A other \in Owner \ {o} :
         place'[other] = place[other] /\ call'[other] = call[other] /\ known'[other] = known[other]
  BY <1>1, <1>2 DEF PlaceInv
<1>5. PlaceInv'
  <2>1. /\ place' \in [Owner -> {"idle", "process", "observe", "begin", "commit"}]
        /\ call' = [x \in Owner |-> call'[x]] /\ known' = [x \in Owner |-> known'[x]]
    BY <1>1, <1>2 DEF PlaceInv
  <2>2. \A x \in Owner : place'[x] = "commit" => x # o /\ place[x] = "commit" BY <1>3, <1>4
  <2> QED BY <1>2, <2>1, <2>2 DEF PlaceInv
<1>6. OwnerInv(o)'
  <2>1. p # NoPoint => Seen(p)' BY PointsStay
  <2>2. known'[o] # NoPoint => Seen(known[o])' BY <1>3, <2>1 DEF Seen, AtPoint
  <2> QED BY <1>3, <2>2 DEF OwnerInv
<1>7. \A other \in Owner : OwnerInv(other)'
  <2> SUFFICES ASSUME NEW other \in Owner, other # o PROVE OwnerInv(other)' BY <1>6
  <2>1. OwnerInv(other) BY DEF FlowInv
  <2> QED BY <1>4, <2>1, OthersStay
<1> QED BY <1>5, <1>7, JournalStays DEF FlowInv

\* A call that ends with nothing new.
LEMMA RaiseKeeps ==
    ASSUME FlowInv, NEW o \in Owner, Raise(o), UNCHANGED <<flow, head, rows, page, consumed>>
    PROVE  FlowInv'
<1>1. PICK p : p = known[o] OBVIOUS
<1>2. OwnerInv(o) BY DEF FlowInv
<1>3. p = NoPoint \/ Seen(p) BY <1>1, <1>2 DEF OwnerInv
<1>4. Return(o, p) BY <1>1 DEF Raise, Return
<1> QED BY <1>3, <1>4, ReturnKeeps

\* The head is a point the journal has.
LEMMA HeadIsSeen == ASSUME FlowHolds(flow), HeadInv PROVE Seen(head) /\ head # NoPoint
<1>1. AtPoint(head) /\ head.generation \in Nat BY DEF HeadInv, AtPoint
<1>2. head.position \in Nat BY <1>1 DEF AtPoint, FlowHolds
<1>3. head # NoPoint BY <1>1 DEF NoPoint
<1> QED BY <1>1, <1>2, <1>3 DEF Seen

\* A call that goes on, from what its owner knows and to a plan.
LEMMA CallGoesOn ==
    ASSUME FlowInv, NEW o \in Owner, NEW label \in {"process", "observe", "begin"}, NEW c,
           known[o] # NoPoint, c.before = known[o], label = "begin" => Planned(c),
           Go(o, label), call' = [call EXCEPT ![o] = c],
           UNCHANGED <<flow, head, rows, known, page, consumed>>
    PROVE  FlowInv'
<1>1. PlaceInv BY DEF FlowInv
<1>2. place'[o] = label /\ call'[o] = c BY <1>1 DEF PlaceInv, Go
<1>3. \A other \in Owner \ {o} : place'[other] = place[other] /\ call'[other] = call[other]
  BY <1>1 DEF PlaceInv, Go
<1>4. PlaceInv'
  <2>1. /\ place' \in [Owner -> {"idle", "process", "observe", "begin", "commit"}]
        /\ call' = [x \in Owner |-> call'[x]] /\ known' = [x \in Owner |-> known'[x]]
    BY <1>1 DEF PlaceInv, Go
  <2>2. \A x \in Owner : place'[x] = "commit" => x # o /\ place[x] = "commit" BY <1>2, <1>3
  <2> QED BY <1>1, <2>1, <2>2 DEF PlaceInv
<1>5. OwnerInv(o)'
  <2>1. PICK p : p = known[o] OBVIOUS
  <2>2. Seen(p) BY <2>1 DEF FlowInv, OwnerInv
  <2>3. Seen(p)' BY <2>2, PointsStay
  <2>4. Seen(known[o])'
    <3>1. p = known'[o] BY <2>1
    <3> QED BY <2>3, <3>1 DEF Seen, AtPoint
  <2>5. label = "begin" => Planned(call[o])'
    <3>1. label = "begin" => Planned(c)' BY PlansStay
    <3> QED BY <1>2, <3>1 DEF Planned, AtPoint
  <2> QED BY <1>2, <2>4, <2>5 DEF OwnerInv
<1>6. \A other \in Owner : OwnerInv(other)'
  <2> SUFFICES ASSUME NEW other \in Owner, other # o PROVE OwnerInv(other)' BY <1>5
  <2>1. OwnerInv(other) BY DEF FlowInv
  <2> QED BY <1>3, <2>1, OthersStay
<1> QED BY <1>4, <1>6, JournalStays DEF FlowInv

-----------------------------------------------------------------------------
(***************************************************************************)
(* The steps of an owner.                                                  *)
(***************************************************************************)

LEMMA LatestKeeps ==
    ASSUME FlowsHold, FlowInv, NEW o \in Owner, Latest(o)
    PROVE  FlowInv'
<1>1. /\ place[o] = "idle" /\ known' = [known EXCEPT ![o] = head]
      /\ UNCHANGED <<flow, head, rows, place, call, page, consumed>>
  BY DEF Latest
<1>2. PlaceInv /\ HeadInv /\ FlowHolds(flow) BY FlowOfFlows DEF FlowInv
<1>3. known'[o] = head /\ known' = [x \in Owner |-> known'[x]] BY <1>1, <1>2 DEF PlaceInv
<1>4. \A other \in Owner \ {o} : known'[other] = known[other] BY <1>1, <1>2 DEF PlaceInv
<1>5. PlaceInv' BY <1>1, <1>2, <1>3 DEF PlaceInv
<1>6. OwnerInv(o)'
  <2>1. Seen(head) BY <1>2, HeadIsSeen
  <2>2. Seen(known[o])' BY <1>1, <1>3, <2>1 DEF Seen, AtPoint
  <2> QED BY <1>1, <2>2 DEF OwnerInv
<1>7. \A other \in Owner : OwnerInv(other)'
  <2> SUFFICES ASSUME NEW other \in Owner, other # o PROVE OwnerInv(other)' BY <1>6
  <2>1. OwnerInv(other) BY DEF FlowInv
  <2> QED BY <1>1, <1>4, <2>1, OthersStay
<1> QED BY <1>1, <1>5, <1>7, JournalStays DEF FlowInv

LEMMA ReadKeeps ==
    ASSUME FlowsHold, FlowInv, NEW o \in Owner, Read(o)
    PROVE  FlowInv'
<1>1. known[o] # NoPoint /\ UNCHANGED <<flow, head, rows, page, consumed>> BY DEF Read
<1>2. Seen(known[o]) BY <1>1 DEF FlowInv, OwnerInv
<1>3. CASE head.generation = known[o].generation
  <2>1. known[o] = head BY <1>2, <1>3 DEF Seen
  <2>2. PICK c : c = [before |-> head] OBVIOUS
  <2>3. c.before = known[o] BY <2>1, <2>2
  <2>4. call' = [call EXCEPT ![o] = c] /\ Go(o, "process") /\ UNCHANGED known
    BY <1>3, <2>2 DEF Read
  <2>5. "process" = "begin" => Planned(c) OBVIOUS
  <2> QED BY <1>1, <2>3, <2>4, <2>5, CallGoesOn
<1>4. CASE head.generation # known[o].generation
  <2>1. Raise(o) BY <1>4 DEF Read
  <2> QED BY <1>1, <2>1, RaiseKeeps
<1> QED BY <1>3, <1>4

\* A slice that is not empty is planned.
LEMMA SliceIsPlanned ==
    ASSUME FlowHolds(flow), NEW before, AtPoint(before), NEW last \in before.position .. Len(flow.source),
           NEW slice,
           slice = Sliced(before.checkpoint, SubSeq(flow.source, before.position + 1, last)),
           slice.ok, slice.runtime.processed # before.position,
           PointAdmitted(Point(before.generation + 1, slice.runtime))
    PROVE  Planned([before |-> before, after |-> Point(before.generation + 1, slice.runtime),
                    rows |-> slice.rows])
<1> DEFINE q     == before.position
           after == Point(before.generation + 1, slice.runtime)
           c     == [before |-> before, after |-> after, rows |-> slice.rows]
<1>1. /\ q \in 0 .. Len(flow.source) /\ before.generation \in Nat /\ Serially(flow, q).ok
      /\ before.checkpoint = CheckpointOf(Serially(flow, q).runtime)
  BY DEF AtPoint, Point
<1>2. /\ Serially(flow, last).ok /\ slice.runtime = Serially(flow, last).runtime
      /\ slice.rows \in Seq(RowSet(flow))
      /\ Serially(flow, last).rows = Serially(flow, q).rows \o slice.rows
  BY <1>1, SliceIsSerial
<1>3. last \in 0 .. Len(flow.source) /\ Len(flow.source) \in Nat BY <1>1 DEF FlowHolds
<1>4. slice.runtime.processed = last
  <2>1. SerialFits(flow, last) BY <1>2, <1>3, SerialHolds DEF FlowHolds
  <2> QED BY <1>2, <2>1 DEF SerialFits
<1>5. after.position = last /\ after.generation = before.generation + 1
  BY <1>4 DEF Point
<1>6. AtPoint(after) BY <1>1, <1>2, <1>3, <1>5 DEF AtPoint
<1>7. last > q BY <1>1, <1>3, <1>4
<1>8. c.before = before /\ c.after = after /\ c.rows = slice.rows OBVIOUS
<1> HIDE DEF c, after
<1>9. PointAdmitted(after) BY DEF after
<1> QED BY <1>2, <1>5, <1>6, <1>7, <1>8, <1>9 DEF Planned, c, after

LEMMA ProcessKeeps ==
    ASSUME FlowsHold, FlowInv, NEW o \in Owner, Process(o)
    PROVE  FlowInv'
<1>1. place[o] = "process" /\ UNCHANGED <<flow, head, rows, page, consumed>> BY DEF Process
<1>2. PICK before : before = call[o].before OBVIOUS
<1>3. /\ known[o] # NoPoint /\ before = known[o] /\ AtPoint(before)
  BY <1>1, <1>2 DEF FlowInv, OwnerInv, Seen
<1>4. FlowHolds(flow) /\ \A most \in flow.slices[o] : most \in Nat
  BY FlowOfFlows DEF FlowInv
<1>5. PICK most, slice :
      /\ most \in flow.slices[o]
      /\ slice = Sliced(before.checkpoint, Records(o, most))
      /\ LET after  == Point(before.generation + 1, slice.runtime)
             empty  == slice.runtime.processed = before.position
         IN  IF ~ slice.ok \/ ~ (empty \/ PointAdmitted(after))
               THEN Raise(o)
               ELSE /\ call' = [call EXCEPT ![o] =
                                   [before |-> before, after |-> after, rows |-> slice.rows]]
                    /\ Go(o, IF empty THEN "observe" ELSE "begin")
                    /\ UNCHANGED known
  BY <1>2 DEF Process
<1> DEFINE after == Point(before.generation + 1, slice.runtime)
           empty == slice.runtime.processed = before.position
           c     == [before |-> before, after |-> after, rows |-> slice.rows]
<1>6. CASE ~ slice.ok \/ ~ (empty \/ PointAdmitted(after))
  <2>1. Raise(o) BY <1>5, <1>6
  <2> QED BY <1>1, <2>1, RaiseKeeps
<1>7. CASE slice.ok /\ empty
  <2>1. call' = [call EXCEPT ![o] = c] /\ Go(o, "observe") /\ UNCHANGED known BY <1>5, <1>7
  <2>2. c.before = known[o] BY <1>3
  <2> QED BY <1>1, <1>3, <2>1, <2>2, CallGoesOn
<1>8. CASE slice.ok /\ ~ empty /\ PointAdmitted(after)
  <2>1. call' = [call EXCEPT ![o] = c] /\ Go(o, "begin") /\ UNCHANGED known BY <1>5, <1>8
  <2>2. c.before = known[o] BY <1>3
  <2>3. PICK last : last = IF before.position + most < Len(flow.source)
                             THEN before.position + most ELSE Len(flow.source)
    OBVIOUS
  <2>4. /\ before.position \in 0 .. Len(flow.source) /\ most \in Nat /\ Len(flow.source) \in Nat
    <3>1. most \in Nat BY <1>4, <1>5
    <3> QED BY <1>3, <1>4, <3>1 DEF AtPoint, FlowHolds
  <2>5. last \in before.position .. Len(flow.source) BY <2>3, <2>4
  <2>6. slice = Sliced(before.checkpoint, SubSeq(flow.source, before.position + 1, last))
    BY <1>3, <1>5, <2>3 DEF Records
  <2>7. Planned(c) BY <1>3, <1>4, <1>8, <2>5, <2>6, SliceIsPlanned
  <2> QED BY <1>1, <1>3, <2>1, <2>2, <2>7, CallGoesOn
<1> QED BY <1>6, <1>7, <1>8

LEMMA ObserveKeeps ==
    ASSUME FlowsHold, FlowInv, NEW o \in Owner, Observe(o)
    PROVE  FlowInv'
<1>1. UNCHANGED <<flow, head, rows, page, consumed>> BY DEF Observe
<1>2. CASE head.generation = call[o].before.generation
  <2>1. PICK p : p = head OBVIOUS
  <2>2. Return(o, p) BY <1>2, <2>1 DEF Observe, Return
  <2>3. Seen(p) BY <2>1, HeadIsSeen, FlowOfFlows DEF FlowInv
  <2> QED BY <1>1, <2>2, <2>3, ReturnKeeps
<1>3. CASE head.generation # call[o].before.generation
  <2>1. Raise(o) BY <1>3 DEF Observe
  <2> QED BY <1>1, <2>1, RaiseKeeps
<1> QED BY <1>2, <1>3

LEMMA BeginKeeps ==
    ASSUME FlowsHold, FlowInv, NEW o \in Owner, Begin(o)
    PROVE  FlowInv'
<1>1. /\ place[o] = "begin" /\ UNCHANGED <<flow, head, rows, page, consumed>>
      /\ \A other \in Owner : place[other] # "commit"
  BY DEF Begin, Locked
<1>2. PlaceInv BY DEF FlowInv
<1>3. CASE head = call[o].before
  <2>1. place' = [place EXCEPT ![o] = "commit"] /\ UNCHANGED <<call, known>>
    BY <1>3 DEF Begin, Go
  <2>2. place'[o] = "commit" BY <1>2, <2>1 DEF PlaceInv
  <2>3. \A other \in Owner \ {o} : place'[other] = place[other] /\ place'[other] # "commit"
    BY <1>1, <1>2, <2>1 DEF PlaceInv
  <2>4. PlaceInv' BY <1>2, <2>1, <2>3 DEF PlaceInv
  <2>5. OwnerInv(o)'
    <3>1. /\ known[o] # NoPoint /\ Seen(known[o]) /\ call[o].before = known[o] /\ Planned(call[o])
      BY <1>1 DEF FlowInv, OwnerInv
    <3>2. Seen(known[o])' BY <1>1, <2>1, <3>1 DEF Seen, AtPoint
    <3>3. Planned(call[o])' BY <1>1, <2>1, <3>1 DEF Planned, AtPoint
    <3> QED BY <1>1, <1>3, <2>1, <2>2, <3>1, <3>2, <3>3 DEF OwnerInv
  <2>6. \A other \in Owner : OwnerInv(other)'
    <3> SUFFICES ASSUME NEW other \in Owner, other # o PROVE OwnerInv(other)' BY <2>5
    <3>1. OwnerInv(other) BY DEF FlowInv
    <3> QED BY <1>1, <2>1, <2>3, <3>1, OthersStay
  <2> QED BY <1>1, <2>4, <2>6, JournalStays DEF FlowInv
<1>4. CASE head # call[o].before
  <2>1. Raise(o) BY <1>4 DEF Begin
  <2> QED BY <1>1, <2>1, RaiseKeeps
<1> QED BY <1>3, <1>4

LEMMA EndsKeep ==
    ASSUME FlowsHold, FlowInv, NEW o \in Owner, LockTimesOut(o) \/ Fail(o) \/ Crash(o)
    PROVE  FlowInv'
<1>1. UNCHANGED <<flow, head, rows, page, consumed>> BY DEF LockTimesOut, Fail, Crash
<1>2. CASE LockTimesOut(o) \/ Fail(o)
  <2>1. Raise(o) BY <1>2 DEF LockTimesOut, Fail
  <2> QED BY <1>1, <2>1, RaiseKeeps
<1>3. CASE Crash(o)
  <2>1. Return(o, NoPoint) BY <1>3 DEF Crash
  <2> QED BY <1>1, <2>1, ReturnKeeps
<1> QED BY <1>2, <1>3

-----------------------------------------------------------------------------
(***************************************************************************)
(* A commit.                                                               *)
(***************************************************************************)

\* A sequence begins with what it was extended from.
LEMMA BeginsLonger ==
    ASSUME NEW S, NEW u \in Seq(S), NEW v \in Seq(S), NEW w \in Seq(S), Begins(u, v)
    PROVE  Begins(u, v \o w)
<1>1. Len(u) \in Nat /\ Len(v) \in Nat /\ Len(w) \in Nat BY LenProperties
<1>2. /\ Len(v \o w) = Len(v) + Len(w)
      /\ \A i \in 1 .. Len(v) + Len(w) : (v \o w)[i] = IF i <= Len(v) THEN v[i] ELSE w[i - Len(v)]
  BY ConcatProperties
<1>3. Len(u) <= Len(v) /\ \A i \in 1 .. Len(u) : v[i] = u[i] BY DEF Begins
<1>4. Len(u) <= Len(v \o w) BY <1>1, <1>2, <1>3
<1>5. ASSUME NEW i \in 1 .. Len(u) PROVE (v \o w)[i] = u[i]
  <2>1. i \in 1 .. Len(v) + Len(w) /\ i <= Len(v) BY <1>1, <1>3
  <2> QED BY <1>2, <1>3, <2>1
<1> QED BY <1>4, <1>5 DEF Begins

\* What is published is the serial run to the new position.
LEMMA PublishedIsSerial ==
    ASSUME FlowsHold, FlowInv, NEW o \in Owner, Published(o), UNCHANGED flow
    PROVE  /\ head' = call[o].after
           /\ AtPoint(head)' /\ HeadInv'
           /\ head'.generation = head.generation + 1 /\ head'.position > head.position
           /\ call[o].rows \in Seq(RowSet(flow)) /\ rows \in Seq(RowSet(flow))
           /\ rows' = rows \o call[o].rows
<1>1. place[o] = "commit" /\ head' = call[o].after /\ rows' = rows \o call[o].rows
  BY DEF Published
<1>2. /\ Planned(call[o]) /\ call[o].before = head /\ HeadInv /\ FlowHolds(flow)
  BY <1>1, FlowOfFlows DEF FlowInv, OwnerInv
<1>3. /\ AtPoint(call[o].after) /\ PointAdmitted(call[o].after)
      /\ head'.generation = head.generation + 1 /\ head'.position > head.position
      /\ call[o].rows \in Seq(RowSet(flow))
      /\ Serially(flow, head'.position).rows = Serially(flow, head.position).rows \o call[o].rows
  BY <1>1, <1>2 DEF Planned
<1>4. AtPoint(head) /\ rows = Serially(flow, head.position).rows BY <1>2 DEF HeadInv
<1>5. AtPoint(head)' BY <1>1, <1>3 DEF AtPoint
<1>6. PointAdmitted(head)' BY <1>1, <1>3 DEF PointAdmitted
<1>7. rows' = Serially(flow, head'.position).rows BY <1>1, <1>3, <1>4
<1>8. HeadInv' BY <1>5, <1>6, <1>7 DEF HeadInv
<1>9. rows \in Seq(RowSet(flow))
  <2>1. SerialFits(flow, head.position) BY <1>2, <1>4, SerialHolds DEF FlowHolds, AtPoint
  <2> QED BY <1>4, <2>1 DEF SerialFits
<1> QED BY <1>1, <1>3, <1>5, <1>8, <1>9

\* A point the journal had is older than the new head.
LEMMA SeenBefore ==
    ASSUME FlowHolds(flow), NEW p, Seen(p), AtPoint(head), AtPoint(head)', UNCHANGED flow,
           head'.generation = head.generation + 1, head'.position > head.position
    PROVE  Seen(p)'
<1>1. /\ p.generation \in Nat /\ p.position \in Nat /\ head.generation \in Nat
      /\ head.position \in Nat /\ head'.position \in Nat
      /\ p.generation <= head.generation /\ p.position <= head.position
  BY DEF Seen, AtPoint, FlowHolds
<1>2. AtPoint(p)' BY PointsStay DEF Seen
<1>3. /\ p.generation <= head'.generation /\ p.position <= head'.position
      /\ p.generation # head'.generation
  BY <1>1
<1> QED BY <1>2, <1>3 DEF Seen

LEMMA CommitKeeps ==
    ASSUME FlowsHold, FlowInv, NEW o \in Owner, Commit(o) \/ CommitUnacknowledged(o)
    PROVE  FlowInv'
<1>1. Published(o) /\ UNCHANGED <<flow, page, consumed>> BY DEF Commit, CommitUnacknowledged
<1>2. PICK p : p = IF Commit(o) THEN call[o].after ELSE known[o] OBVIOUS
<1>3. Return(o, p) /\ (p = call[o].after \/ p = known[o])
  BY <1>2 DEF Commit, CommitUnacknowledged, Raise, Return
<1>4. place[o] = "commit" /\ PlaceInv /\ FlowHolds(flow) /\ AtPoint(head) /\ known[o] = head
      /\ Seen(known[o])
  BY <1>1, FlowOfFlows DEF Published, FlowInv, OwnerInv, HeadInv
<1>5. /\ place' = [place EXCEPT ![o] = "idle"] /\ call' = [call EXCEPT ![o] = Idle]
      /\ known' = [known EXCEPT ![o] = p]
  BY <1>3 DEF Return, Go
<1>6. place'[o] = "idle" /\ known'[o] = p BY <1>4, <1>5 DEF PlaceInv
<1>7. \A other \in Owner \ {o} :
         /\ place'[other] = place[other] /\ call'[other] = call[other]
         /\ known'[other] = known[other] /\ place[other] # "commit"
  BY <1>4, <1>5 DEF PlaceInv
<1>8. PlaceInv' BY <1>4, <1>5, <1>6, <1>7 DEF PlaceInv
<1>9. /\ head' = call[o].after /\ AtPoint(head)' /\ HeadInv'
      /\ head'.generation = head.generation + 1 /\ head'.position > head.position
      /\ call[o].rows \in Seq(RowSet(flow)) /\ rows \in Seq(RowSet(flow))
      /\ rows' = rows \o call[o].rows
  BY <1>1, PublishedIsSerial
<1>10. \A other \in Owner : OwnerInv(other)'
  <2> SUFFICES ASSUME NEW other \in Owner PROVE OwnerInv(other)' OBVIOUS
  <2>1. CASE other = o
    <3>1. Seen(p)'
      <4>1. CASE p = call[o].after
        <5>1. p = head' BY <1>9, <4>1
        <5>2. head'.generation \in Nat /\ head'.position \in Nat BY <1>1, <1>4, <1>9 DEF AtPoint, FlowHolds
        <5> QED BY <1>9, <5>1, <5>2 DEF Seen, AtPoint
      <4>2. CASE p = known[o]
        <5>1. Seen(p) BY <1>4, <4>2
        <5> QED BY <1>1, <1>4, <1>9, <5>1, SeenBefore
      <4> QED BY <1>3, <4>1, <4>2
    <3>2. Seen(known[o])' BY <1>6, <3>1 DEF Seen, AtPoint
    <3> QED BY <1>6, <2>1, <3>2 DEF OwnerInv
  <2>2. CASE other # o
    <3>1. OwnerInv(other) BY DEF FlowInv
    <3>2. known'[other] # NoPoint => Seen(known[other])'
      <4> SUFFICES ASSUME known[other] # NoPoint PROVE Seen(known[other])' BY <1>7, <2>2
      <4>1. PICK q : q = known[other] OBVIOUS
      <4>2. Seen(q) BY <3>1, <4>1 DEF OwnerInv
      <4>3. Seen(q)' /\ q = known'[other] BY <1>1, <1>4, <1>7, <1>9, <2>2, <4>1, <4>2, SeenBefore
      <4> QED BY <4>3 DEF Seen, AtPoint
    <3>3. place'[other] \in {"begin", "commit"} => Planned(call[other])'
      <4> SUFFICES ASSUME place[other] \in {"begin", "commit"} PROVE Planned(call[other])'
        BY <1>7, <2>2
      <4>1. PICK c : c = call[other] OBVIOUS
      <4>2. Planned(c) BY <3>1, <4>1 DEF OwnerInv
      <4>3. Planned(c)' /\ c = call'[other] BY <1>1, <1>7, <2>2, <4>1, <4>2, PlansStay
      <4> QED BY <4>3 DEF Planned, AtPoint
    <3> QED BY <1>7, <2>2, <3>1, <3>2, <3>3 DEF OwnerInv
  <2> QED BY <2>1, <2>2
<1>11. PageInv' /\ ConsumedInv'
  <2>1. PICK added, old, S : added = call[o].rows /\ old = rows /\ S = RowSet(flow) OBVIOUS
  <2>2. added \in Seq(S) /\ old \in Seq(S) BY <1>9, <2>1
  <2>3. \A u \in Seq(S) : Begins(u, old) => Begins(u, old \o added) BY <2>2, BeginsLonger
  <2>4. PageInv'
    <3> SUFFICES ASSUME page # NoPage PROVE PageInv' BY <1>1 DEF PageInv
    <3>1. /\ page = [limit |-> page.limit, head |-> page.head, rows |-> page.rows]
          /\ page.rows \in Seq(S) /\ Begins(page.rows, old)
      BY <2>1 DEF FlowInv, PageInv
    <3>2. Begins(page.rows, old \o added) BY <2>3, <3>1
    <3>3. Begins(page'.rows, rows') BY <1>1, <1>9, <2>1, <3>2
    <3> QED BY <1>1, <2>1, <3>1, <3>3 DEF PageInv, Begins
  <2>5. ConsumedInv'
    <3>1. consumed \in Seq(S) /\ Begins(consumed, old) BY <2>1 DEF FlowInv, ConsumedInv
    <3>2. Begins(consumed, old \o added) BY <2>3, <3>1
    <3> QED BY <1>1, <1>9, <2>1, <3>1, <3>2 DEF ConsumedInv, Begins
  <2> QED BY <2>4, <2>5
<1> QED BY <1>1, <1>8, <1>9, <1>10, <1>11 DEF FlowInv

-----------------------------------------------------------------------------
(***************************************************************************)
(* The consumer.                                                           *)
(***************************************************************************)

\* Its steps leave the journal and its owners alone.
LEMMA OwnersStay ==
    ASSUME FlowInv, UNCHANGED <<flow, head, rows, place, call, known>>
    PROVE  (flow \in Flows)' /\ HeadInv' /\ PlaceInv' /\ \A o \in Owner : OwnerInv(o)'
<1>1. HeadInv' BY DEF FlowInv, HeadInv, AtPoint
<1>2. PlaceInv' BY DEF FlowInv, PlaceInv
<1>3. \A o \in Owner : OwnerInv(o)'
  <2> SUFFICES ASSUME NEW o \in Owner PROVE OwnerInv(o)' OBVIOUS
  <2>1. OwnerInv(o) BY DEF FlowInv
  <2> QED BY <2>1, OthersStay
<1> QED BY <1>1, <1>2, <1>3 DEF FlowInv

LEMMA ConsumerKeeps ==
    ASSUME FlowsHold, FlowInv, OpenPage \/ NextRow \/ ClosePage
    PROVE  FlowInv'
<1>1. UNCHANGED <<flow, head, rows, place, call, known>> BY DEF OpenPage, NextRow, ClosePage
<1>2. PageInv /\ ConsumedInv BY DEF FlowInv
<1>3. rows \in Seq(RowSet(flow))
  <2>1. FlowHolds(flow) /\ HeadInv BY FlowOfFlows DEF FlowInv
  <2>2. SerialFits(flow, head.position) BY <2>1, SerialHolds DEF FlowHolds, HeadInv, AtPoint
  <2> QED BY <2>1, <2>2 DEF SerialFits, HeadInv
<1>4. CASE OpenPage
  <2>1. PICK limit \in flow.pages : page' = [limit |-> limit, head |-> head, rows |-> rows]
    BY <1>4 DEF OpenPage
  <2>2. consumed' = consumed BY <1>4 DEF OpenPage
  <2>3. page'.rows = rows /\ page' = [limit |-> page'.limit, head |-> page'.head, rows |-> page'.rows]
    BY <2>1
  <2>4. Len(rows) \in Nat BY <1>3, LenProperties
  <2>5. PageInv' BY <1>1, <1>3, <2>3, <2>4 DEF PageInv, Begins
  <2>6. ConsumedInv' BY <1>1, <1>2, <2>2 DEF ConsumedInv, Begins
  <2> QED BY <1>1, <2>5, <2>6, OwnersStay DEF FlowInv
<1>5. CASE ClosePage
  <2>1. page' = NoPage /\ consumed' = consumed BY <1>5 DEF ClosePage
  <2>2. PageInv' BY <2>1 DEF PageInv
  <2>3. ConsumedInv' BY <1>1, <1>2, <2>1 DEF ConsumedInv, Begins
  <2> QED BY <1>1, <2>2, <2>3, OwnersStay DEF FlowInv
<1>6. CASE NextRow
  <2>1. page.limit > 0 BY <1>6 DEF NextRow
  <2>2. page # NoPage BY <2>1 DEF NoPage
  <2>3. /\ page = [limit |-> page.limit, head |-> page.head, rows |-> page.rows]
        /\ page.rows \in Seq(RowSet(flow)) /\ Begins(page.rows, rows)
    BY <1>2, <2>2 DEF PageInv
  <2>4. CASE RowAdmitted(page.head, page.rows, Len(consumed) + 1)
    <3>1. /\ Len(consumed) + 1 <= Len(page.rows)
          /\ consumed' = Append(consumed, page.rows[Len(consumed) + 1])
          /\ page' = [page EXCEPT !.limit = @ - 1]
      BY <1>6, <2>4 DEF NextRow
    <3>2. PageInv'
      <4>1. page' = [limit |-> page.limit - 1, head |-> page.head, rows |-> page.rows]
        BY <2>3, <3>1
      <4>2. page'.rows = page.rows
            /\ page' = [limit |-> page'.limit, head |-> page'.head, rows |-> page'.rows]
        BY <4>1
      <4> QED BY <1>1, <2>3, <4>2 DEF PageInv, Begins
    <3>3. ConsumedInv'
      <4>1. PICK S, all, some, old :
               S = RowSet(flow) /\ all = rows /\ some = page.rows /\ old = consumed
        OBVIOUS
      <4>2. /\ old \in Seq(S) /\ all \in Seq(S) /\ some \in Seq(S)
            /\ Begins(old, all) /\ Begins(some, all) /\ Len(old) + 1 <= Len(some)
        BY <1>2, <1>3, <2>3, <3>1, <4>1 DEF ConsumedInv
      <4> DEFINE row == some[Len(old) + 1]
                 new == Append(old, row)
      <4>3. Len(old) \in Nat /\ Len(some) \in Nat /\ Len(all) \in Nat BY <4>2, LenProperties
      <4>4. Len(old) + 1 \in 1 .. Len(some) BY <4>2, <4>3
      <4>5. row \in S /\ row = all[Len(old) + 1] BY <4>2, <4>4, ElementOfSeq DEF Begins
      <4>6. /\ new \in Seq(S) /\ Len(new) = Len(old) + 1 /\ new[Len(old) + 1] = row
            /\ \A i \in 1 .. Len(old) : new[i] = old[i]
        BY <4>2, <4>5, AppendProperties
      <4> HIDE DEF new, row
      <4>7. Begins(new, all)
        <5>1. Len(new) <= Len(all) BY <4>2, <4>3, <4>6 DEF Begins
        <5>2. ASSUME NEW i \in 1 .. Len(new) PROVE all[i] = new[i]
          <6>1. i \in 1 .. Len(old) \/ i = Len(old) + 1 BY <4>3, <4>6
          <6> QED BY <4>2, <4>5, <4>6, <6>1 DEF Begins
        <5> QED BY <5>1, <5>2 DEF Begins
      <4>8. consumed' = new BY <3>1, <4>1 DEF new, row
      <4> QED BY <1>1, <4>1, <4>6, <4>7, <4>8 DEF ConsumedInv, Begins
    <3> QED BY <1>1, <3>2, <3>3, OwnersStay DEF FlowInv
  <2>5. CASE ~ RowAdmitted(page.head, page.rows, Len(consumed) + 1)
    <3>1. page' = NoPage /\ consumed' = consumed BY <1>6, <2>5 DEF NextRow
    <3>2. PageInv' BY <3>1 DEF PageInv
    <3>3. ConsumedInv' BY <1>1, <1>2, <3>1 DEF ConsumedInv, Begins
    <3> QED BY <1>1, <3>2, <3>3, OwnersStay DEF FlowInv
  <2> QED BY <2>4, <2>5
<1> QED BY <1>4, <1>5, <1>6

-----------------------------------------------------------------------------
(***************************************************************************)
(* The theorems.                                                           *)
(***************************************************************************)

\* Every step keeps the invariant.
LEMMA FlowSteps == FlowsHold /\ FlowInv /\ [Next]_flowVars => FlowInv'
<1> SUFFICES ASSUME FlowsHold, FlowInv, [Next]_flowVars PROVE FlowInv' OBVIOUS
<1>1. CASE UNCHANGED flowVars
  <2>1. UNCHANGED <<flow, head, rows, place, call, known, page, consumed>>
    BY <1>1 DEF flowVars
  <2>2. PageInv' /\ ConsumedInv' BY <2>1, JournalStays
  <2> QED BY <2>1, <2>2, OwnersStay DEF FlowInv
<1>2. ASSUME NEW o \in Owner, Latest(o) PROVE FlowInv' BY <1>2, LatestKeeps
<1>3. ASSUME NEW o \in Owner, Read(o) PROVE FlowInv' BY <1>3, ReadKeeps
<1>4. ASSUME NEW o \in Owner, Process(o) PROVE FlowInv' BY <1>4, ProcessKeeps
<1>5. ASSUME NEW o \in Owner, Observe(o) PROVE FlowInv' BY <1>5, ObserveKeeps
<1>6. ASSUME NEW o \in Owner, Begin(o) PROVE FlowInv' BY <1>6, BeginKeeps
<1>7. ASSUME NEW o \in Owner, Commit(o) \/ CommitUnacknowledged(o) PROVE FlowInv'
  BY <1>7, CommitKeeps
<1>8. ASSUME NEW o \in Owner, LockTimesOut(o) \/ Fail(o) \/ Crash(o) PROVE FlowInv'
  BY <1>8, EndsKeep
<1>9. CASE OpenPage \/ NextRow \/ ClosePage BY <1>9, ConsumerKeeps
<1> QED BY <1>1, <1>2, <1>3, <1>4, <1>5, <1>6, <1>7, <1>8, <1>9 DEF Next

(***************************************************************************)
(* The invariant holds whatever the owners, the consumer and the failures  *)
(* do.                                                                     *)
(***************************************************************************)
THEOREM FlowInvariance == FlowsHold /\ Spec => []FlowInv
<1> SUFFICES ASSUME FlowsHold PROVE Spec => []FlowInv OBVIOUS
<1>1. Init => FlowInv BY FlowStarts
<1>2. FlowInv /\ [Next]_flowVars => FlowInv' BY FlowSteps
<1> QED BY <1>1, <1>2, PTL DEF Spec

\* A beginning is a prefix.
LEMMA BeginningIsPrefix ==
    ASSUME NEW S, NEW u \in Seq(S), NEW v \in Seq(S), Begins(u, v)
    PROVE  IsPrefix(u, v)
<1>1. Len(u) \in Nat /\ Len(v) \in Nat BY LenProperties
<1>2. Len(u) <= Len(v) /\ \A i \in 1 .. Len(u) : v[i] = u[i] BY DEF Begins
<1>3. \A i \in 1 .. Len(u) : u[i] \in S /\ v[i] \in S BY <1>1, <1>2, ElementOfSeq
<1>4. /\ SubSeq(u, 1, Len(u)) \in Seq(S) /\ SubSeq(v, 1, Len(u)) \in Seq(S)
      /\ Len(SubSeq(u, 1, Len(u))) = IF 1 <= Len(u) THEN Len(u) - 1 + 1 ELSE 0
      /\ Len(SubSeq(v, 1, Len(u))) = IF 1 <= Len(u) THEN Len(u) - 1 + 1 ELSE 0
      /\ \A i \in 1 .. Len(u) - 1 + 1 : SubSeq(u, 1, Len(u))[i] = u[1 + i - 1]
      /\ \A i \in 1 .. Len(u) - 1 + 1 : SubSeq(v, 1, Len(u))[i] = v[1 + i - 1]
  BY <1>1, <1>3, SubSeqProperties
<1>5. \A i \in 1 .. Len(u) : SubSeq(u, 1, Len(u))[i] = SubSeq(v, 1, Len(u))[i]
  BY <1>1, <1>2, <1>4
<1>6. Len(SubSeq(u, 1, Len(u))) = Len(u) /\ Len(SubSeq(v, 1, Len(u))) = Len(u)
  BY <1>1, <1>4
<1>7. SubSeq(u, 1, Len(u)) = SubSeq(v, 1, Len(u))
  BY <1>4, <1>5, <1>6, SeqEqual
<1> QED BY <1>2, <1>7 DEF IsPrefix

\* The invariant, without how it came about.
LEMMA InvariantIsExact == FlowsHold /\ FlowInv => JournalIsExact
<1> SUFFICES ASSUME FlowsHold, FlowInv PROVE JournalIsExact OBVIOUS
<1> DEFINE serial == Serially(flow, head.position)
<1>1. FlowHolds(flow) /\ HeadInv BY FlowOfFlows DEF FlowInv
<1>2. /\ head.position \in 0 .. Len(flow.source) /\ serial.ok /\ PointAdmitted(head)
      /\ head.checkpoint = CheckpointOf(serial.runtime) /\ rows = serial.rows
  BY <1>1 DEF HeadInv, AtPoint, Point
<1>3. SerialFits(flow, head.position) BY <1>1, <1>2, SerialHolds DEF FlowHolds
<1>4. /\ rows \in Seq(RowSet(flow)) /\ serial.runtime.emitted = Len(rows)
      /\ \A i \in 1 .. Len(rows) : RowFits(flow, rows, head.position, i)
  BY <1>2, <1>3 DEF SerialFits
<1>5. RestoreAdmitted(flow.graph, head.checkpoint) BY <1>1, <1>2 DEF FlowHolds, RuntimeKept
<1>6. head.checkpoint.emitted = Len(rows) BY <1>2, <1>4 DEF CheckpointOf
<1> HIDE DEF serial
<1>7. Len(rows) \in Nat /\ DOMAIN rows = 1 .. Len(rows) BY <1>4, LenProperties
<1>8. \A i \in DOMAIN rows : RowAdmitted(head, rows, i)
  <2> SUFFICES ASSUME NEW i \in 1 .. Len(rows) PROVE RowAdmitted(head, rows, i) BY <1>7
  <2>1. RowFits(flow, rows, head.position, i) BY <1>4
  <2>2. head.position \in Int /\ \A x \in 0 .. head.position - 1 : x < head.position BY <1>2
  <2> QED BY <2>1, <2>2 DEF RowFits, RowAdmitted
<1>9. rows # <<>> => rows[1].sequence = 0 /\ rows[Len(rows)].sequence = Len(rows) - 1
  <2> SUFFICES ASSUME rows # <<>> PROVE rows[1].sequence = 0 /\ rows[Len(rows)].sequence = Len(rows) - 1
    OBVIOUS
  <2>1. Len(rows) # 0 BY <1>4, EmptySeq
  <2>2. 1 \in 1 .. Len(rows) /\ Len(rows) \in 1 .. Len(rows) BY <1>7, <2>1
  <2>3. RowFits(flow, rows, head.position, 1) /\ RowFits(flow, rows, head.position, Len(rows))
    BY <1>4, <2>2
  <2> QED BY <2>3 DEF RowFits
<1>10. LatestAdmitted BY <1>2, <1>5, <1>6, <1>9 DEF LatestAdmitted
<1>11. IsPrefix(consumed, rows)
  <2>1. PICK S, u, v : S = RowSet(flow) /\ u = consumed /\ v = rows OBVIOUS
  <2>2. u \in Seq(S) /\ v \in Seq(S) /\ Begins(u, v) BY <1>4, <2>1 DEF FlowInv, ConsumedInv
  <2>3. IsPrefix(u, v) BY <2>2, BeginningIsPrefix
  <2> QED BY <2>1, <2>3
<1>12. \A o \in Owner : known[o] # NoPoint =>
          /\ known[o].generation <= head.generation /\ known[o].position <= head.position
          /\ known[o].generation = head.generation => known[o] = head
  BY DEF FlowInv, OwnerInv, Seen
<1> QED BY <1>2, <1>8, <1>10, <1>11, <1>12 DEF JournalIsExact, serial

(***************************************************************************)
(* However owners cut the source, race, lose replies and die: state and    *)
(* rows are those of the flow applied once to every record of the prefix,  *)
(* in order, every read admits them, and the consumer has a prefix of the  *)
(* rows.                                                                   *)
(***************************************************************************)
THEOREM JournalStaysExact == FlowsHold /\ Spec => []JournalIsExact
<1> SUFFICES ASSUME FlowsHold PROVE Spec => []JournalIsExact OBVIOUS
<1>1. FlowInv => JournalIsExact BY InvariantIsExact
<1>2. Spec => []FlowInv BY FlowInvariance
<1> QED BY <1>1, <1>2, PTL

\* A step of the journal is a commit.
LEMMA OnlyCommitsAdvance ==
    ASSUME FlowsHold, FlowInv, Next, ~ UNCHANGED <<head, rows>>
    PROVE  /\ head'.generation = head.generation + 1
           /\ head'.position > head.position
           /\ SubSeq(rows', 1, Len(rows)) = rows
<1>1. PICK o \in Owner : Commit(o) \/ CommitUnacknowledged(o)
  BY DEF Next, Latest, Read, Process, Observe, Begin, LockTimesOut, Fail, Crash, OpenPage,
         NextRow, ClosePage
<1>2. Published(o) /\ UNCHANGED flow BY <1>1 DEF Commit, CommitUnacknowledged
<1>3. /\ head'.generation = head.generation + 1 /\ head'.position > head.position
      /\ call[o].rows \in Seq(RowSet(flow)) /\ rows \in Seq(RowSet(flow))
      /\ rows' = rows \o call[o].rows
  BY <1>2, PublishedIsSerial
<1>4. SubSeq(rows', 1, Len(rows)) = rows
  <2>1. PICK S, u, v : S = RowSet(flow) /\ u = rows /\ v = call[o].rows OBVIOUS
  <2>2. u \in Seq(S) /\ v \in Seq(S) BY <1>3, <2>1
  <2>3. Len(u) \in Nat /\ Len(v) \in Nat BY <2>2, LenProperties
  <2>4. \A i \in 1 .. Len(u) : (u \o v)[i] = u[i] /\ u[i] \in S
    <3> SUFFICES ASSUME NEW i \in 1 .. Len(u) PROVE (u \o v)[i] = u[i] /\ u[i] \in S OBVIOUS
    <3>1. i \in 1 .. Len(u) + Len(v) /\ i <= Len(u) BY <2>3
    <3> QED BY <2>2, <3>1, ConcatProperties, ElementOfSeq
  <2>5. /\ SubSeq(u \o v, 1, Len(u)) \in Seq(S)
        /\ Len(SubSeq(u \o v, 1, Len(u))) = IF 1 <= Len(u) THEN Len(u) - 1 + 1 ELSE 0
        /\ \A i \in 1 .. Len(u) - 1 + 1 : SubSeq(u \o v, 1, Len(u))[i] = (u \o v)[1 + i - 1]
    <3>1. 1 \in Int /\ Len(u) \in Int /\ \A i \in 1 .. Len(u) : (u \o v)[i] \in S BY <2>3, <2>4
    <3> QED BY <3>1, SubSeqProperties
  <2>6. Len(SubSeq(u \o v, 1, Len(u))) = Len(u) BY <2>3, <2>5
  <2>7. \A i \in 1 .. Len(u) : SubSeq(u \o v, 1, Len(u))[i] = u[i] BY <2>3, <2>4, <2>5
  <2>8. SubSeq(u \o v, 1, Len(u)) = u BY <2>2, <2>5, <2>6, <2>7, SeqEqual
  <2> QED BY <1>3, <2>1, <2>8
<1> QED BY <1>3, <1>4

(***************************************************************************)
(* A commit is one generation; it moves the source on, by a slice, and only*)
(* adds rows.                                                              *)
(***************************************************************************)
THEOREM JournalAlwaysAdvances == FlowsHold /\ Spec => JournalOnlyAdvances
<1> SUFFICES ASSUME FlowsHold PROVE Spec => JournalOnlyAdvances OBVIOUS
<1>1. FlowInv /\ [Next]_flowVars =>
         [/\ head'.generation = head.generation + 1
          /\ head'.position > head.position
          /\ SubSeq(rows', 1, Len(rows)) = rows]_<<head, rows>>
  BY OnlyCommitsAdvance DEF flowVars
<1>2. Spec => []FlowInv BY FlowInvariance
<1> QED BY <1>1, <1>2, PTL DEF Spec, JournalOnlyAdvances

\* The calls are admitted, and their aligners are ones the store can rely on.
RecoveryHolds ==
    \A tasks \in Tasks :
       /\ TasksAdmitted(tasks)
       /\ \A r \in Resumer : /\ RestoreIsInvisible(tasks[r].config, tasks[r].source)
                             /\ AlignerIsExact(tasks[r].config, tasks[r].source)

-----------------------------------------------------------------------------
(***************************************************************************)
(* Sequences of windows, which have no type.                               *)
(***************************************************************************)

LEMMA ListedConcat ==
    ASSUME NEW u, NEW v, Listed(u), Listed(v)
    PROVE  /\ Listed(u \o v) /\ Len(u) \in Nat /\ Len(v) \in Nat
           /\ DOMAIN u = 1 .. Len(u) /\ DOMAIN v = 1 .. Len(v)
           /\ Len(u \o v) = Len(u) + Len(v) /\ DOMAIN (u \o v) = 1 .. Len(u) + Len(v)
           /\ \A i \in 1 .. Len(u) : (u \o v)[i] = u[i]
           /\ \A i \in 1 .. Len(v) : (u \o v)[Len(u) + i] = v[i]
<1> DEFINE S == ToSet(u) \cup ToSet(v)
           w == u \o v
<1>1. u \in Seq(S) /\ v \in Seq(S) BY DEF Listed
<1> HIDE DEF S
<1>2. /\ Len(u) \in Nat /\ Len(v) \in Nat
      /\ DOMAIN u = 1 .. Len(u) /\ DOMAIN v = 1 .. Len(v)
  BY <1>1, LenProperties
<1>3. /\ w \in Seq(S) /\ Len(w) = Len(u) + Len(v)
      /\ \A i \in 1 .. Len(u) + Len(v) : w[i] = IF i <= Len(u) THEN u[i] ELSE v[i - Len(u)]
  BY <1>1, ConcatProperties
<1> HIDE DEF w
<1>4. w \in [1 .. Len(w) -> S] /\ DOMAIN w = 1 .. Len(w) BY <1>3, LenProperties
<1>5. Listed(w)
  <2>1. w \in [1 .. Len(w) -> {w[i] : i \in DOMAIN w}] BY <1>4
  <2>2. Len(w) \in Nat BY <1>2, <1>3
  <2>3. w \in Seq({w[i] : i \in DOMAIN w}) BY <2>1, <2>2
  <2> QED BY <2>3 DEF Listed, ToSet
<1>6. \A i \in 1 .. Len(u) : i \in 1 .. Len(u) + Len(v) /\ i <= Len(u) BY <1>2
<1>7. \A i \in 1 .. Len(v) : /\ Len(u) + i \in 1 .. Len(u) + Len(v) /\ ~ (Len(u) + i <= Len(u))
                             /\ (Len(u) + i) - Len(u) = i
  BY <1>2
<1>8. \A i \in 1 .. Len(u) : w[i] = u[i] BY <1>3, <1>6
<1>9. \A i \in 1 .. Len(v) : w[Len(u) + i] = v[i] BY <1>3, <1>7
<1> QED BY <1>2, <1>3, <1>4, <1>5, <1>8, <1>9 DEF w

Regroups(u, v, w) == (u \o v) \o w = u \o (v \o w)

LEMMA ListedRegroups ==
    ASSUME NEW u, NEW v, NEW w, Listed(u), Listed(v), Listed(w)
    PROVE  Regroups(u, v, w)
<1> DEFINE S == ToSet(u) \cup ToSet(v) \cup ToSet(w)
<1>1. u \in Seq(S) /\ v \in Seq(S) /\ w \in Seq(S) BY DEF Listed
<1> HIDE DEF S
<1> QED BY <1>1, ConcatAssociative DEF Regroups

LEMMA ListedEmpty ==
    /\ Listed(<<>>) /\ <<>> \o <<>> = <<>>
    /\ \A u : Listed(u) => u \o <<>> = u /\ <<>> \o u = u
<1>1. \A T : <<>> \in Seq(T) BY EmptySeq
<1>2. ASSUME NEW u, Listed(u) PROVE u \o <<>> = u /\ <<>> \o u = u
  BY <1>2, ConcatEmptySeq DEF Listed
<1>3. Listed(<<>>) BY <1>1 DEF Listed
<1> QED BY <1>2, <1>3

\* What is appended to is the beginning of the result.
LEMMA ListedBeginning ==
    ASSUME NEW u, NEW v, Listed(u), Listed(v)
    PROVE  SubSeq(u \o v, 1, Len(u)) = u
<1> DEFINE w == u \o v
           S == ToSet(u)
           z == SubSeq(w, 1, Len(u))
<1>1. Len(u) \in Nat /\ \A i \in 1 .. Len(u) : w[i] = u[i] BY ListedConcat
<1>2. u \in Seq(S) BY DEF Listed
<1> HIDE DEF w, S
<1>3. \A i \in 1 .. Len(u) : w[i] \in S BY <1>1, <1>2, ElementOfSeq
<1>4. /\ z \in Seq(S) /\ Len(z) = IF 1 <= Len(u) THEN Len(u) - 1 + 1 ELSE 0
      /\ \A i \in 1 .. Len(u) - 1 + 1 : z[i] = w[1 + i - 1]
  <2>1. 1 \in Int /\ Len(u) \in Int BY <1>1
  <2> QED BY <1>3, <2>1, SubSeqProperties
<1> HIDE DEF z
<1>5. Len(z) = Len(u) BY <1>1, <1>4
<1>6. \A i \in 1 .. Len(z) : z[i] = u[i] BY <1>1, <1>4, <1>5
<1>7. z = u BY <1>2, <1>4, <1>5, <1>6, SeqEqual
<1> QED BY <1>7 DEF z, w

-----------------------------------------------------------------------------
(***************************************************************************)
(* The uninterrupted call, one event at a time.                            *)
(***************************************************************************)
WholeStart == [ok |-> TRUE, aligner |-> NewAligner, windows |-> <<>>]

WholeNext(c, whole, e) ==
    LET result == Ingest(c, whole.aligner, e)
    IN  [ok |-> whole.ok /\ result.ok, aligner |-> result.aligner,
         windows |-> whole.windows \o result.windows]

WholeRun(u, c, source) ==
    u = [p \in 0 .. Len(source) |-> IF p = 0 THEN WholeStart ELSE WholeNext(c, u[p - 1], source[p])]

Restarted(c, held) == held \cup {AlignerRestored(c, AlignerCheckpoint(c, a)) : a \in held}

HeldNext(c, held, e) == Restarted(c, {Ingest(c, a, e).aligner : a \in held})

HeldRun(u, c, source) ==
    u = [p \in 0 .. Len(source) |->
            IF p = 0 THEN Restarted(c, {NewAligner}) ELSE HeldNext(c, u[p - 1], source[p])]

\* The recursions have solutions.
LEMMA WholeDefined ==
    ASSUME NEW c, NEW source, Len(source) \in Nat
    PROVE  \E u : WholeRun(u, c, source)
<1> DEFINE Step(u, p) == IF p = 0 THEN WholeStart ELSE WholeNext(c, u[p - 1], source[p])
           Solved(m) == \E u : u = [p \in 0 .. m |-> Step(u, p)]
           Bad == {m \in 0 .. Len(source) : ~ Solved(m)}
<1> SUFFICES Solved(Len(source)) BY DEF WholeRun
<1> SUFFICES ASSUME Bad # {} PROVE FALSE OBVIOUS
<1>1. PICK m \in Bad : \A n \in Bad : m <= n
  <2>1. Bad \in SUBSET Nat OBVIOUS
  <2> HIDE DEF Bad
  <2> QED BY <2>1, LeastNatural
<1>2. m # 0
  <2> DEFINE u == [p \in 0 .. 0 |-> WholeStart]
  <2>1. u = [p \in 0 .. 0 |-> Step(u, p)]
    <3>1. \A p \in 0 .. 0 : Step(u, p) = WholeStart OBVIOUS
    <3> QED BY <3>1
  <2> QED BY <2>1
<1>3. PICK u : u = [p \in 0 .. m - 1 |-> Step(u, p)]
  <2> HIDE DEF Solved
  <2>1. m - 1 \in 0 .. Len(source) /\ m - 1 \notin Bad BY <1>1, <1>2
  <2>2. Solved(m - 1) BY <2>1
  <2> QED BY <2>2 DEF Solved
<1> DEFINE v == [p \in 0 .. m |-> IF p = m THEN Step(u, m) ELSE u[p]]
<1>4. v = [p \in 0 .. m |-> Step(v, p)]
  <2>1. \A p \in 0 .. m : p # 0 => p - 1 \in 0 .. m - 1 /\ v[p - 1] = u[p - 1]
    BY <1>2
  <2>2. \A p \in 0 .. m : Step(v, p) = Step(u, p) BY <2>1
  <2>3. \A p \in 0 .. m - 1 : u[p] = Step(u, p) BY <1>3
  <2>4. \A p \in 0 .. m : v[p] = Step(u, p)
    <3> HIDE DEF Step
    <3> QED BY <2>3
  <2> HIDE DEF Step
  <2> QED BY <2>2, <2>4
<1> QED BY <1>1, <1>4

LEMMA HeldDefined ==
    ASSUME NEW c, NEW source, Len(source) \in Nat
    PROVE  \E u : HeldRun(u, c, source)
<1> DEFINE Start == Restarted(c, {NewAligner})
           Step(u, p) == IF p = 0 THEN Start ELSE HeldNext(c, u[p - 1], source[p])
           Solved(m) == \E u : u = [p \in 0 .. m |-> Step(u, p)]
           Bad == {m \in 0 .. Len(source) : ~ Solved(m)}
<1> HIDE DEF Start
<1> SUFFICES Solved(Len(source)) BY DEF HeldRun, Start
<1> SUFFICES ASSUME Bad # {} PROVE FALSE OBVIOUS
<1>1. PICK m \in Bad : \A n \in Bad : m <= n
  <2>1. Bad \in SUBSET Nat OBVIOUS
  <2> HIDE DEF Bad
  <2> QED BY <2>1, LeastNatural
<1>2. m # 0
  <2> DEFINE u == [p \in 0 .. 0 |-> Start]
  <2>1. u = [p \in 0 .. 0 |-> Step(u, p)]
    <3>1. \A p \in 0 .. 0 : Step(u, p) = Start OBVIOUS
    <3> QED BY <3>1
  <2> QED BY <2>1
<1>3. PICK u : u = [p \in 0 .. m - 1 |-> Step(u, p)]
  <2> HIDE DEF Solved
  <2>1. m - 1 \in 0 .. Len(source) /\ m - 1 \notin Bad BY <1>1, <1>2
  <2>2. Solved(m - 1) BY <2>1
  <2> QED BY <2>2 DEF Solved
<1> DEFINE v == [p \in 0 .. m |-> IF p = m THEN Step(u, m) ELSE u[p]]
<1>4. v = [p \in 0 .. m |-> Step(v, p)]
  <2>1. \A p \in 0 .. m : p # 0 => p - 1 \in 0 .. m - 1 /\ v[p - 1] = u[p - 1]
    BY <1>2
  <2>2. \A p \in 0 .. m : Step(v, p) = Step(u, p) BY <2>1
  <2>3. \A p \in 0 .. m - 1 : u[p] = Step(u, p) BY <1>3
  <2>4. \A p \in 0 .. m : v[p] = Step(u, p)
    <3> HIDE DEF Step
    <3> QED BY <2>3
  <2> HIDE DEF Step
  <2> QED BY <2>2, <2>4
<1> QED BY <1>1, <1>4

\* One more event is ingested in the state the others left.
LEMMA WholeSteps ==
    ASSUME NEW c, NEW source, Len(source) \in Nat
    PROVE  /\ Uninterrupted(c, source, 0) = WholeStart
           /\ \A p \in 1 .. Len(source) :
                 Uninterrupted(c, source, p) =
                    WholeNext(c, Uninterrupted(c, source, p - 1), source[p])
<1> DEFINE u == CHOOSE u : WholeRun(u, c, source)
<1>1. WholeRun(u, c, source) BY WholeDefined
<1>2. \A n : Uninterrupted(c, source, n) = u[n]
  BY DEF Uninterrupted, WholeRun, WholeNext, WholeStart
<1> HIDE DEF u
<1>3. u[0] = WholeStart BY <1>1 DEF WholeRun
<1>4. \A p \in 1 .. Len(source) : u[p] = WholeNext(c, u[p - 1], source[p])
  <2> SUFFICES ASSUME NEW p \in 1 .. Len(source)
               PROVE  u[p] = WholeNext(c, u[p - 1], source[p])
    OBVIOUS
  <2>1. p \in 0 .. Len(source) /\ p # 0 OBVIOUS
  <2> QED BY <1>1, <2>1 DEF WholeRun
<1> QED BY <1>2, <1>3, <1>4

LEMMA HeldSteps ==
    ASSUME NEW c, NEW source, Len(source) \in Nat
    PROVE  /\ Held(c, source, 0) = Restarted(c, {NewAligner})
           /\ \A p \in 1 .. Len(source) :
                 Held(c, source, p) = HeldNext(c, Held(c, source, p - 1), source[p])
<1> DEFINE u == CHOOSE u : HeldRun(u, c, source)
<1>1. HeldRun(u, c, source) BY HeldDefined
<1>2. \A n : Held(c, source, n) = u[n]
  BY DEF Held, HeldRun, HeldNext, Restarted
<1> HIDE DEF u
<1>3. u[0] = Restarted(c, {NewAligner}) BY <1>1 DEF HeldRun
<1>4. \A p \in 1 .. Len(source) : u[p] = HeldNext(c, u[p - 1], source[p])
  <2> SUFFICES ASSUME NEW p \in 1 .. Len(source)
               PROVE  u[p] = HeldNext(c, u[p - 1], source[p])
    OBVIOUS
  <2>1. p \in 0 .. Len(source) /\ p # 0 OBVIOUS
  <2> QED BY <1>1, <2>1 DEF HeldRun
<1> QED BY <1>2, <1>3, <1>4

\* A source and what is relied on of its aligners.
SourceHolds(c, source) ==
    /\ Len(source) \in Nat
    /\ RestoreIsInvisible(c, source) /\ AlignerIsExact(c, source)

\* The uninterrupted aligner is one of those that may be held, as is what is
\* restored from its checkpoint.
LEMMA WholeIsHeld ==
    ASSUME NEW c, NEW source, Len(source) \in Nat, NEW n \in 0 .. Len(source)
    PROVE  LET a == Uninterrupted(c, source, n).aligner
           IN  /\ a \in Held(c, source, n)
               /\ AlignerRestored(c, AlignerCheckpoint(c, a)) \in Held(c, source, n)
<1> DEFINE W(m) == Uninterrupted(c, source, m).aligner
           H(m) == Held(c, source, m)
           Both(m) == W(m) \in H(m) /\ AlignerRestored(c, AlignerCheckpoint(c, W(m))) \in H(m)
           Bad == {m \in 0 .. Len(source) : ~ Both(m)}
<1>1. Both(0)
  <2>1. W(0) = NewAligner /\ H(0) = Restarted(c, {NewAligner})
    BY WholeSteps, HeldSteps DEF WholeStart
  <2> HIDE DEF W, H
  <2> QED BY <2>1 DEF Restarted
<1>2. ASSUME NEW m \in 1 .. Len(source), Both(m - 1) PROVE Both(m)
  <2> DEFINE a == W(m - 1)
             e == source[m]
             held == {Ingest(c, x, e).aligner : x \in H(m - 1)}
  <2>1. W(m) = Ingest(c, a, e).aligner
    <3>1. Uninterrupted(c, source, m) = WholeNext(c, Uninterrupted(c, source, m - 1), e)
      BY WholeSteps
    <3> QED BY <3>1 DEF WholeNext
  <2>2. H(m) = Restarted(c, held)
    <3>1. H(m) = HeldNext(c, H(m - 1), e) BY HeldSteps
    <3> HIDE DEF H, e
    <3> QED BY <3>1 DEF HeldNext
  <2>3. a \in H(m - 1) BY <1>2
  <2> HIDE DEF a, e, W, H
  <2>4. W(m) \in held BY <2>1, <2>3
  <2> HIDE DEF held
  <2> QED BY <2>2, <2>4 DEF Restarted
<1>3. Bad = {}
  <2> SUFFICES ASSUME Bad # {} PROVE FALSE OBVIOUS
  <2> HIDE DEF Both
  <2>1. PICK m \in Bad : \A k \in Bad : m <= k
    <3>1. Bad \in SUBSET Nat OBVIOUS
    <3> HIDE DEF Bad
    <3> QED BY <3>1, LeastNatural
  <2>2. m \in 1 .. Len(source) BY <1>1, <2>1
  <2>3. m - 1 \in 0 .. Len(source) /\ m - 1 \notin Bad BY <2>1, <2>2
  <2>4. Both(m - 1) BY <2>3
  <2> QED BY <1>2, <2>1, <2>2, <2>4
<1>4. Both(n)
  <2> HIDE DEF Both
  <2> QED BY <1>3
<1> QED BY <1>4

\* What is relied on after n events.
LEMMA HeldAlike ==
    ASSUME NEW c, NEW source, SourceHolds(c, source), NEW n \in 0 .. Len(source),
           Uninterrupted(c, source, n).ok, NEW a \in Held(c, source, n)
    PROVE  LET b == Uninterrupted(c, source, n).aligner
           IN  /\ ~ a.closed /\ AlignerCheckpoint(c, a) = AlignerCheckpoint(c, b)
               /\ n < Len(source) =>
                     /\ Ingest(c, a, source[n + 1]).ok = Ingest(c, b, source[n + 1]).ok
                     /\ Ingest(c, a, source[n + 1]).windows = Ingest(c, b, source[n + 1]).windows
                     /\ Listed(Ingest(c, a, source[n + 1]).windows)
               /\ n = Len(source) =>
                     /\ Flush(c, a).ok = Flush(c, b).ok
                     /\ Flush(c, a).windows = Flush(c, b).windows
                     /\ Listed(Flush(c, a).windows)
                     /\ AlignerCheckpoint(c, Flush(c, a).aligner) =
                           AlignerCheckpoint(c, Flush(c, b).aligner)
                     /\ Flush(c, a).ok => Flush(c, a).aligner.closed
<1>1. RestoreIsInvisible(c, source) BY DEF SourceHolds
<1> QED BY <1>1 DEF RestoreIsInvisible

\* A source that was not refused was not refused before, and its windows are a sequence.
LEMMA WholeListed ==
    ASSUME NEW c, NEW source, SourceHolds(c, source), NEW n \in 0 .. Len(source),
           Uninterrupted(c, source, n).ok
    PROVE  Listed(Uninterrupted(c, source, n).windows)
<1> DEFINE W(m) == Uninterrupted(c, source, m)
           Bad == {m \in 0 .. Len(source) : W(m).ok /\ ~ Listed(W(m).windows)}
<1>0. Len(source) \in Nat BY DEF SourceHolds
<1>1. Bad = {}
  <2> SUFFICES ASSUME Bad # {} PROVE FALSE OBVIOUS
  <2>1. PICK m \in Bad : \A k \in Bad : m <= k
    <3>1. Bad \in SUBSET Nat BY <1>0
    <3> HIDE DEF Bad
    <3> QED BY <3>1, LeastNatural
  <2>2. m # 0
    <3>1. W(0).windows = <<>> BY <1>0, WholeSteps DEF WholeStart
    <3> QED BY <2>1, <3>1, ListedEmpty
  <2>3. m - 1 \in 0 .. Len(source) /\ m \in 1 .. Len(source) /\ m - 1 < Len(source)
        /\ (m - 1) + 1 = m
    BY <1>0, <2>1, <2>2
  <2>4. W(m) = WholeNext(c, W(m - 1), source[m]) BY <1>0, <2>3, WholeSteps
  <2> DEFINE a == W(m - 1).aligner
             x == Ingest(c, a, source[m])
  <2>5. W(m).ok /\ ~ Listed(W(m).windows) BY <2>1
  <2>6. W(m - 1).ok /\ W(m).windows = W(m - 1).windows \o x.windows
    <3> HIDE DEF W
    <3>1. W(m).ok = (W(m - 1).ok /\ x.ok) BY <2>4 DEF WholeNext
    <3>2. WholeNext(c, W(m - 1), source[m]).windows = W(m - 1).windows \o x.windows
      BY Zenon DEF WholeNext
    <3>3. W(m).windows = W(m - 1).windows \o x.windows BY <2>4, <3>2, Zenon
    <3> QED BY <2>5, <3>1, <3>3
  <2>7. m - 1 \notin Bad BY <1>0, <2>1, <2>3
  <2>8. Listed(W(m - 1).windows) BY <2>3, <2>6, <2>7
  <2>9. a \in Held(c, source, m - 1) BY <1>0, <2>3, WholeIsHeld
  <2>10. Listed(x.windows)
    <3>1. PICK k : k = m - 1 OBVIOUS
    <3>2. Listed(Ingest(c, a, source[k + 1]).windows) BY <2>3, <2>6, <2>9, <3>1, HeldAlike
    <3> QED BY <2>3, <3>1, <3>2
  <2> QED BY <2>5, <2>6, <2>8, <2>10, ListedConcat
<1> QED BY <1>1

-----------------------------------------------------------------------------
(***************************************************************************)
(* What holds in every reachable state: the stored point and windows are   *)
(* those of an uninterrupted call, and a call in progress is that call     *)
(* too, as far as it got, from whatever point was stored when it began.    *)
(***************************************************************************)
AtEnd(c, source) == Flush(c, Uninterrupted(c, source, Len(source)).aligner)

\* A point that an uninterrupted call would store.
Stands(c, source, p) ==
    /\ p.source = source /\ p.checkpoint.config = c
    /\ p.position \in 0 .. Len(source) /\ p.generation \in Nat \ {0}
    /\ Uninterrupted(c, source, p.position).ok
    /\ IF p.checkpoint.closed
         THEN /\ p.position = Len(source) /\ AtEnd(c, source).ok
              /\ p.checkpoint = AlignerCheckpoint(c, AtEnd(c, source).aligner)
         ELSE p.checkpoint = AlignerCheckpoint(c, Uninterrupted(c, source, p.position).aligner)

\* The windows closed up to a point.
WindowsTo(c, source, n, closed) ==
    IF closed THEN Uninterrupted(c, source, n).windows \o AtEnd(c, source).windows
              ELSE Uninterrupted(c, source, n).windows

PointInv ==
    IF point = NothingStored THEN stored = <<>>
    ELSE \E r \in Resumer :
            /\ Stands(task[r].config, task[r].source, point)
            /\ stored = WindowsTo(task[r].config, task[r].source, point.position,
                                  point.checkpoint.closed)

\* A point a call has loaded was stored, and is stored still if it closes the source.
Loaded(c, source, p, now) ==
    /\ Stands(c, source, p)
    /\ p.generation <= now.generation
    /\ p.generation = now.generation => p = now
    /\ p.checkpoint.closed => p = now

\* How far a call is, whoever has committed since it began: its commit is
\* admitted only if the point is the one it went on from.
Placed(c, source, x, now) ==
    /\ x.generation \in Nat /\ x.generation <= now.generation
    /\ x.position \in Nat /\ x.since \in 0 .. x.position /\ x.stop \in x.position .. Len(source)
    /\ x.generation = now.generation => now.position = x.position - x.since
    /\ x.since = 0 /\ x.position = x.stop =>
          x.stop = Len(source) \/ x.stop = x.loaded.position
    /\ Uninterrupted(c, source, x.position).ok
    /\ Uninterrupted(c, source, x.position - x.since).ok

\* The aligner, and the windows it has closed since the last commit.
Replaying(c, source, x) ==
    /\ x.aligner \in Held(c, source, x.position)
    /\ Listed(x.pending)
    /\ Uninterrupted(c, source, x.position).windows =
          Uninterrupted(c, source, x.position - x.since).windows \o x.pending

\* The same after the flush at the end of the source.
Flushed(c, source, x) ==
    /\ x.position = Len(source)
    /\ \E a \in Held(c, source, x.position) :
          Flush(c, a).ok /\ x.aligner = Flush(c, a).aligner
    /\ Listed(x.pending)
    /\ WindowsTo(c, source, x.position, TRUE) =
          Uninterrupted(c, source, x.position - x.since).windows \o x.pending

\* Within the source, a call commits some event or was asked for none.
Pausing(c, source, x) ==
    /\ Replaying(c, source, x)
    /\ x.since # 0 \/ x.stop = x.loaded.position

\* What a call commits: the end of the source, or a part of it.
Committing(c, source, x) == Flushed(c, source, x) \/ Pausing(c, source, x)

\* The restored aligner, before the stored windows are verified.
Verifying(c, source, x, now) ==
    /\ Loaded(c, source, x.loaded, now)
    /\ x.aligner = AlignerRestored(c, x.loaded.checkpoint)
    /\ x.position = x.loaded.position /\ x.pending = <<>>
    /\ ~ x.loaded.checkpoint.closed => Placed(c, source, x, now) /\ Replaying(c, source, x)

IsRun(x) ==
    x = [loaded |-> x.loaded, aligner |-> x.aligner, position |-> x.position,
         generation |-> x.generation, batch |-> x.batch, stop |-> x.stop,
         pending |-> x.pending, since |-> x.since]

CallInv(c, source, label, x, now) ==
    /\ label \in {"idle", "verify", "replay", "commit"}
    /\ label # "idle" => IsRun(x)
    /\ label = "verify" => Verifying(c, source, x, now)
    /\ label = "replay" => Placed(c, source, x, now) /\ Replaying(c, source, x)
    /\ label = "commit" => Placed(c, source, x, now) /\ Committing(c, source, x)

AnswerInv(p, now) ==
    p # NothingStored =>
       /\ p.generation \in Nat /\ p.generation <= now.generation
       /\ p.position \in Nat /\ p.position <= now.position
       /\ ClosedPoint(p) => now = p

ProcessInv(r) ==
    /\ CallInv(task[r].config, task[r].source, pc[r], run[r], point)
    /\ AnswerInv(answer[r], point)

OfResumers(f) == f = [r \in Resumer |-> f[r]]

StoreInv ==
    /\ task \in Tasks
    /\ OfResumers(pc) /\ OfResumers(run) /\ OfResumers(answer)
    /\ PointInv
    /\ \A r \in Resumer : ProcessInv(r)

-----------------------------------------------------------------------------
(***************************************************************************)
(* What a stored point says.                                               *)
(***************************************************************************)
LEMMA TasksHold ==
    ASSUME RecoveryHolds, NEW tasks \in Tasks, NEW r \in Resumer
    PROVE  /\ SourceHolds(tasks[r].config, tasks[r].source)
           /\ tasks[r].allowances \subseteq Nat
<1>1. /\ TasksAdmitted(tasks) /\ RestoreIsInvisible(tasks[r].config, tasks[r].source)
      /\ AlignerIsExact(tasks[r].config, tasks[r].source)
  BY DEF RecoveryHolds
<1>2. tasks[r].source \in Seq(ToSet(tasks[r].source)) /\ tasks[r].allowances \subseteq Nat
  BY <1>1 DEF TasksAdmitted
<1>3. Len(tasks[r].source) \in Nat BY <1>2, LenProperties
<1> QED BY <1>1, <1>2, <1>3 DEF SourceHolds

LEMMA CheckpointFields ==
    ASSUME NEW c, NEW a
    PROVE  /\ AlignerCheckpoint(c, a).config = c /\ AlignerCheckpoint(c, a).closed = a.closed
           /\ AlignerCheckpoint(c, a).nextIndex = a.nextIndex
BY DEF AlignerCheckpoint

\* The end of a source, whoever's aligner reaches it.
LEMMA EndAlike ==
    ASSUME NEW c, NEW source, SourceHolds(c, source), Uninterrupted(c, source, Len(source)).ok,
           NEW a \in Held(c, source, Len(source)), Flush(c, a).ok
    PROVE  /\ AtEnd(c, source).ok /\ AtEnd(c, source).windows = Flush(c, a).windows
           /\ Listed(AtEnd(c, source).windows) /\ Flush(c, a).aligner.closed
           /\ AlignerCheckpoint(c, Flush(c, a).aligner) = AlignerCheckpoint(c, AtEnd(c, source).aligner)
<1>1. Len(source) \in Nat BY DEF SourceHolds
<1>2. Len(source) \in 0 .. Len(source) BY <1>1
<1> QED BY <1>2, HeldAlike DEF AtEnd

\* The windows stored with a point are a sequence.
LEMMA StoredListed ==
    ASSUME NEW c, NEW source, SourceHolds(c, source), NEW p, Stands(c, source, p)
    PROVE  Listed(WindowsTo(c, source, p.position, p.checkpoint.closed))
<1>1. Listed(Uninterrupted(c, source, p.position).windows) BY WholeListed DEF Stands
<1>2. CASE p.checkpoint.closed
  <2> DEFINE a == Uninterrupted(c, source, Len(source)).aligner
  <2>1. p.position = Len(source) /\ AtEnd(c, source).ok BY <1>2 DEF Stands
  <2>2. Len(source) \in Nat BY DEF SourceHolds
  <2>3. Len(source) \in 0 .. Len(source) BY <2>2
  <2>4. a \in Held(c, source, Len(source)) BY <2>2, <2>3, WholeIsHeld
  <2>5. Uninterrupted(c, source, Len(source)).ok BY <2>1 DEF Stands
  <2>6. Flush(c, a).ok BY <2>1 DEF AtEnd
  <2> HIDE DEF a
  <2>7. Listed(AtEnd(c, source).windows) BY <2>4, <2>5, <2>6, EndAlike
  <2> QED BY <1>1, <1>2, <2>7, ListedConcat DEF WindowsTo
<1>3. CASE ~ p.checkpoint.closed
  BY <1>1, <1>3 DEF WindowsTo
<1> QED BY <1>2, <1>3

\* The point that a call commits, if the stored one is the one it went on from.
LEMMA CommitStands ==
    ASSUME NEW c, NEW source, SourceHolds(c, source), NEW x, NEW now,
           Placed(c, source, x, now), Committing(c, source, x),
           NEW p, p = [generation |-> x.generation + 1, source |-> source,
                       position |-> x.position, checkpoint |-> AlignerCheckpoint(c, x.aligner)]
    PROVE  /\ Stands(c, source, p)
           /\ Uninterrupted(c, source, x.position - x.since).windows \o x.pending =
                 WindowsTo(c, source, p.position, p.checkpoint.closed)
           /\ ~ p.checkpoint.closed => Pausing(c, source, x)
           /\ p.checkpoint.closed => x.position = Len(source)
<1>0. Len(source) \in Nat BY DEF SourceHolds
<1>1. /\ p.generation = x.generation + 1 /\ p.source = source /\ p.position = x.position
      /\ p.checkpoint = AlignerCheckpoint(c, x.aligner)
  OBVIOUS
<1>2. p.generation \in Nat \ {0} /\ p.position \in 0 .. Len(source)
  BY <1>0, <1>1 DEF Placed
<1>3. p.checkpoint.config = c /\ p.checkpoint.closed = x.aligner.closed BY <1>1, CheckpointFields
<1>4. Uninterrupted(c, source, p.position).ok BY <1>1 DEF Placed
<1>5. CASE Flushed(c, source, x)
  <2>1. p.position = Len(source) BY <1>1, <1>5 DEF Flushed
  <2>2. PICK a \in Held(c, source, Len(source)) :
           Flush(c, a).ok /\ x.aligner = Flush(c, a).aligner
    BY <1>1, <1>5, <2>1 DEF Flushed
  <2>3. /\ AtEnd(c, source).ok /\ x.aligner.closed
        /\ AlignerCheckpoint(c, x.aligner) = AlignerCheckpoint(c, AtEnd(c, source).aligner)
    BY <1>4, <2>1, <2>2, EndAlike
  <2>4. Stands(c, source, p) BY <1>1, <1>2, <1>3, <1>4, <2>1, <2>3 DEF Stands
  <2>5. WindowsTo(c, source, x.position, TRUE) =
           Uninterrupted(c, source, x.position - x.since).windows \o x.pending
    BY <1>5 DEF Flushed
  <2>6. WindowsTo(c, source, p.position, p.checkpoint.closed) = WindowsTo(c, source, x.position, TRUE)
    BY <1>1, <1>3, <2>3 DEF WindowsTo
  <2> QED BY <1>1, <1>3, <2>1, <2>3, <2>4, <2>5, <2>6
<1>6. CASE Pausing(c, source, x)
  <2>1. x.aligner \in Held(c, source, p.position) BY <1>1, <1>6 DEF Pausing, Replaying
  <2>2. /\ ~ x.aligner.closed
        /\ AlignerCheckpoint(c, x.aligner) =
              AlignerCheckpoint(c, Uninterrupted(c, source, p.position).aligner)
    BY <1>2, <1>4, <2>1, HeldAlike
  <2>3. Stands(c, source, p) BY <1>1, <1>2, <1>3, <1>4, <2>2 DEF Stands
  <2>4. Uninterrupted(c, source, x.position).windows =
           Uninterrupted(c, source, x.position - x.since).windows \o x.pending
    BY <1>6 DEF Pausing, Replaying
  <2>5. WindowsTo(c, source, p.position, p.checkpoint.closed) =
           Uninterrupted(c, source, x.position).windows
    BY <1>1, <1>3, <2>2 DEF WindowsTo
  <2> QED BY <1>3, <1>6, <2>2, <2>3, <2>4, <2>5
<1> QED BY <1>5, <1>6 DEF Committing

\* A later point leaves a call, and an answer, what they are.
LEMMA OtherCallersStay ==
    ASSUME NEW c, NEW source, NEW label, NEW x, NEW answered, NEW now, NEW next,
           CallInv(c, source, label, x, now), AnswerInv(answered, now),
           now.generation \in Nat, next.generation = now.generation + 1,
           now.position \in Nat, next.position \in Nat, now.position <= next.position,
           ~ ClosedPoint(now)
    PROVE  CallInv(c, source, label, x, next) /\ AnswerInv(answered, next)
<1>1. ASSUME Placed(c, source, x, now) PROVE Placed(c, source, x, next)
  <2>1. x.generation \in Nat /\ x.generation <= now.generation BY <1>1 DEF Placed
  <2>2. x.generation <= next.generation /\ x.generation # next.generation BY <2>1
  <2> QED BY <1>1, <2>1, <2>2 DEF Placed
<1>2. ASSUME Loaded(c, source, x.loaded, now) PROVE Loaded(c, source, x.loaded, next)
  <2> DEFINE p == x.loaded
  <2>1. p.generation \in Nat \ {0} /\ p.generation <= now.generation
    BY <1>2 DEF Loaded, Stands
  <2>2. p.generation <= next.generation /\ p.generation # next.generation BY <2>1
  <2>3. ~ p.checkpoint.closed
    <3> SUFFICES ASSUME p.checkpoint.closed PROVE FALSE OBVIOUS
    <3>1. p = now BY <1>2 DEF Loaded
    <3>2. p # NothingStored BY <2>1 DEF NothingStored
    <3> QED BY <3>1, <3>2 DEF ClosedPoint
  <2> HIDE DEF p
  <2>4. Stands(c, source, p) BY <1>2 DEF Loaded, p
  <2>5. Loaded(c, source, p, next) BY <2>2, <2>3, <2>4 DEF Loaded
  <2> QED BY <2>5 DEF p
<1>3. CallInv(c, source, label, x, next)
  BY <1>1, <1>2 DEF CallInv, Verifying
<1>4. AnswerInv(answered, next)
  <2> SUFFICES ASSUME answered # NothingStored
               PROVE  /\ answered.generation \in Nat /\ answered.generation <= next.generation
                      /\ answered.position \in Nat /\ answered.position <= next.position
                      /\ ClosedPoint(answered) => next = answered
    BY DEF AnswerInv
  <2>1. /\ answered.generation \in Nat /\ answered.generation <= now.generation
        /\ answered.position \in Nat /\ answered.position <= now.position
        /\ ClosedPoint(answered) => now = answered
    BY DEF AnswerInv
  <2>2. ~ ClosedPoint(answered) BY <2>1
  <2> QED BY <2>1, <2>2
<1> QED BY <1>3, <1>4

-----------------------------------------------------------------------------
(***************************************************************************)
(* The actions.  Each ends with one call somewhere else, and the point is  *)
(* changed by none but a commit.                                           *)
(***************************************************************************)
LEMMA Updated ==
    ASSUME NEW f, OfResumers(f), NEW r \in Resumer, NEW x
    PROVE  /\ OfResumers([f EXCEPT ![r] = x]) /\ [f EXCEPT ![r] = x][r] = x
           /\ \A q \in Resumer : q # r => [f EXCEPT ![r] = x][q] = f[q]
           /\ [f EXCEPT ![r] = f[r]] = f
<1>1. DOMAIN f = Resumer BY DEF OfResumers
<1>2. [f EXCEPT ![r] = x] = [q \in Resumer |-> IF q = r THEN x ELSE f[q]] BY <1>1
<1>3. [f EXCEPT ![r] = f[r]] = [q \in Resumer |-> f[q]] BY <1>1
<1>4. [f EXCEPT ![r] = f[r]] = f BY <1>3 DEF OfResumers
<1> QED BY <1>2, <1>4 DEF OfResumers

LEMMA OneCall ==
    ASSUME StoreInv, NEW r \in Resumer, NEW label, NEW x, NEW a, task' = task, PointInv',
           pc' = [pc EXCEPT ![r] = label], run' = [run EXCEPT ![r] = x],
           answer' = [answer EXCEPT ![r] = a],
           CallInv(task[r].config, task[r].source, label, x, point'), AnswerInv(a, point'),
           \A q \in Resumer \ {r} :
              /\ CallInv(task[q].config, task[q].source, pc[q], run[q], point')
              /\ AnswerInv(answer[q], point')
    PROVE  StoreInv'
<1>1. task \in Tasks /\ OfResumers(pc) /\ OfResumers(run) /\ OfResumers(answer) BY DEF StoreInv
<1>2. OfResumers(pc') /\ OfResumers(run') /\ OfResumers(answer') BY <1>1, Updated
<1>3. ASSUME NEW q \in Resumer PROVE ProcessInv(q)'
  <2>1. CASE q = r
    <3>0. DOMAIN pc = Resumer /\ DOMAIN run = Resumer /\ DOMAIN answer = Resumer
      BY <1>1 DEF OfResumers
    <3>1. pc'[r] = label BY <3>0
    <3>2. run'[r] = x BY <3>0
    <3>3. answer'[r] = a BY <3>0
    <3> QED BY <2>1, <3>1, <3>2, <3>3 DEF ProcessInv
  <2>2. CASE q # r
    <3>1. pc'[q] = pc[q] /\ run'[q] = run[q] /\ answer'[q] = answer[q] BY <1>1, <2>2, Updated
    <3> QED BY <2>2, <3>1 DEF ProcessInv
  <2> QED BY <2>1, <2>2
<1> QED BY <1>1, <1>2, <1>3 DEF StoreInv, OfResumers

LEMMA OneCallReads ==
    ASSUME StoreInv, NEW r \in Resumer, NEW label, NEW x, NEW a, UNCHANGED <<task, point, stored>>,
           pc' = [pc EXCEPT ![r] = label], run' = [run EXCEPT ![r] = x],
           answer' = [answer EXCEPT ![r] = a],
           CallInv(task[r].config, task[r].source, label, x, point), AnswerInv(a, point)
    PROVE  StoreInv'
<1>1. \A q \in Resumer : ProcessInv(q) BY DEF StoreInv
<1>2. PointInv' BY DEF StoreInv, PointInv
<1>3. \A q \in Resumer \ {r} :
         /\ CallInv(task[q].config, task[q].source, pc[q], run[q], point')
         /\ AnswerInv(answer[q], point')
  BY <1>1 DEF ProcessInv
<1>4. task' = task /\ CallInv(task[r].config, task[r].source, label, x, point') /\ AnswerInv(a, point')
  OBVIOUS
<1> QED BY <1>2, <1>3, <1>4, OneCall

\* A call that ends without a point leaves everything as it was.
LEMMA EndingStays ==
    ASSUME StoreInv, NEW r \in Resumer, End(r, NothingStored), UNCHANGED <<task, point, stored>>
    PROVE  StoreInv'
<1>1. CallInv(task[r].config, task[r].source, "idle", NotRunning, point) BY DEF CallInv
<1>2. AnswerInv(NothingStored, point) BY DEF AnswerInv
<1>3. /\ pc' = [pc EXCEPT ![r] = "idle"] /\ run' = [run EXCEPT ![r] = NotRunning]
      /\ answer' = [answer EXCEPT ![r] = NothingStored]
  BY DEF End, Goto
<1> QED BY <1>1, <1>2, <1>3, OneCallReads

\* A call that goes on with other local state.
LEMMA GoingOnStays ==
    ASSUME StoreInv, NEW r \in Resumer, NEW label, NEW x, UNCHANGED <<task, point, stored, answer>>,
           pc' = [pc EXCEPT ![r] = label], run' = [run EXCEPT ![r] = x],
           CallInv(task[r].config, task[r].source, label, x, point)
    PROVE  StoreInv'
<1>1. answer' = [answer EXCEPT ![r] = answer[r]]
  BY Updated DEF StoreInv
<1>2. AnswerInv(answer[r], point) BY DEF StoreInv, ProcessInv
<1> QED BY <1>1, <1>2, OneCallReads

\* The stored point, for whom it may concern.
LEMMA PointFacts ==
    ASSUME RecoveryHolds, StoreInv
    PROVE  /\ point.generation \in Nat /\ point.position \in Nat
           /\ point = NothingStored => stored = <<>>
           /\ point # NothingStored =>
                 LET c == point.checkpoint.config IN
                 /\ SourceHolds(c, point.source) /\ Stands(c, point.source, point)
                 /\ stored = WindowsTo(c, point.source, point.position, point.checkpoint.closed)
           /\ Listed(stored)
<1>1. CASE point = NothingStored
  <2>1. point.generation \in Nat /\ point.position \in Nat BY <1>1 DEF NothingStored
  <2>2. stored = <<>> BY <1>1 DEF StoreInv, PointInv
  <2> QED BY <1>1, <2>1, <2>2, ListedEmpty
<1>2. CASE point # NothingStored
  <2>1. PICK r \in Resumer :
           /\ Stands(task[r].config, task[r].source, point)
           /\ stored = WindowsTo(task[r].config, task[r].source, point.position,
                                 point.checkpoint.closed)
    BY <1>2 DEF StoreInv, PointInv
  <2> DEFINE c == task[r].config
             s == task[r].source
  <2>2. SourceHolds(c, s) BY TasksHold DEF StoreInv
  <2> HIDE DEF c, s
  <2>3. /\ Stands(c, s, point)
        /\ stored = WindowsTo(c, s, point.position, point.checkpoint.closed)
    BY <2>1 DEF c, s
  <2>4. point.source = s /\ point.checkpoint.config = c BY <2>3 DEF Stands
  <2>5. Listed(stored) BY <2>2, <2>3, StoredListed
  <2>6. Len(s) \in Nat BY <2>2 DEF SourceHolds
  <2>7. point.generation \in Nat /\ point.position \in Nat BY <2>3, <2>6 DEF Stands
  <2> QED BY <1>2, <2>2, <2>3, <2>4, <2>5, <2>7
<1> QED BY <1>1, <1>2

\* What holds of the call that takes the step.
LEMMA CallFacts ==
    ASSUME RecoveryHolds, StoreInv, NEW r \in Resumer
    PROVE  /\ SourceHolds(task[r].config, task[r].source)
           /\ Len(task[r].source) \in Nat /\ task[r].allowances \subseteq Nat
           /\ OfResumers(pc) /\ OfResumers(run) /\ OfResumers(answer)
           /\ CallInv(task[r].config, task[r].source, pc[r], run[r], point)
           /\ AnswerInv(answer[r], point)
<1>1. task \in Tasks /\ ProcessInv(r) /\ OfResumers(pc) /\ OfResumers(run) /\ OfResumers(answer)
  BY DEF StoreInv
<1>2. SourceHolds(task[r].config, task[r].source) /\ task[r].allowances \subseteq Nat
  BY <1>1, TasksHold
<1> QED BY <1>1, <1>2 DEF SourceHolds, ProcessInv

\* A call begins where the point stands.
LEMMA BegunStands ==
    ASSUME NEW c, NEW source, SourceHolds(c, source), NEW x, NEW now, IsRun(x),
           now.generation \in Nat, now.position \in Nat,
           NEW most \in Nat, x.position \in 0 .. Len(source),
           x.stop = IF x.position + most < Len(source) THEN x.position + most ELSE Len(source),
           x.generation = now.generation, x.position = now.position,
           x.since = 0, x.pending = <<>>, x.loaded = now,
           Uninterrupted(c, source, x.position).ok,
           x.aligner \in Held(c, source, x.position)
    PROVE  Placed(c, source, x, now) /\ Replaying(c, source, x)
<1>1. Len(source) \in Nat BY DEF SourceHolds
<1>2. x.position \in Nat /\ x.position - x.since = x.position /\ x.stop \in x.position .. Len(source)
  BY <1>1
<1>3. x.position = x.stop => x.stop = Len(source) \/ x.stop = x.loaded.position BY <1>1
<1>4. x.generation <= now.generation /\ x.since \in 0 .. x.position BY <1>2
<1>5. Placed(c, source, x, now) BY <1>2, <1>3, <1>4 DEF Placed
<1>6. Listed(Uninterrupted(c, source, x.position).windows) BY WholeListed
<1>7. Replaying(c, source, x) BY <1>2, <1>6, ListedEmpty DEF Replaying
<1> QED BY <1>5, <1>7

LEMMA ResumeStays ==
    ASSUME RecoveryHolds, StoreInv, NEW r \in Resumer, Resume(r)
    PROVE  StoreInv'
<1> DEFINE c == task[r].config
           s == task[r].source
<1>1. /\ SourceHolds(c, s) /\ Len(s) \in Nat /\ task[r].allowances \subseteq Nat
      /\ OfResumers(pc) /\ OfResumers(run) /\ OfResumers(answer)
  BY CallFacts
<1>2. UNCHANGED <<task, point, stored>> BY DEF Resume
<1>3. PICK batch \in task[r].batchSizes, most \in task[r].allowances :
         IF point = NothingStored
           THEN /\ run' = [run EXCEPT ![r] = Begun(r, NewAligner, 0, batch, most)]
                /\ Goto(r, "replay")
                /\ UNCHANGED answer
         ELSE IF PointIsOurs(r)
           THEN /\ run' = [run EXCEPT ![r] = Begun(r, AlignerRestored(c, point.checkpoint),
                                                   point.position, batch, most)]
                /\ Goto(r, "verify")
                /\ UNCHANGED answer
         ELSE End(r, NothingStored)
  BY DEF Resume
<1>4. most \in Nat BY <1>1
<1>5. point.generation \in Nat /\ point.position \in Nat BY PointFacts
<1>6. CASE point = NothingStored
  <2> DEFINE x == Begun(r, NewAligner, 0, batch, most)
  <2>1. /\ IsRun(x) /\ x.position = 0 /\ x.generation = point.generation /\ x.since = 0
        /\ x.pending = <<>> /\ x.aligner = NewAligner /\ x.loaded = point
        /\ x.stop = IF x.position + most < Len(s) THEN x.position + most ELSE Len(s)
    BY DEF Begun, IsRun, Source
  <2>2. pc' = [pc EXCEPT ![r] = "replay"] /\ run' = [run EXCEPT ![r] = x] /\ UNCHANGED answer
    BY <1>3, <1>6 DEF Goto
  <2>3. point.position = 0 BY <1>6 DEF NothingStored
  <2>4. Uninterrupted(c, s, 0) = WholeStart BY <1>1, WholeSteps
  <2>5. Uninterrupted(c, s, 0).ok /\ Uninterrupted(c, s, 0).aligner = NewAligner
    BY <2>4 DEF WholeStart
  <2>6. 0 \in 0 .. Len(s) BY <1>1
  <2>7. NewAligner \in Held(c, s, 0) BY <1>1, <2>5, <2>6, WholeIsHeld
  <2> HIDE DEF c, s, x
  <2>8. Placed(c, s, x, point) /\ Replaying(c, s, x)
    BY <1>1, <1>4, <1>5, <2>1, <2>3, <2>5, <2>6, <2>7, BegunStands
  <2>9. CallInv(task[r].config, task[r].source, "replay", x, point)
    BY <2>1, <2>8 DEF CallInv, c, s
  <2> QED BY <1>2, <2>2, <2>9, GoingOnStays
<1>7. CASE point # NothingStored /\ PointIsOurs(r)
  <2> DEFINE a == AlignerRestored(c, point.checkpoint)
             x == Begun(r, a, point.position, batch, most)
  <2>1. /\ IsRun(x) /\ x.position = point.position /\ x.generation = point.generation
        /\ x.since = 0 /\ x.pending = <<>> /\ x.aligner = a /\ x.loaded = point
        /\ x.stop = IF x.position + most < Len(s) THEN x.position + most ELSE Len(s)
    BY DEF Begun, IsRun, Source
  <2>2. pc' = [pc EXCEPT ![r] = "verify"] /\ run' = [run EXCEPT ![r] = x] /\ UNCHANGED answer
    BY <1>3, <1>7 DEF Goto
  <2>3. point.source = s /\ point.checkpoint.config = c
    BY <1>7 DEF PointIsOurs, Source, AlignerRestoreAdmitted
  <2> HIDE DEF c, s, x, a
  <2>4. Stands(c, s, point) BY <1>7, <2>3, PointFacts
  <2>5. Loaded(c, s, x.loaded, point) BY <1>5, <2>1, <2>4 DEF Loaded
  <2>6. ASSUME ~ point.checkpoint.closed
        PROVE  Placed(c, s, x, point) /\ Replaying(c, s, x)
    <3>1. /\ point.position \in 0 .. Len(s) /\ Uninterrupted(c, s, point.position).ok
          /\ point.checkpoint =
                AlignerCheckpoint(c, Uninterrupted(c, s, point.position).aligner)
      BY <2>4, <2>6 DEF Stands
    <3>2. a \in Held(c, s, point.position) BY <1>1, <3>1, WholeIsHeld DEF a
    <3> QED BY <1>1, <1>4, <1>5, <2>1, <3>1, <3>2, BegunStands
  <2>7. Verifying(c, s, x, point) BY <2>1, <2>5, <2>6 DEF Verifying, a
  <2>8. CallInv(task[r].config, task[r].source, "verify", x, point)
    BY <2>1, <2>7 DEF CallInv, c, s
  <2> QED BY <1>2, <2>2, <2>8, GoingOnStays
<1>8. CASE point # NothingStored /\ ~ PointIsOurs(r)
  <2>1. End(r, NothingStored) BY <1>3, <1>8
  <2> QED BY <1>2, <2>1, EndingStays
<1> QED BY <1>6, <1>7, <1>8

LEMMA VerifyStays ==
    ASSUME RecoveryHolds, StoreInv, NEW r \in Resumer, VerifyOutputs(r)
    PROVE  StoreInv'
<1> DEFINE c == task[r].config
           s == task[r].source
           x == run[r]
<1>1. UNCHANGED <<task, point, stored>> BY DEF VerifyOutputs
<1>2. /\ OfResumers(run) /\ SourceHolds(c, s) /\ Len(s) \in Nat
      /\ CallInv(c, s, "verify", x, point)
  BY CallFacts DEF VerifyOutputs
<1>3. \/ End(r, NothingStored)
      \/ ClosedPoint(x.loaded) /\ End(r, x.loaded)
      \/ ~ ClosedPoint(x.loaded) /\ Goto(r, "replay") /\ UNCHANGED <<run, answer>>
  BY DEF VerifyOutputs
<1> HIDE DEF c, s, x
<1>4. Verifying(c, s, x, point) /\ IsRun(x) BY <1>2 DEF CallInv
<1>5. CASE End(r, NothingStored)
  BY <1>1, <1>5, EndingStays
<1>6. CASE ClosedPoint(x.loaded) /\ End(r, x.loaded)
  <2>1. x.loaded = point BY <1>4, <1>6 DEF Verifying, Loaded, ClosedPoint
  <2>2. AnswerInv(x.loaded, point) BY <2>1, PointFacts DEF AnswerInv
  <2>3. CallInv(task[r].config, task[r].source, "idle", NotRunning, point) BY DEF CallInv
  <2>4. /\ pc' = [pc EXCEPT ![r] = "idle"] /\ run' = [run EXCEPT ![r] = NotRunning]
        /\ answer' = [answer EXCEPT ![r] = x.loaded]
    BY <1>6 DEF End, Goto
  <2> QED BY <1>1, <2>2, <2>3, <2>4, OneCallReads
<1>7. CASE ~ ClosedPoint(x.loaded) /\ Goto(r, "replay") /\ UNCHANGED <<run, answer>>
  <2>1. x.loaded.generation # 0 BY <1>4 DEF Verifying, Loaded, Stands
  <2>2. x.loaded # NothingStored BY <2>1 DEF NothingStored
  <2>3. ~ x.loaded.checkpoint.closed BY <1>7, <2>2 DEF ClosedPoint
  <2>4. Placed(c, s, x, point) /\ Replaying(c, s, x) BY <1>4, <2>3 DEF Verifying
  <2>5. CallInv(task[r].config, task[r].source, "replay", x, point)
    BY <1>4, <2>4 DEF CallInv, c, s
  <2>6. run' = [run EXCEPT ![r] = x] BY <1>2, <1>7, Updated DEF x
  <2>7. pc' = [pc EXCEPT ![r] = "replay"] BY <1>7 DEF Goto
  <2> QED BY <1>1, <1>7, <2>5, <2>6, <2>7, GoingOnStays
<1> QED BY <1>3, <1>5, <1>6, <1>7

\* The local state of a call has no other fields.
RunWith(x, a, n, w, k) == [x EXCEPT !.aligner = a, !.position = n, !.pending = w, !.since = k]

LEMMA RunUpdated ==
    ASSUME NEW x, IsRun(x), NEW a, NEW n, NEW w, NEW k
    PROVE  LET y == RunWith(x, a, n, w, k)
           IN  /\ IsRun(y) /\ y.aligner = a /\ y.position = n /\ y.pending = w /\ y.since = k
               /\ y.generation = x.generation /\ y.stop = x.stop /\ y.loaded = x.loaded
<1> DEFINE y == RunWith(x, a, n, w, k)
<1>1. PICK l, b, p, g, t, e, q, m :
         x = [loaded |-> l, aligner |-> b, position |-> p, generation |-> g, batch |-> t,
              stop |-> e, pending |-> q, since |-> m]
  BY DEF IsRun
<1>2. x.loaded = l /\ x.generation = g /\ x.batch = t /\ x.stop = e BY <1>1
<1>3. y = [loaded |-> l, aligner |-> a, position |-> n, generation |-> g, batch |-> t,
           stop |-> e, pending |-> w, since |-> k]
  <2> DEFINE x1 == [x EXCEPT !.aligner = a]
             x2 == [x1 EXCEPT !.position = n]
             x3 == [x2 EXCEPT !.pending = w]
             x4 == [x3 EXCEPT !.since = k]
  <2>1. x1 = [loaded |-> l, aligner |-> a, position |-> p, generation |-> g, batch |-> t,
              stop |-> e, pending |-> q, since |-> m]
    BY <1>1
  <2>2. y = x4 BY <1>1 DEF RunWith
  <2> HIDE DEF x1
  <2>3. x2 = [loaded |-> l, aligner |-> a, position |-> n, generation |-> g, batch |-> t,
              stop |-> e, pending |-> q, since |-> m]
    BY <2>1
  <2> HIDE DEF x2
  <2>4. x3 = [loaded |-> l, aligner |-> a, position |-> n, generation |-> g, batch |-> t,
              stop |-> e, pending |-> w, since |-> m]
    BY <2>3
  <2> HIDE DEF x3
  <2>5. x4 = [loaded |-> l, aligner |-> a, position |-> n, generation |-> g, batch |-> t,
              stop |-> e, pending |-> w, since |-> k]
    BY <2>4
  <2> HIDE DEF x4, y
  <2> QED BY <2>2, <2>5
<1> HIDE DEF y
<1>4. IsRun(y) /\ y.generation = x.generation /\ y.stop = x.stop /\ y.loaded = x.loaded
  BY <1>2, <1>3 DEF IsRun
<1>5. y.aligner = a /\ y.position = n /\ y.pending = w /\ y.since = k BY <1>3
<1> QED BY <1>4, <1>5 DEF y

\* The aligner and the windows after one more event.
LEMMA OneMore ==
    ASSUME NEW c, NEW source, SourceHolds(c, source), NEW x, NEW now, NEW y,
           Placed(c, source, x, now), Replaying(c, source, x), x.position < x.stop,
           now.generation \in Nat, now.position \in Nat,
           NEW result, result = Ingest(c, x.aligner, source[x.position + 1]), result.ok,
           y.aligner = result.aligner, y.position = x.position + 1,
           y.pending = x.pending \o result.windows, y.since = x.since + 1,
           y.generation = x.generation, y.stop = x.stop
    PROVE  Placed(c, source, y, now) /\ Replaying(c, source, y) /\ y.since # 0
<1> DEFINE n == x.position
           W(m) == Uninterrupted(c, source, m)
<1>0. Len(source) \in Nat BY DEF SourceHolds
<1>1. /\ n \in Nat /\ x.since \in 0 .. n /\ x.stop \in n .. Len(source) /\ n < x.stop
      /\ x.generation \in Nat /\ x.generation <= now.generation
      /\ x.generation = now.generation => now.position = n - x.since
      /\ W(n).ok /\ W(n - x.since).ok
  BY DEF Placed
<1> HIDE DEF n, W
<1>2. /\ n \in 0 .. Len(source) /\ n < Len(source) /\ n + 1 \in 1 .. Len(source) /\ (n + 1) - 1 = n
      /\ (n + 1) - (x.since + 1) = n - x.since /\ n - x.since \in 0 .. Len(source)
  <2>1. PICK k \in 0 .. n, e \in n .. Len(source) : k = x.since /\ e = x.stop BY <1>1
  <2>2. n \in Nat /\ n < e BY <1>1, <2>1
  <2>3. /\ n \in 0 .. Len(source) /\ n < Len(source) /\ n + 1 \in 1 .. Len(source)
        /\ (n + 1) - 1 = n
    BY <1>0, <2>2
  <2>4. (n + 1) - (k + 1) = n - k /\ n - k \in 0 .. Len(source) BY <1>0, <2>2, <2>3
  <2> QED BY <2>1, <2>3, <2>4
<1>3. x.aligner \in Held(c, source, n) /\ Listed(x.pending)
      /\ W(n).windows = W(n - x.since).windows \o x.pending
  BY DEF Replaying, n, W
<1>4. W(n + 1) = WholeNext(c, W(n), source[n + 1])
  <2>1. PICK m : m = n + 1 OBVIOUS
  <2>2. m \in 1 .. Len(source) /\ m - 1 = n BY <1>2, <2>1
  <2>3. W(m) = WholeNext(c, W(m - 1), source[m]) BY <1>0, <2>2, WholeSteps DEF W
  <2> QED BY <2>1, <2>2, <2>3
<1> DEFINE z == Ingest(c, W(n).aligner, source[n + 1])
<1>5. result.ok = z.ok /\ result.windows = z.windows /\ Listed(result.windows)
  <2>1. result = Ingest(c, x.aligner, source[n + 1]) BY DEF n
  <2> DEFINE v == Uninterrupted(c, source, n)
             e == source[n + 1]
  <2>2. v.ok /\ x.aligner \in Held(c, source, n) /\ n \in 0 .. Len(source) /\ n < Len(source)
    BY <1>1, <1>2, <1>3 DEF W
  <2>3. /\ Ingest(c, x.aligner, e).ok = Ingest(c, v.aligner, e).ok
        /\ Ingest(c, x.aligner, e).windows = Ingest(c, v.aligner, e).windows
        /\ Listed(Ingest(c, x.aligner, e).windows)
    BY <2>2, HeldAlike
  <2>4. z = Ingest(c, v.aligner, e) BY DEF W
  <2> HIDE DEF v, e, z
  <2> QED BY <2>1, <2>3, <2>4 DEF e
<1>6. W(n + 1).ok /\ W(n + 1).windows = W(n).windows \o z.windows
  <2>1. WholeNext(c, W(n), source[n + 1]).ok = (W(n).ok /\ z.ok) BY DEF WholeNext
  <2>2. WholeNext(c, W(n), source[n + 1]).windows = W(n).windows \o z.windows
    BY Zenon DEF WholeNext
  <2>3. W(n + 1).windows = W(n).windows \o z.windows BY <1>4, <2>2, Zenon
  <2>4. z.ok BY <1>5
  <2>5. W(n + 1).ok BY <1>1, <1>4, <2>1, <2>4
  <2> QED BY <2>3, <2>5
<1>7. y.aligner \in Held(c, source, n + 1)
  <2> DEFINE held == {Ingest(c, a, source[n + 1]).aligner : a \in Held(c, source, n)}
  <2>1. Held(c, source, n + 1) = HeldNext(c, Held(c, source, n), source[n + 1])
    <3>1. PICK m : m = n + 1 OBVIOUS
    <3>2. m \in 1 .. Len(source) /\ m - 1 = n BY <1>2, <3>1
    <3>3. Held(c, source, m) = HeldNext(c, Held(c, source, m - 1), source[m])
      BY <1>0, <3>2, HeldSteps
    <3> QED BY <3>1, <3>2, <3>3
  <2>2. y.aligner \in held BY <1>3 DEF n
  <2>3. HeldNext(c, Held(c, source, n), source[n + 1]) = Restarted(c, held) BY DEF HeldNext
  <2> HIDE DEF held
  <2> QED BY <2>1, <2>2, <2>3 DEF Restarted
<1> HIDE DEF z
<1>8. Listed(W(n - x.since).windows) BY <1>1, <1>2, WholeListed DEF W
<1>9. Listed(y.pending) BY <1>3, <1>5, ListedConcat
<1>10. W(n + 1).windows = W(n - x.since).windows \o y.pending
  <2>1. (W(n - x.since).windows \o x.pending) \o result.windows =
           W(n - x.since).windows \o (x.pending \o result.windows)
    <3>1. Listed(x.pending) BY <1>3
    <3>2. Listed(result.windows) BY <1>5
    <3>3. Regroups(W(n - x.since).windows, x.pending, result.windows)
      BY <1>8, <3>1, <3>2, ListedRegroups
    <3> QED BY <3>3 DEF Regroups
  <2> QED BY <1>3, <1>5, <1>6, <2>1
<1>11. y.position = n + 1 /\ y.position - y.since = n - x.since BY <1>2 DEF n
<1>12. Replaying(c, source, y) BY <1>7, <1>9, <1>10, <1>11 DEF Replaying, W
<1>13. /\ y.position \in Nat /\ y.since \in 0 .. y.position /\ y.stop \in y.position .. Len(source)
       /\ y.since # 0
  BY <1>0, <1>1 DEF n
<1>14. Placed(c, source, y, now) BY <1>1, <1>6, <1>11, <1>13 DEF Placed, W
<1> QED BY <1>12, <1>13, <1>14

\* A call passes to a commit, or ends if it cannot take a checkpoint.
LEMMA CheckpointedStays ==
    ASSUME RecoveryHolds, StoreInv, NEW r \in Resumer, NEW x, Checkpointed(r, x), IsRun(x),
           UNCHANGED <<task, point, stored>>,
           Placed(task[r].config, task[r].source, x, point),
           Committing(task[r].config, task[r].source, x)
    PROVE  StoreInv'
<1>1. \/ End(r, NothingStored)
      \/ run' = [run EXCEPT ![r] = x] /\ Goto(r, "commit") /\ UNCHANGED answer
  BY DEF Checkpointed
<1>2. CASE End(r, NothingStored)
  BY <1>2, EndingStays
<1>3. CASE run' = [run EXCEPT ![r] = x] /\ Goto(r, "commit") /\ UNCHANGED answer
  <2>1. CallInv(task[r].config, task[r].source, "commit", x, point) BY DEF CallInv
  <2>2. pc' = [pc EXCEPT ![r] = "commit"] BY <1>3 DEF Goto
  <2> QED BY <1>3, <2>1, <2>2, GoingOnStays
<1> QED BY <1>1, <1>2, <1>3

LEMMA ReplayStays ==
    ASSUME RecoveryHolds, StoreInv, NEW r \in Resumer, Replay(r)
    PROVE  StoreInv'
<1> DEFINE c == task[r].config
           s == task[r].source
           x == run[r]
           result == Ingest(c, x.aligner, s[x.position + 1])
           n == x.position + 1
           w == x.pending \o result.windows
           k == x.since + 1
           y == [x EXCEPT !.aligner = result.aligner, !.position = n,
                          !.pending = w, !.since = k]
<1>1. UNCHANGED <<task, point, stored>> BY DEF Replay
<1>2. /\ OfResumers(pc) /\ SourceHolds(c, s) /\ pc[r] = "replay" /\ x.position < x.stop
      /\ CallInv(c, s, "replay", x, point)
  BY CallFacts DEF Replay
<1>3. IF ~ result.ok THEN End(r, NothingStored)
      ELSE IF y.since = y.batch /\ y.position < y.stop THEN Checkpointed(r, y)
      ELSE run' = [run EXCEPT ![r] = y] /\ UNCHANGED <<pc, answer>>
  BY DEF Replay, Source
<1>4. IsRun(x) /\ Placed(c, s, x, point) /\ Replaying(c, s, x) BY <1>2 DEF CallInv
<1> HIDE DEF c, s, x, result
<1>5. /\ IsRun(y) /\ y.aligner = result.aligner /\ y.position = x.position + 1
      /\ y.pending = x.pending \o result.windows /\ y.since = x.since + 1
      /\ y.generation = x.generation /\ y.stop = x.stop
  <2> DEFINE b == result.aligner
  <2>1. y = RunWith(x, b, n, w, k) BY DEF RunWith
  <2>2. IsRun(x) BY <1>4
  <2> HIDE DEF n, w, k, y, b
  <2>3. /\ IsRun(y) /\ y.aligner = b /\ y.position = n /\ y.pending = w /\ y.since = k
        /\ y.generation = x.generation /\ y.stop = x.stop
    BY ONLY <2>1, <2>2, RunUpdated
  <2> QED BY <2>3 DEF n, w, k, b
<1> HIDE DEF y
<1>6. CASE ~ result.ok
  <2>1. End(r, NothingStored) BY <1>3, <1>6
  <2> QED BY <1>1, <2>1, EndingStays
<1>7. CASE result.ok
  <2>1. point.generation \in Nat /\ point.position \in Nat BY PointFacts
  <2>2. Placed(c, s, y, point) /\ Replaying(c, s, y) /\ y.since # 0
    BY <1>2, <1>4, <1>5, <1>7, <2>1, OneMore DEF result
  <2>3. CASE Checkpointed(r, y)
    <3>1. Committing(c, s, y) BY <2>2 DEF Committing, Pausing
    <3> QED BY <1>1, <1>5, <2>2, <2>3, <3>1, CheckpointedStays DEF c, s
  <2>4. CASE run' = [run EXCEPT ![r] = y] /\ UNCHANGED <<pc, answer>>
    <3>1. pc' = [pc EXCEPT ![r] = "replay"] BY <1>2, <2>4, Updated
    <3>2. CallInv(task[r].config, task[r].source, "replay", y, point)
      BY <1>5, <2>2 DEF CallInv, c, s
    <3> QED BY <1>1, <2>4, <3>1, <3>2, GoingOnStays
  <2> QED BY <1>3, <1>7, <2>3, <2>4
<1> QED BY <1>6, <1>7

LEMMA FinishStays ==
    ASSUME RecoveryHolds, StoreInv, NEW r \in Resumer, Finish(r)
    PROVE  StoreInv'
<1> DEFINE c == task[r].config
           s == task[r].source
           x == run[r]
           result == IF x.position = Len(s) THEN Flush(c, x.aligner)
                     ELSE [ok |-> TRUE, aligner |-> x.aligner, windows |-> <<>>]
           y == [x EXCEPT !.aligner = result.aligner, !.pending = @ \o result.windows]
<1>1. UNCHANGED <<task, point, stored>> BY DEF Finish
<1>2. /\ SourceHolds(c, s) /\ Len(s) \in Nat /\ x.position = x.stop
      /\ CallInv(c, s, "replay", x, point)
  BY CallFacts DEF Finish
<1>3. IF result.ok THEN Checkpointed(r, y) ELSE End(r, NothingStored) BY DEF Finish, Source
<1>4. IsRun(x) /\ Placed(c, s, x, point) /\ Replaying(c, s, x) BY <1>2 DEF CallInv
<1> HIDE DEF c, s, x, result
<1>5. /\ IsRun(y) /\ y.aligner = result.aligner /\ y.position = x.position
      /\ y.pending = x.pending \o result.windows /\ y.since = x.since
      /\ y.generation = x.generation /\ y.stop = x.stop /\ y.loaded = x.loaded
  <2> DEFINE b == result.aligner
             w == x.pending \o result.windows
             z == RunWith(x, b, x.position, w, x.since)
  <2> HIDE DEF b, w, z
  <2>1. /\ IsRun(z) /\ z.aligner = b /\ z.position = x.position /\ z.pending = w
        /\ z.since = x.since /\ z.generation = x.generation /\ z.stop = x.stop
        /\ z.loaded = x.loaded
    <3>1. IsRun(x) BY <1>4
    <3> QED BY <3>1, RunUpdated DEF z
  <2>2. y = z BY <1>4 DEF IsRun, RunWith, z, b, w
  <2> QED BY <2>1, <2>2 DEF b, w
<1> HIDE DEF y
<1>6. Placed(c, s, y, point) BY <1>4, <1>5 DEF Placed
<1>7. /\ x.aligner \in Held(c, s, x.position) /\ Listed(x.pending)
      /\ Uninterrupted(c, s, x.position).windows =
            Uninterrupted(c, s, x.position - x.since).windows \o x.pending
  BY <1>4 DEF Replaying
<1>8. CASE ~ result.ok
  <2>1. End(r, NothingStored) BY <1>3, <1>8
  <2> QED BY <1>1, <2>1, EndingStays
<1>9. CASE result.ok
  <2>1. ASSUME x.position = Len(s) PROVE Committing(c, s, y)
    <3> DEFINE f == Flush(c, x.aligner)
               before == Uninterrupted(c, s, x.position - x.since).windows
               ended == AtEnd(c, s).windows
    <3>1. result = f BY <2>1 DEF result
    <3> HIDE DEF result
    <3>2. Uninterrupted(c, s, Len(s)).ok BY <1>4, <2>1 DEF Placed
    <3>3. ended = f.windows /\ Listed(ended)
      BY <1>2, <1>7, <1>9, <2>1, <3>1, <3>2, EndAlike
    <3>4. x.position - x.since \in 0 .. Len(s) /\ Uninterrupted(c, s, x.position - x.since).ok
      BY <1>2, <1>4 DEF Placed
    <3>5. Listed(before) BY <1>2, <3>4, WholeListed
    <3>6. \E a \in Held(c, s, y.position) : Flush(c, a).ok /\ y.aligner = Flush(c, a).aligner
      BY <1>5, <1>7, <1>9, <3>1
    <3>7. WindowsTo(c, s, y.position, TRUE) = (before \o x.pending) \o ended
      BY <1>5, <1>7 DEF WindowsTo
    <3> HIDE DEF f, before, ended
    <3>8. y.pending = x.pending \o ended BY <1>5, <3>1, <3>3
    <3>9. Listed(y.pending) BY <1>7, <3>3, <3>8, ListedConcat
    <3>10. (before \o x.pending) \o ended = before \o y.pending
      <4>1. Listed(x.pending) BY <1>7
      <4>2. Listed(ended) BY <3>3
      <4>3. Regroups(before, x.pending, ended) BY <3>5, <4>1, <4>2, ListedRegroups
      <4> QED BY <3>8, <4>3 DEF Regroups
    <3>11. Flushed(c, s, y) BY <1>5, <2>1, <3>6, <3>7, <3>9, <3>10 DEF Flushed, before
    <3> QED BY <3>11 DEF Committing
  <2>2. ASSUME x.position # Len(s) PROVE Committing(c, s, y)
    <3>1. result.windows = <<>> /\ result.aligner = x.aligner BY <2>2 DEF result
    <3>2. y.pending = x.pending /\ y.aligner = x.aligner BY <1>5, <1>7, <3>1, ListedEmpty
    <3>3. Replaying(c, s, y) BY <1>5, <1>7, <3>2 DEF Replaying
    <3>4. y.since # 0 \/ y.stop = y.loaded.position BY <1>2, <1>4, <1>5, <2>2 DEF Placed
    <3> QED BY <3>3, <3>4 DEF Committing, Pausing
  <2>3. Committing(c, s, y) BY <2>1, <2>2
  <2>4. Checkpointed(r, y) BY <1>3, <1>9
  <2> QED BY <1>1, <1>5, <1>6, <2>3, <2>4, CheckpointedStays DEF c, s
<1> QED BY <1>8, <1>9

\* What is stored, and what it was stored after, when a commit is admitted.
LEMMA CommitStores ==
    ASSUME RecoveryHolds, StoreInv, NEW r \in Resumer, pc[r] = "commit",
           CommitAdmitted(r), Store(r), task' = task
    PROVE  /\ point' = Committed(r) /\ PointInv' /\ ~ ClosedPoint(point)
           /\ Placed(task[r].config, task[r].source, run[r], point) /\ IsRun(run[r])
           /\ point'.generation = point.generation + 1
           /\ point'.position = run[r].position /\ point'.position \in Nat
           /\ point.position <= point'.position
           /\ \/ point'.position > point.position
              \/ point'.checkpoint.closed
              \/ SameState /\ CommitsNoEvent(r)
           /\ ~ point'.checkpoint.closed => Replaying(task[r].config, task[r].source, run[r])
           /\ point'.checkpoint.closed => run[r].position = Len(task[r].source)
           /\ point # NothingStored => point'.source = point.source
           /\ SubSeq(stored', 1, Len(stored)) = stored
<1> DEFINE c == task[r].config
           s == task[r].source
           x == run[r]
           p == Committed(r)
<1>1. /\ SourceHolds(c, s) /\ Len(s) \in Nat /\ IsRun(x)
      /\ Placed(c, s, x, point) /\ Committing(c, s, x)
  BY CallFacts DEF CallInv
<1>2. /\ point' = p /\ stored' = stored \o x.pending
      /\ p = [generation |-> x.generation + 1, source |-> s, position |-> x.position,
              checkpoint |-> AlignerCheckpoint(c, x.aligner)]
  BY DEF Store, Committed, Source
<1>3. /\ point.generation = x.generation
      /\ point # NothingStored => /\ point.source = s /\ ~ point.checkpoint.closed
                                  /\ point.checkpoint.config = p.checkpoint.config
  BY DEF CommitAdmitted, Committed, Source
<1>4. /\ p.generation = x.generation + 1 /\ p.source = s /\ p.position = x.position
      /\ p.checkpoint.config = c
  BY <1>2, CheckpointFields
<1> HIDE DEF c, s, x, p
<1>5. /\ Stands(c, s, p)
      /\ Uninterrupted(c, s, x.position - x.since).windows \o x.pending =
            WindowsTo(c, s, p.position, p.checkpoint.closed)
      /\ ~ p.checkpoint.closed => Pausing(c, s, x)
      /\ p.checkpoint.closed => x.position = Len(s)
  BY <1>1, <1>2, CommitStands
<1>6. /\ x.position \in Nat /\ x.since \in 0 .. x.position /\ point.position = x.position - x.since
      /\ Uninterrupted(c, s, x.position - x.since).ok
  BY <1>1, <1>3 DEF Placed
<1>7. ~ ClosedPoint(point) BY <1>3 DEF ClosedPoint
<1>8. stored = Uninterrupted(c, s, x.position - x.since).windows
  <2>1. CASE point = NothingStored
    <3>1. x.position - x.since = 0 BY <1>6, <2>1 DEF NothingStored
    <3>2. Uninterrupted(c, s, 0).windows = <<>>
      <4>1. Uninterrupted(c, s, 0) = WholeStart BY <1>1, WholeSteps
      <4> QED BY <4>1 DEF WholeStart
    <3>3. stored = <<>> BY <2>1, PointFacts
    <3> QED BY <3>1, <3>2, <3>3
  <2>2. CASE point # NothingStored
    <3>1. point.source = s /\ point.checkpoint.config = c /\ ~ point.checkpoint.closed
      BY <1>3, <1>4, <2>2
    <3>2. stored = WindowsTo(c, s, point.position, point.checkpoint.closed)
      BY <2>2, <3>1, PointFacts
    <3>3. stored = Uninterrupted(c, s, point.position).windows BY <3>1, <3>2 DEF WindowsTo
    <3> QED BY <1>6, <3>3
  <2> QED BY <2>1, <2>2
<1>9. stored' = WindowsTo(c, s, p.position, p.checkpoint.closed)
  BY <1>2, <1>5, <1>8
<1>10. PointInv'
  <2>1. p # NothingStored
    <3>1. p.generation # 0 BY <1>5 DEF Stands
    <3> QED BY <3>1 DEF NothingStored
  <2>2. Stands(task'[r].config, task'[r].source, point') BY <1>2, <1>5 DEF c, s
  <2>3. stored' = WindowsTo(task'[r].config, task'[r].source, point'.position,
                            point'.checkpoint.closed)
    BY <1>2, <1>9 DEF c, s
  <2> QED BY <1>2, <2>1, <2>2, <2>3 DEF PointInv
<1>11. /\ point.position <= p.position
       /\ p.position > point.position \/ x.since = 0
       /\ p.position \in Nat /\ p.generation = point.generation + 1
  <2>1. x.since # 0 => x.position > point.position BY <1>6
  <2>2. point.position <= x.position BY <1>6
  <2> QED BY <1>3, <1>4, <1>6, <2>1, <2>2
<1>12. SubSeq(stored', 1, Len(stored)) = stored
  <2>1. Listed(stored) BY PointFacts
  <2>2. Listed(x.pending) BY <1>1 DEF Committing, Pausing, Flushed, Replaying
  <2>3. SubSeq(stored \o x.pending, 1, Len(stored)) = stored BY <2>1, <2>2, ListedBeginning
  <2> QED BY <1>2, <2>3
<1>13. ASSUME x.since = 0, ~ p.checkpoint.closed PROVE SameState /\ CommitsNoEvent(r)
  <2>1. CommitsNoEvent(r) BY <1>5, <1>13 DEF Pausing, CommitsNoEvent, x
  <2>2. point.position = p.position /\ x.position = p.position /\ x.position - x.since = p.position
    BY <1>4, <1>6, <1>13
  <2>3. stored' = stored
    <3>1. stored' = Uninterrupted(c, s, p.position).windows BY <1>9, <1>13 DEF WindowsTo
    <3>2. stored = Uninterrupted(c, s, p.position).windows BY <1>8, <2>2
    <3> QED BY <3>1, <3>2
  <2>4. p.checkpoint = AlignerCheckpoint(c, Uninterrupted(c, s, p.position).aligner)
    BY <1>5, <1>13 DEF Stands
  <2>5. CASE point = NothingStored
    <3>1. p.position = 0 BY <2>2, <2>5 DEF NothingStored
    <3>2. Uninterrupted(c, s, 0) = WholeStart BY <1>1, WholeSteps
    <3>3. Uninterrupted(c, s, 0).aligner = NewAligner BY <3>2 DEF WholeStart
    <3>4. point'.checkpoint = AlignerCheckpoint(task[r].config, NewAligner)
      BY <1>2, <2>4, <3>1, <3>3 DEF c
    <3> QED BY <2>1, <2>3, <2>5, <3>4 DEF SameState
  <2>6. CASE point # NothingStored
    <3>1. point.source = s /\ point.checkpoint.config = c /\ ~ point.checkpoint.closed
      BY <1>3, <1>4, <2>6
    <3>2. Stands(c, s, point) BY <2>6, <3>1, PointFacts
    <3>3. point.checkpoint = AlignerCheckpoint(c, Uninterrupted(c, s, point.position).aligner)
      BY <3>1, <3>2 DEF Stands
    <3>4. point'.checkpoint = point.checkpoint BY <1>2, <2>2, <2>4, <3>3
    <3> QED BY <2>1, <2>3, <2>6, <3>4 DEF SameState
  <2> QED BY <2>5, <2>6
<1>14. \/ p.position > point.position
       \/ p.checkpoint.closed
       \/ SameState /\ CommitsNoEvent(r)
  BY <1>11, <1>13
<1>15. ~ p.checkpoint.closed => Replaying(c, s, x) BY <1>5 DEF Pausing
<1> QED BY <1>1, <1>2, <1>3, <1>4, <1>5, <1>7, <1>10, <1>11, <1>12, <1>14, <1>15 DEF c, s, x, p

LEMMA CommitLeavesOthers ==
    ASSUME RecoveryHolds, StoreInv, NEW r \in Resumer, pc[r] = "commit",
           CommitAdmitted(r), Store(r), task' = task, NEW q \in Resumer
    PROVE  /\ CallInv(task[q].config, task[q].source, pc[q], run[q], point')
           /\ AnswerInv(answer[q], point')
<1>1. /\ CallInv(task[q].config, task[q].source, pc[q], run[q], point)
      /\ AnswerInv(answer[q], point)
  BY CallFacts
<1>2. point.generation \in Nat /\ point.position \in Nat BY PointFacts
<1>3. /\ point'.generation = point.generation + 1 /\ point'.position \in Nat
      /\ point.position <= point'.position /\ ~ ClosedPoint(point)
  BY CommitStores
<1> QED BY <1>1, <1>2, <1>3, OtherCallersStay

\* The call after its commit, and the point it may return.
LEMMA CommitGoesOn ==
    ASSUME RecoveryHolds, StoreInv, NEW r \in Resumer, pc[r] = "commit",
           CommitAdmitted(r), Store(r), task' = task
    PROVE  /\ AnswerInv(Committed(r), point')
           /\ run[r].position # run[r].stop =>
                 CallInv(task[r].config, task[r].source, "replay",
                         [[[run[r] EXCEPT !.generation = @ + 1] EXCEPT !.since = 0]
                            EXCEPT !.pending = <<>>], point')
<1>1. AnswerInv(Committed(r), point')
  <2>1. point.generation \in Nat BY PointFacts
  <2>2. /\ point' = Committed(r) /\ point'.position \in Nat
        /\ point'.generation = point.generation + 1
    BY CommitStores
  <2>3. point'.generation \in Nat BY <2>1, <2>2
  <2> QED BY <2>2, <2>3 DEF AnswerInv
<1>2. ASSUME run[r].position # run[r].stop
      PROVE  CallInv(task[r].config, task[r].source, "replay",
                     [[[run[r] EXCEPT !.generation = @ + 1] EXCEPT !.since = 0]
                        EXCEPT !.pending = <<>>], point')
  <2> DEFINE c == task[r].config
             s == task[r].source
             x == run[r]
             y1 == [x EXCEPT !.generation = @ + 1]
             y2 == [y1 EXCEPT !.since = 0]
             y == [y2 EXCEPT !.pending = <<>>]
  <2>1. /\ SourceHolds(c, s) /\ Len(s) \in Nat
    BY CallFacts
  <2>2. /\ IsRun(x) /\ Placed(c, s, x, point) /\ point'.position = x.position
        /\ point' = Committed(r) /\ point'.generation = point.generation + 1
        /\ ~ point'.checkpoint.closed => Replaying(c, s, x)
        /\ point'.checkpoint.closed => x.position = Len(s)
    BY CommitStores
  <2>3. point.generation = x.generation BY DEF CommitAdmitted
  <2> HIDE DEF c, s, x
  <2>4. /\ IsRun(y) /\ y.generation = x.generation + 1 /\ y.since = 0 /\ y.pending = <<>>
        /\ y.position = x.position /\ y.stop = x.stop /\ y.aligner = x.aligner
    <3>1. PICK l, b, p, g, t, e, q, m :
             x = [loaded |-> l, aligner |-> b, position |-> p, generation |-> g, batch |-> t,
                  stop |-> e, pending |-> q, since |-> m]
      BY <2>2 DEF IsRun
    <3>2. x.generation = g /\ x.position = p /\ x.stop = e /\ x.aligner = b BY <3>1
    <3>3. y1 = [loaded |-> l, aligner |-> b, position |-> p, generation |-> g + 1, batch |-> t,
                stop |-> e, pending |-> q, since |-> m]
      BY <3>1
    <3> HIDE DEF y1
    <3>4. y2 = [loaded |-> l, aligner |-> b, position |-> p, generation |-> g + 1, batch |-> t,
                stop |-> e, pending |-> q, since |-> 0]
      BY <3>3
    <3> HIDE DEF y2
    <3>5. y = [loaded |-> l, aligner |-> b, position |-> p, generation |-> g + 1, batch |-> t,
               stop |-> e, pending |-> <<>>, since |-> 0]
      BY <3>4
    <3> HIDE DEF y
    <3>6. IsRun(y) BY <3>5 DEF IsRun
    <3>7. /\ y.generation = g + 1 /\ y.since = 0 /\ y.pending = <<>>
          /\ y.position = p /\ y.stop = e /\ y.aligner = b
      BY <3>5
    <3> QED BY <3>2, <3>6, <3>7
  <2> HIDE DEF y1, y2, y
  <2>5. /\ x.position \in Nat /\ x.stop \in x.position .. Len(s) /\ x.position # x.stop
        /\ x.generation \in Nat /\ Uninterrupted(c, s, x.position).ok
    BY <1>2, <2>2 DEF Placed, x
  <2>6. x.position # Len(s) /\ x.position \in 0 .. Len(s) BY <2>1, <2>5
  <2>7. Replaying(c, s, x) BY <2>2, <2>6
  <2>8. y.position - y.since = x.position BY <2>4, <2>5
  <2>9. Placed(c, s, y, point')
    <3>1. y.generation \in Nat /\ y.generation = point'.generation BY <2>2, <2>3, <2>4, <2>5
    <3>2. y.generation <= point'.generation BY <3>1
    <3>3. y.since \in 0 .. y.position BY <2>4, <2>5
    <3> QED BY <2>2, <2>4, <2>5, <2>8, <3>1, <3>2, <3>3 DEF Placed
  <2>10. Replaying(c, s, y)
    <3>1. Listed(Uninterrupted(c, s, x.position).windows) BY <2>1, <2>5, <2>6, WholeListed
    <3>2. x.aligner \in Held(c, s, x.position) BY <2>7 DEF Replaying
    <3> QED BY <2>4, <2>8, <3>1, <3>2, ListedEmpty DEF Replaying
  <2>11. CallInv(c, s, "replay", y, point') BY <2>4, <2>9, <2>10 DEF CallInv
  <2> QED BY <2>11 DEF c, s, x, y, y1, y2
<1> QED BY <1>1, <1>2

LEMMA CommitStays ==
    ASSUME RecoveryHolds, StoreInv, NEW r \in Resumer, StoreCommit(r)
    PROVE  StoreInv'
<1>1. pc[r] = "commit" /\ task' = task BY DEF StoreCommit
<1>2. CASE ~ CommitAdmitted(r)
  <2>1. End(r, NothingStored) /\ UNCHANGED <<task, point, stored>> BY <1>2 DEF StoreCommit
  <2> QED BY <2>1, EndingStays
<1>3. CASE CommitAdmitted(r) /\ Store(r)
  <2>1. PointInv' BY <1>1, <1>3, CommitStores
  <2>2. \A q \in Resumer \ {r} :
           /\ CallInv(task[q].config, task[q].source, pc[q], run[q], point')
           /\ AnswerInv(answer[q], point')
    BY <1>1, <1>3, CommitLeavesOthers
  <2>3. CASE run[r].position = run[r].stop
    <3>1. End(r, Committed(r)) BY <1>3, <2>3 DEF StoreCommit
    <3>2. AnswerInv(Committed(r), point') BY <1>1, <1>3, CommitGoesOn
    <3>3. CallInv(task[r].config, task[r].source, "idle", NotRunning, point') BY DEF CallInv
    <3>4. /\ pc' = [pc EXCEPT ![r] = "idle"] /\ run' = [run EXCEPT ![r] = NotRunning]
          /\ answer' = [answer EXCEPT ![r] = Committed(r)]
      BY <3>1 DEF End, Goto
    <3> QED BY <1>1, <2>1, <2>2, <3>2, <3>3, <3>4, OneCall
  <2>4. CASE run[r].position # run[r].stop
    <3> DEFINE y == [[[run[r] EXCEPT !.generation = @ + 1] EXCEPT !.since = 0]
                       EXCEPT !.pending = <<>>]
    <3>1. OfResumers(run) /\ OfResumers(answer) BY CallFacts
    <3>2. /\ run' = [run EXCEPT ![r].generation = @ + 1, ![r].since = 0, ![r].pending = <<>>]
          /\ Goto(r, "replay") /\ UNCHANGED answer
      BY <1>3, <2>4 DEF StoreCommit
    <3>3. run' = [run EXCEPT ![r] = y] BY <3>1, <3>2 DEF OfResumers
    <3>4. pc' = [pc EXCEPT ![r] = "replay"] BY <3>2 DEF Goto
    <3>5. CallInv(task[r].config, task[r].source, "replay", y, point')
      BY <1>1, <1>3, <2>4, CommitGoesOn
    <3> HIDE DEF y
    <3>6. answer' = [answer EXCEPT ![r] = answer[r]] BY <3>1, <3>2, Updated
    <3>7. AnswerInv(answer[r], point') BY <1>1, <1>3, CommitLeavesOthers
    <3> QED BY <1>1, <2>1, <2>2, <3>3, <3>4, <3>5, <3>6, <3>7, OneCall
  <2> QED BY <2>3, <2>4
<1> QED BY <1>2, <1>3 DEF StoreCommit

LEMMA UnacknowledgedStays ==
    ASSUME RecoveryHolds, StoreInv, NEW r \in Resumer, StoreCommitUnacknowledged(r)
    PROVE  StoreInv'
<1>1. /\ pc[r] = "commit" /\ task' = task /\ CommitAdmitted(r) /\ Store(r)
      /\ End(r, NothingStored)
  BY DEF StoreCommitUnacknowledged
<1>2. PointInv' BY <1>1, CommitStores
<1>3. \A q \in Resumer \ {r} :
         /\ CallInv(task[q].config, task[q].source, pc[q], run[q], point')
         /\ AnswerInv(answer[q], point')
  BY <1>1, CommitLeavesOthers
<1>4. AnswerInv(NothingStored, point') BY DEF AnswerInv
<1>5. CallInv(task[r].config, task[r].source, "idle", NotRunning, point') BY DEF CallInv
<1>6. /\ pc' = [pc EXCEPT ![r] = "idle"] /\ run' = [run EXCEPT ![r] = NotRunning]
      /\ answer' = [answer EXCEPT ![r] = NothingStored]
  BY <1>1 DEF End, Goto
<1> QED BY <1>1, <1>2, <1>3, <1>4, <1>5, <1>6, OneCall

LEMMA StoreStarts == RecoveryHolds /\ StoreInit => StoreInv
<1> SUFFICES ASSUME RecoveryHolds, NEW tasks \in Tasks, StoreInitOf(tasks) PROVE StoreInv
  BY DEF StoreInit
<1>1. /\ task = tasks /\ point = NothingStored /\ stored = <<>>
      /\ pc = [r \in Resumer |-> "idle"] /\ run = [r \in Resumer |-> NotRunning]
      /\ answer = [r \in Resumer |-> NothingStored]
  BY DEF StoreInitOf
<1>2. OfResumers(pc) /\ OfResumers(run) /\ OfResumers(answer) BY <1>1 DEF OfResumers
<1>3. PointInv BY <1>1 DEF PointInv
<1>4. ASSUME NEW r \in Resumer PROVE ProcessInv(r)
  <2>1. pc[r] = "idle" /\ answer[r] = NothingStored BY <1>1
  <2> QED BY <2>1 DEF ProcessInv, CallInv, AnswerInv
<1> QED BY <1>1, <1>2, <1>3, <1>4 DEF StoreInv

LEMMA StoreSteps == RecoveryHolds /\ StoreInv /\ [StoreNext]_vars => StoreInv'
<1> SUFFICES ASSUME RecoveryHolds, StoreInv, [StoreNext]_vars PROVE StoreInv' OBVIOUS
<1>1. CASE UNCHANGED vars
  BY <1>1 DEF vars, StoreInv, PointInv, ProcessInv, OfResumers
<1>2. CASE StoreNext
  <2>1. PICK r \in Resumer :
           Resume(r) \/ Continue(r) \/ StoreCommitUnacknowledged(r) \/ Stop(r)
    BY <1>2 DEF StoreNext
  <2>2. CASE Resume(r)
    BY <2>2, ResumeStays
  <2>3. CASE VerifyOutputs(r)
    BY <2>3, VerifyStays
  <2>4. CASE Replay(r)
    BY <2>4, ReplayStays
  <2>5. CASE Finish(r)
    BY <2>5, FinishStays
  <2>6. CASE StoreCommit(r)
    BY <2>6, CommitStays
  <2>7. CASE StoreCommitUnacknowledged(r)
    BY <2>7, UnacknowledgedStays
  <2>8. CASE Stop(r)
    <3>1. End(r, NothingStored) /\ UNCHANGED <<task, point, stored>> BY <2>8 DEF Stop
    <3> QED BY <3>1, EndingStays
  <2> QED BY <2>1, <2>2, <2>3, <2>4, <2>5, <2>6, <2>7, <2>8 DEF Continue
<1> QED BY <1>1, <1>2

(***************************************************************************)
(* The invariant holds whatever the calls and the failures do.             *)
(***************************************************************************)
THEOREM StoreInvariance == RecoveryHolds /\ StoreSpec => []StoreInv
<1> SUFFICES ASSUME RecoveryHolds PROVE StoreSpec => []StoreInv OBVIOUS
<1>1. StoreInit => StoreInv BY StoreStarts
<1>2. StoreInv /\ [StoreNext]_vars => StoreInv' BY StoreSteps
<1> QED BY <1>1, <1>2, PTL DEF StoreSpec

-----------------------------------------------------------------------------
(***************************************************************************)
(* What the invariant says of the arrivals.                                *)
(***************************************************************************)
LEMMA ExactAt ==
    ASSUME NEW c, NEW source, SourceHolds(c, source), NEW n \in 0 .. Len(source),
           Uninterrupted(c, source, n).ok
    PROVE  LET arrivals == Arrivals(c, source, n)
               whole == Uninterrupted(c, source, n)
           IN  /\ WindowsAreExact(c, arrivals, whole.aligner, whole.windows)
               /\ \A a \in Held(c, source, n) : Agrees(c, a, arrivals)
               /\ n = Len(source) /\ AtEnd(c, source).ok =>
                     /\ WindowsAreExact(c, arrivals, AtEnd(c, source).aligner,
                                        whole.windows \o AtEnd(c, source).windows)
                     /\ Agrees(c, AlignerRestored(c, AlignerCheckpoint(c, AtEnd(c, source).aligner)),
                               arrivals)
                     /\ \A a \in Held(c, source, n) : Agrees(c, Flush(c, a).aligner, arrivals)
<1>1. AlignerIsExact(c, source) BY DEF SourceHolds
<1> QED BY <1>1 DEF AlignerIsExact, AtEnd

\* A stored point and its windows agree with their arrivals.
LEMMA StandsExact ==
    ASSUME NEW c, NEW source, SourceHolds(c, source), NEW p, Stands(c, source, p)
    PROVE  LET arrivals == Arrivals(c, source, p.position)
               windows == WindowsTo(c, source, p.position, p.checkpoint.closed)
           IN  /\ Agrees(c, AlignerRestored(c, p.checkpoint), arrivals)
               /\ Len(windows) = p.checkpoint.nextIndex
               /\ \A n \in DOMAIN windows :
                     windows[n].index = n - 1 /\ IsWindow(c, arrivals, windows[n])
<1> DEFINE arrivals == Arrivals(c, source, p.position)
           whole == Uninterrupted(c, source, p.position)
           ended == AtEnd(c, source)
           windows == WindowsTo(c, source, p.position, p.checkpoint.closed)
<1>1. p.position \in 0 .. Len(source) /\ whole.ok BY DEF Stands
<1>2. CASE p.checkpoint.closed
  <2>1. /\ p.position = Len(source) /\ ended.ok
        /\ p.checkpoint = AlignerCheckpoint(c, ended.aligner)
    BY <1>2 DEF Stands
  <2>2. /\ WindowsAreExact(c, arrivals, ended.aligner, whole.windows \o ended.windows)
        /\ Agrees(c, AlignerRestored(c, AlignerCheckpoint(c, ended.aligner)), arrivals)
    BY <1>1, <2>1, ExactAt
  <2>3. windows = whole.windows \o ended.windows BY <1>2 DEF WindowsTo
  <2>4. p.checkpoint.nextIndex = ended.aligner.nextIndex BY <2>1, CheckpointFields
  <2> HIDE DEF arrivals, whole, ended, windows
  <2>5. WindowsAreExact(c, arrivals, ended.aligner, windows) BY <2>2, <2>3
  <2>6. Agrees(c, AlignerRestored(c, p.checkpoint), arrivals) BY <2>1, <2>2
  <2> QED BY <2>4, <2>5, <2>6 DEF WindowsAreExact, arrivals, windows
<1>3. CASE ~ p.checkpoint.closed
  <2>1. p.checkpoint = AlignerCheckpoint(c, whole.aligner) BY <1>3 DEF Stands
  <2>2. /\ WindowsAreExact(c, arrivals, whole.aligner, whole.windows)
        /\ \A a \in Held(c, source, p.position) : Agrees(c, a, arrivals)
    BY <1>1, ExactAt
  <2>3. windows = whole.windows BY <1>3 DEF WindowsTo
  <2>4. p.checkpoint.nextIndex = whole.aligner.nextIndex BY <2>1, CheckpointFields
  <2>5. AlignerRestored(c, AlignerCheckpoint(c, whole.aligner)) \in Held(c, source, p.position)
    <3>1. Len(source) \in Nat BY DEF SourceHolds
    <3> QED BY <1>1, <3>1, WholeIsHeld
  <2> HIDE DEF arrivals, whole, windows
  <2>6. Agrees(c, AlignerRestored(c, p.checkpoint), arrivals) BY <2>1, <2>2, <2>5
  <2> QED BY <2>2, <2>3, <2>4, <2>6 DEF WindowsAreExact, arrivals, windows
<1> QED BY <1>2, <1>3

\* The windows of a call are the last of all closed so far.
LEMMA PendingExact ==
    ASSUME NEW c, NEW arrivals, NEW aligner, NEW u, NEW v, Listed(u), Listed(v),
           WindowsAreExact(c, arrivals, aligner, u \o v)
    PROVE  \A n \in DOMAIN v : IsWindow(c, arrivals, v[n])
<1> DEFINE w == u \o v
<1>1. /\ Len(u) \in Nat /\ Len(v) \in Nat /\ DOMAIN v = 1 .. Len(v)
      /\ DOMAIN w = 1 .. Len(u) + Len(v) /\ \A i \in 1 .. Len(v) : w[Len(u) + i] = v[i]
  BY ListedConcat
<1>2. \A n \in DOMAIN w : IsWindow(c, arrivals, w[n]) BY DEF WindowsAreExact
<1> HIDE DEF w
<1> SUFFICES ASSUME NEW n \in DOMAIN v PROVE IsWindow(c, arrivals, v[n]) OBVIOUS
<1>3. n \in 1 .. Len(v) BY <1>1
<1>4. Len(u) + n \in DOMAIN w BY <1>1, <1>3
<1>5. w[Len(u) + n] = v[n] BY <1>1, <1>3
<1> QED BY <1>2, <1>4, <1>5

\* A call in progress agrees with its arrivals.
LEMMA CallExact ==
    ASSUME NEW c, NEW source, SourceHolds(c, source), NEW x, NEW now,
           \/ Verifying(c, source, x, now)
           \/ Placed(c, source, x, now) /\ Replaying(c, source, x)
           \/ Placed(c, source, x, now) /\ Committing(c, source, x)
    PROVE  LET arrivals == Arrivals(c, source, x.position)
           IN  /\ Agrees(c, x.aligner, arrivals)
               /\ \A n \in DOMAIN x.pending : IsWindow(c, arrivals, x.pending[n])
<1> DEFINE arrivals == Arrivals(c, source, x.position)
           before == Uninterrupted(c, source, x.position - x.since).windows
           whole == Uninterrupted(c, source, x.position)
<1>0. Len(source) \in Nat BY DEF SourceHolds
<1>1. ASSUME Placed(c, source, x, now)
      PROVE  x.position \in 0 .. Len(source) /\ whole.ok /\ Listed(before)
  <2>1. /\ x.position \in 0 .. Len(source) /\ whole.ok
        /\ x.position - x.since \in 0 .. Len(source)
        /\ Uninterrupted(c, source, x.position - x.since).ok
    BY <1>0, <1>1 DEF Placed
  <2> QED BY <2>1, WholeListed
<1>2. CASE Placed(c, source, x, now) /\ Replaying(c, source, x)
  <2>1. /\ x.aligner \in Held(c, source, x.position) /\ Listed(x.pending)
        /\ whole.windows = before \o x.pending
    BY <1>2 DEF Replaying
  <2>2. /\ WindowsAreExact(c, arrivals, whole.aligner, whole.windows)
        /\ Agrees(c, x.aligner, arrivals)
    BY <1>1, <1>2, <2>1, ExactAt
  <2>3. Listed(before) BY <1>1, <1>2
  <2> HIDE DEF arrivals, before, whole
  <2>4. WindowsAreExact(c, arrivals, whole.aligner, before \o x.pending) BY <2>1, <2>2
  <2>5. Listed(x.pending) BY <2>1
  <2>6. \A n \in DOMAIN x.pending : IsWindow(c, arrivals, x.pending[n])
    BY <2>3, <2>4, <2>5, PendingExact
  <2> QED BY <2>2, <2>6 DEF arrivals
<1>3. CASE Placed(c, source, x, now) /\ Flushed(c, source, x)
  <2> DEFINE ended == AtEnd(c, source)
  <2>1. PICK a \in Held(c, source, x.position) :
           Flush(c, a).ok /\ x.aligner = Flush(c, a).aligner
    BY <1>3 DEF Flushed
  <2>2. /\ x.position = Len(source) /\ Listed(x.pending)
        /\ whole.windows \o ended.windows = before \o x.pending
    BY <1>3 DEF Flushed, WindowsTo
  <2>3. x.position \in 0 .. Len(source) /\ whole.ok /\ Listed(before) BY <1>1, <1>3
  <2>4. ended.ok BY <2>1, <2>2, <2>3, EndAlike
  <2>5. /\ WindowsAreExact(c, arrivals, ended.aligner, whole.windows \o ended.windows)
        /\ Agrees(c, Flush(c, a).aligner, arrivals)
    BY <2>1, <2>2, <2>3, <2>4, ExactAt
  <2> HIDE DEF arrivals, before, whole, ended
  <2>6. WindowsAreExact(c, arrivals, ended.aligner, before \o x.pending) BY <2>2, <2>5
  <2>7. Listed(x.pending) BY <2>2
  <2>8. Listed(before) BY <2>3
  <2>9. \A n \in DOMAIN x.pending : IsWindow(c, arrivals, x.pending[n])
    BY <2>6, <2>7, <2>8, PendingExact
  <2>10. Agrees(c, x.aligner, arrivals) BY <2>1, <2>5
  <2> QED BY <2>9, <2>10 DEF arrivals
<1>4. CASE Verifying(c, source, x, now)
  <2>1. /\ Stands(c, source, x.loaded) /\ x.position = x.loaded.position
        /\ x.aligner = AlignerRestored(c, x.loaded.checkpoint) /\ x.pending = <<>>
    BY <1>4 DEF Verifying, Loaded
  <2>2. Agrees(c, x.aligner, arrivals) BY <2>1, StandsExact
  <2> QED BY <2>1, <2>2
<1> QED BY <1>2, <1>3, <1>4 DEF Committing, Pausing

LEMMA StoreInvIsExact == RecoveryHolds /\ StoreInv => AlignmentIsExact
<1> SUFFICES ASSUME RecoveryHolds, StoreInv PROVE AlignmentIsExact OBVIOUS
<1>1. RunsAreExact
  <2> SUFFICES ASSUME NEW r \in Resumer, pc[r] \in {"verify", "replay", "commit"}
               PROVE  LET arrivals == Arrivals(task[r].config, task[r].source, run[r].position)
                      IN  /\ Agrees(task[r].config, run[r].aligner, arrivals)
                          /\ \A n \in DOMAIN run[r].pending :
                                IsWindow(task[r].config, arrivals, run[r].pending[n])
    BY DEF RunsAreExact, Source
  <2>1. SourceHolds(task[r].config, task[r].source) BY CallFacts
  <2>2. CallInv(task[r].config, task[r].source, pc[r], run[r], point) BY CallFacts
  <2>3. \/ Verifying(task[r].config, task[r].source, run[r], point)
        \/ /\ Placed(task[r].config, task[r].source, run[r], point)
           /\ Replaying(task[r].config, task[r].source, run[r])
        \/ /\ Placed(task[r].config, task[r].source, run[r], point)
           /\ Committing(task[r].config, task[r].source, run[r])
    BY <2>2 DEF CallInv
  <2> QED BY <2>1, <2>3, CallExact
<1>2. StoreIsExact
  <2>1. point = NothingStored => stored = <<>> BY PointFacts
  <2>2. ASSUME point # NothingStored
        PROVE  LET c == point.checkpoint.config
                   arrivals == Arrivals(c, point.source, point.position)
               IN  /\ Agrees(c, AlignerRestored(c, point.checkpoint), arrivals)
                   /\ Len(stored) = point.checkpoint.nextIndex
                   /\ \A n \in DOMAIN stored :
                         stored[n].index = n - 1 /\ IsWindow(c, arrivals, stored[n])
                   /\ point.checkpoint.closed => point.position = Len(point.source)
    <3> DEFINE c == point.checkpoint.config
    <3>1. /\ SourceHolds(c, point.source) /\ Stands(c, point.source, point)
          /\ stored = WindowsTo(c, point.source, point.position, point.checkpoint.closed)
      BY <2>2, PointFacts
    <3>2. point.checkpoint.closed => point.position = Len(point.source) BY <3>1 DEF Stands
    <3> QED BY <3>1, <3>2, StandsExact
  <2>3. \A r \in Resumer : answer[r] # NothingStored =>
           /\ answer[r].generation <= point.generation
           /\ answer[r].position <= point.position
           /\ ClosedPoint(answer[r]) => point = answer[r]
    BY DEF StoreInv, ProcessInv, AnswerInv
  <2> QED BY <2>1, <2>2, <2>3 DEF StoreIsExact
<1> QED BY <1>1, <1>2 DEF AlignmentIsExact

(***************************************************************************)
(* Whoever resumes, races, dies or loses a reply: an aligner in a call, the*)
(* stored point and the stored windows are those of one uninterrupted call *)
(* on the same arrivals, and no answer is ahead of the store.              *)
(***************************************************************************)
THEOREM StoreStaysExact == RecoveryHolds /\ StoreSpec => []AlignmentIsExact
<1> SUFFICES ASSUME RecoveryHolds PROVE StoreSpec => []AlignmentIsExact OBVIOUS
<1>1. StoreInv => AlignmentIsExact BY StoreInvIsExact
<1>2. StoreSpec => []StoreInv BY StoreInvariance
<1> QED BY <1>1, <1>2, PTL

\* A step of the store is a commit.
LEMMA OnlyCommitsStore ==
    ASSUME RecoveryHolds, StoreInv, StoreNext, ~ UNCHANGED <<point, stored>>
    PROVE  /\ ~ ClosedPoint(point)
           /\ point'.generation = point.generation + 1
           /\ point'.position >= point.position
           /\ \/ point'.position > point.position
              \/ point'.checkpoint.closed
              \/ SameState /\ \E r \in Resumer : CommitsNoEvent(r)
           /\ point # NothingStored => point'.source = point.source
           /\ SubSeq(stored', 1, Len(stored)) = stored
<1>1. PICK r \in Resumer : StoreCommit(r) \/ StoreCommitUnacknowledged(r)
  BY DEF StoreNext, Continue, Resume, VerifyOutputs, Replay, Finish, Stop
<1>2. pc[r] = "commit" /\ CommitAdmitted(r) /\ Store(r) /\ task' = task
  BY <1>1 DEF StoreCommit, StoreCommitUnacknowledged
<1>3. point.position \in Nat /\ point'.position \in Nat /\ point.position <= point'.position
  BY <1>2, PointFacts, CommitStores
<1>4. point'.position >= point.position BY <1>3
<1> QED BY <1>2, <1>4, CommitStores

(***************************************************************************)
(* A commit is one generation; it moves on in the source, closes it, or is *)
(* that of a call for no event, which stores the state it found; it only   *)
(* adds windows, and nothing follows the closing one.                      *)
(***************************************************************************)
THEOREM StoreAlwaysAdvances == RecoveryHolds /\ StoreSpec => StoreOnlyAdvances
<1> SUFFICES ASSUME RecoveryHolds PROVE StoreSpec => StoreOnlyAdvances OBVIOUS
<1>1. StoreInv /\ [StoreNext]_vars =>
         [/\ ~ ClosedPoint(point)
          /\ point'.generation = point.generation + 1
          /\ point'.position >= point.position
          /\ \/ point'.position > point.position
             \/ point'.checkpoint.closed
             \/ SameState /\ \E r \in Resumer : CommitsNoEvent(r)
          /\ point # NothingStored => point'.source = point.source
          /\ SubSeq(stored', 1, Len(stored)) = stored]_<<point, stored>>
  BY OnlyCommitsStore DEF vars
<1>2. StoreSpec => []StoreInv BY StoreInvariance
<1> QED BY <1>1, <1>2, PTL DEF StoreSpec, StoreOnlyAdvances
=============================================================================
