------------------------ MODULE MCPartitionedJournal ------------------------
(***************************************************************************)
(* Small instances of PartitionedJournal for TLC.                          *)
(***************************************************************************)
EXTENDS PartitionedJournal

CONSTANTS k1, k2, ra, rb, rc, MaxExpected, Batches

\* ra and rc share a key and so a shard; rb belongs to the other worker.
MCRecord == {ra, rb, rc}
MCKeyOf == [r \in MCRecord |-> IF r = rb THEN k2 ELSE k1]
MCRowsOf == [r \in MCRecord |-> CASE r = ra -> 1 [] r = rb -> 2 [] r = rc -> 0]
MCRouteOf == [k \in {k1, k2} |-> IF k = k1 THEN 1 ELSE 0]

\* Record tuples submitted in the runs.
TwoWaves == {<<ra, rb>>, <<ra>>}

\* Well-formed requests, stale and premature ones among them: expected is at
\* most one more than the generations that can end at start.
MCSubmitted ==
    {r \in [id : RequestId, journal : JournalId, expected : 0 .. MaxExpected,
            cause : {"wave"}, start : 0 .. MaxHistory, records : Batches]
           \cup
           [id : RequestId, journal : JournalId, expected : 0 .. MaxExpected,
            cause : {"eof"}, start : 0 .. MaxHistory, records : {<<>>}] :
        /\ r.start + Len(r.records) <= MaxHistory
        /\ r.expected <= r.start + 1
        /\ r.start <= MaxBatch * r.expected}

Symmetry == Permutations(Session) \cup Permutations(RequestId)
=============================================================================
