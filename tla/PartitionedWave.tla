--------------------------- MODULE PartitionedWave ---------------------------
(***************************************************************************)
(* One wave of the keyed multi-process Flow: the parent's checkpoint, the  *)
(* routing of records to shards, what one worker computes from a shard,    *)
(* and the candidate batch the parent assembles from the workers' replies. *)
(* Everything here is a function of its arguments.                         *)
(*                                                                         *)
(* Keyed state is modelled by what determines it: the cell of a key is the *)
(* sequence of records of that key its callbacks have seen, and the value  *)
(* of an output row is the cell after the input that emitted it.  Any lost,*)
(* repeated, reordered or misrouted input is therefore visible in the rows.*)
(***************************************************************************)
EXTENDS Naturals, Sequences, FiniteSets, Subsequence

CONSTANTS
    Key,        \* record keys
    Record,     \* keyed input records
    KeyOf,      \* [Record -> Key]
    RowsOf,     \* [Record -> Nat]: rows the flow emits for a record
    Workers,    \* number of worker processes (shards)
    RouteOf,    \* [Key -> 0 .. Workers - 1]: partition_for
    MaxBatch,   \* limits.max_batch_inputs
    MaxOutputs  \* limits.max_output_records

ASSUME WaveAssumption ==
    /\ KeyOf \in [Record -> Key]
    /\ RowsOf \in [Record -> Nat]
    /\ Workers \in Nat \ {0}
    /\ RouteOf \in [Key -> 0 .. Workers - 1]
    /\ MaxBatch \in Nat \ {0}
    /\ MaxOutputs \in Nat

Worker == 0 .. Workers - 1

\* The record tuples one wave accepts.
Batch == UNION {[1 .. n -> Record] : n \in 1 .. MaxBatch}

Row == [position : Nat, ordinal : Nat, key : Key, value : Seq(Record)]

\* FlowCheckpoint: one shard.  PartitionedFlowCheckpoint: the parent's snapshot.
Shard == [processed : Nat, emitted : Nat, cells : [Key -> Seq(Record)]]

Checkpoint == [next : Nat, waves : Nat, closed : BOOLEAN, emitted : Nat,
               shards : [Worker -> Shard]]

EmptyShard == [processed |-> 0, emitted |-> 0, cells |-> [k \in Key |-> <<>>]]

InitialCheckpoint ==
    [next |-> 0, waves |-> 0, closed |-> FALSE, emitted |-> 0,
     shards |-> [w \in Worker |-> EmptyShard]]

\* The sum of a count over all shards.
SumOverShards(count) ==
    LET upTo[w \in 0 .. Workers] == IF w = 0 THEN 0 ELSE upTo[w - 1] + count[w - 1]
    IN  upTo[Workers]

(***************************************************************************)
(* What PartitionedFlowCheckpoint and validate_for demand of a checkpoint. *)
(***************************************************************************)
CheckpointAdmitted(cp) ==
    /\ cp.waves <= cp.next
    /\ cp.next <= cp.waves * MaxBatch
    /\ cp.next = SumOverShards([w \in Worker |-> cp.shards[w].processed])
    /\ cp.emitted = SumOverShards([w \in Worker |-> cp.shards[w].emitted])
    /\ \A w \in Worker :
          /\ cp.shards[w].processed = 0 =>
                cp.shards[w].emitted = 0 /\ cp.shards[w].cells = EmptyShard.cells
          /\ \A k \in Key : cp.shards[w].cells[k] # <<>> => RouteOf[k] = w

(***************************************************************************)
(* A worker restores the shard it was sent and folds its items, in order.  *)
(***************************************************************************)
ProcessItem(acc, item) ==
    LET k     == KeyOf[item.record]
        cells == [acc.shard.cells EXCEPT ![k] = Append(@, item.record)]
        n     == RowsOf[item.record]
    IN  [shard |-> [processed |-> acc.shard.processed + 1,
                    emitted   |-> acc.shard.emitted + n,
                    cells     |-> cells],
         rows  |-> acc.rows \o [i \in 1 .. n |->
                      [position |-> item.position, ordinal |-> i - 1,
                       key |-> k, value |-> cells[k]]]]

WorkerExecute(shard, items) ==
    LET upTo[n \in 0 .. Len(items)] ==
            IF n = 0 THEN [shard |-> shard, rows |-> <<>>] ELSE ProcessItem(upTo[n - 1], items[n])
    IN  upTo[Len(items)]

(***************************************************************************)
(* The parent: group the items by shard, restore every participating shard *)
(* from its own checkpoint, merge the replies in source order.             *)
(***************************************************************************)
Items(start, records) ==
    [i \in 1 .. Len(records) |-> [position |-> start + i - 1, record |-> records[i]]]

\* The items a worker is sent.
Routed(w) == [position : Nat, record : {r \in Record : RouteOf[KeyOf[r]] = w}]

Group(start, records, w) == Filtered(Items(start, records), Routed(w))

RowBefore(a, b) ==
    \/ a.position < b.position
    \/ a.position = b.position /\ a.ordinal < b.ordinal

\* The rows of all replies, sorted: the n-th is the one that n - 1 others precede.
MergeRows(replies) ==
    LET places     == UNION {{w} \X DOMAIN replies[w].rows : w \in Worker}
        RowAt(p)   == replies[p[1]].rows[p[2]]
        Earlier(p) == {q \in places : RowBefore(RowAt(q), RowAt(p))}
    IN  [n \in 1 .. Cardinality(places) |->
            RowAt(CHOOSE p \in places : Cardinality(Earlier(p)) = n - 1)]

CandidateBatch(before, start, records) ==
    LET replies == [w \in Worker |->
                      WorkerExecute(before.shards[w], Group(start, records, w))]
        rows    == MergeRows(replies)
    IN  [checkpoint |-> [before EXCEPT !.next = start + Len(records),
                                       !.waves = @ + 1,
                                       !.emitted = @ + Len(rows),
                                       !.shards = [w \in Worker |-> replies[w].shard]],
         outputs    |-> rows]

(***************************************************************************)
(* What the parent verifies of the replies before it returns a candidate:  *)
(* the counters advance by exactly this wave, every row belongs to one of  *)
(* its inputs and carries that input's key, and the rows are in (position, *)
(* ordinal) order with no ordinal missing.  A reply that fails this fails  *)
(* the session and is never published.                                     *)
(***************************************************************************)
BatchAdmitted(before, start, records, batch) ==
    LET cp == batch.checkpoint
        rows == batch.outputs
    IN  /\ rows \in Seq(Row)
        /\ cp \in Checkpoint
        /\ Len(rows) <= MaxOutputs
        /\ cp.next = start + Len(records)
        /\ cp.waves = before.waves + 1
        /\ cp.closed = before.closed
        /\ cp.emitted = before.emitted + Len(rows)
        /\ \A i \in 1 .. Len(rows) :
              /\ start <= rows[i].position
              /\ rows[i].position < start + Len(records)
              /\ rows[i].key = KeyOf[records[rows[i].position - start + 1]]
              /\ i = 1 => rows[i].ordinal = 0
              /\ i > 1 => \/ /\ rows[i].position = rows[i - 1].position
                             /\ rows[i].ordinal = rows[i - 1].ordinal + 1
                          \/ /\ rows[i].position > rows[i - 1].position
                             /\ rows[i].ordinal = 0
        /\ CheckpointAdmitted(cp)
=============================================================================
