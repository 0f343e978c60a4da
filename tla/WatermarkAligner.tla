--------------------------- MODULE WatermarkAligner --------------------------
(***************************************************************************)
(* The aligner as functions of its state: ingest and flush, the release of *)
(* identity records under a retention policy, and the checkpoint.          *)
(*                                                                         *)
(* A configuration is one record: the grid, lateness, required (a sequence *)
(* of streams), offset (of each stream), latePolicy, maxEventsPerWindow,   *)
(* the retention policy (horizon, maxTracked) and the library's limits     *)
(* (maxEvents, maxStreams).  The affine clock drift of a stream, the       *)
(* payloads and the modalities of events are left out.                     *)
(***************************************************************************)
EXTENDS Integers, Sequences, FiniteSets, SequencesExt, TLC, WindowIntervalIndex

TRACKED == 0
DROPPED == 1
ACCEPTED_LATE == 2

\* _validated_config and _validated_retention.
ConfigAdmitted(c) ==
    /\ c.window > 0 /\ c.hop > 0 /\ c.lateness >= 0
    /\ c.latePolicy \in {"reject", "drop", "accept"}
    /\ c.maxEventsPerWindow > 0 /\ c.maxWindows > 0 /\ c.maxTracked > 0
    /\ c.horizon >= c.window

NewAligner ==
    [index |-> EmptyIndex, nextIndex |-> 0, maxSeen |-> <<>>, seen |-> <<>>,
     assigned |-> {}, dropped |-> <<>>, acceptedLate |-> <<>>, unassigned |-> <<>>,
     released |-> 0, reported |-> 0, closed |-> FALSE]

IdsOf(records) == {records[n].id : n \in DOMAIN records}

\* The identifiers of a sequence of records, in order.
IdSeq(records) == [n \in DOMAIN records |-> records[n].id]

HasWatermark(c, maxSeen) == c.required # <<>> /\ ToSet(c.required) \subseteq DOMAIN maxSeen

Watermark(c, maxSeen) ==
    LET seen == {maxSeen[s] : s \in ToSet(c.required)}
    IN  (CHOOSE t \in seen : \A u \in seen : t <= u) - c.lateness

RetainedEventCount(a) == Len(a.seen) + a.reported

\* unassigned_event_ids: those classified at release, then those still held.
UnassignedIds(a) ==
    LET Open(record) == record.status # DROPPED /\ record.id \notin a.assigned
    IN  a.unassigned \o IdSeq(SelectSeq(a.seen, Open))

-----------------------------------------------------------------------------

Before(x, y) ==
    \/ x.time < y.time
    \/ x.time = y.time /\ x.stream < y.stream
    \/ x.time = y.time /\ x.stream = y.stream /\ x.id < y.id

\* _build_window, with the arrival under preview among the candidates.
BuildWindow(c, a, i, pending) ==
    LET Reached(e) == Overlaps(e, WindowStart(c, i), WindowEnd(c, i))
        found  == FoldSet(LAMBDA node, list : Append(list, node[2]), <<>>, Matching(a.index, i))
        events == SortSeq(found \o SelectSeq(pending, Reached), Before)
    IN  [index |-> i, events |-> events,
         missing |-> SelectSeq(c.required,
                               LAMBDA s : \A n \in DOMAIN events : events[n].stream # s)]

\* The limit on a window's events and the checks of AlignedWindow itself.
WindowAdmitted(c, w) ==
    /\ Len(w.events) <= c.maxEventsPerWindow
    /\ Cardinality(IdsOf(w.events)) = Len(w.events)
    /\ \A n \in DOMAIN w.events :
          Overlaps(w.events[n], WindowStart(c, w.index), WindowEnd(c, w.index))

\* A batch of windows is built as a whole or refused as a whole.
Preview(c, a, indexes, pending) ==
    With(FoldLeft(LAMBDA windows, i : Append(windows, BuildWindow(c, a, i, pending)), <<>>,
                  [n \in 1 .. Cardinality(indexes) |-> a.nextIndex + n - 1]),
         LAMBDA windows :
           [ok |-> \A n \in DOMAIN windows : WindowAdmitted(c, windows[n]), windows |-> windows])

Refusal == [ok |-> FALSE, windows |-> <<>>]

\* _preview_ready: every window that ends at or before the watermark.
PreviewReady(c, a, watermark, e) ==
    IF WindowEnd(c, c.maxWindows) <= watermark
      THEN Refusal
      ELSE Preview(c, a, {i \in a.nextIndex .. c.maxWindows : WindowEnd(c, i) <= watermark}, <<e>>)

\* _preview_flush: every window that starts before the last horizon.
PreviewFlush(c, a, horizon) ==
    IF WindowStart(c, c.maxWindows) < horizon
      THEN Refusal
      ELSE Preview(c, a, {i \in a.nextIndex .. c.maxWindows : WindowStart(c, i) < horizon}, <<>>)

-----------------------------------------------------------------------------

\* The records whose horizon is at or behind the frontier, in order of arrival
\* and up to the first one that is not.
Behind(a, frontier) ==
    SubSeq(a.seen, 1,
           Cardinality({n \in DOMAIN a.seen : \A m \in 1 .. n : a.seen[m].horizon <= frontier}))

\* An event no window holds; every other report names what has a status.
NeverAssigned(a, record) == record.status = TRACKED /\ record.id \notin a.assigned

\* Deviation: the assignment of an event outlives its record.
ForgetRecordsOnly(a, gone) ==
    LET lost == SelectSeq(gone, LAMBDA x : NeverAssigned(a, x))
        told == SelectSeq(gone, LAMBDA x : x.status # TRACKED)
    IN  [a EXCEPT !.seen = SubSeq(@, Len(gone) + 1, Len(@)),
                  !.unassigned = @ \o IdSeq(lost),
                  !.reported = @ + Len(lost) + Len(told),
                  !.released = @ + Len(gone)]

\* Each record is classified before it is forgotten.
Forget(a, gone) ==
    LET lost == SelectSeq(gone, LAMBDA x : NeverAssigned(a, x))
        told == SelectSeq(gone, LAMBDA x : x.status # TRACKED)
    IN  [a EXCEPT !.seen = SubSeq(@, Len(gone) + 1, Len(@)),
                  !.assigned = @ \ IdsOf(gone),
                  !.unassigned = @ \o IdSeq(lost),
                  !.reported = @ + Len(lost) + Len(told),
                  !.released = @ + Len(gone)]

ReleaseBehind(a, frontier) == Forget(a, Behind(a, frontier))

\* _release: the retention horizon keeps the frontier behind the open windows.
Release(c, a) ==
    IF HasWatermark(c, a.maxSeen)
      THEN ReleaseBehind(a, Watermark(c, a.maxSeen) - c.horizon)
      ELSE a

CommitWindows(c, a, windows) ==
    LET next == a.nextIndex + Len(windows)
        committed == [a EXCEPT
            !.assigned = @ \cup UNION {IdsOf(windows[n].events) : n \in DOMAIN windows},
            !.nextIndex = next,
            !.index = Prune(@, next)]
    IN  With(committed, LAMBDA b : Release(c, b))

Track(a, e, status) ==
    [a EXCEPT !.seen = Append(@, [id |-> e.id, horizon |-> EventHorizon(e), status |-> status])]

\* No open window can contain the event.
FullyObsolete(c, a, e) == EventHorizon(e) <= WindowStart(c, a.nextIndex)

Late(c, a, e) ==
    \/ FullyObsolete(c, a, e)
    \/ a.nextIndex > 0 /\ e.time < WindowEnd(c, a.nextIndex - 1)

Shifted(c, e) == [e EXCEPT !.time = @ + c.offset[e.stream]]

IngestRefused(c, a, e) ==
    \/ a.closed
    \/ e.id \in IdsOf(a.seen)
    \/ Len(a.seen) >= c.maxEvents
    \/ RetainedEventCount(a) >= c.maxTracked
    \/ Late(c, a, e) /\ c.latePolicy = "reject"

MaxSeenWith(a, e) ==
    IF e.stream \in DOMAIN a.maxSeen /\ a.maxSeen[e.stream] >= e.time
      THEN a.maxSeen
      ELSE (e.stream :> e.time) @@ a.maxSeen

\* The windows an accepted event closes, built before anything is changed.
Closing(c, a, e, maxSeen) ==
    IF HasWatermark(c, maxSeen)
      THEN PreviewReady(c, a, Watermark(c, maxSeen), e)
      ELSE [ok |-> TRUE, windows |-> <<>>]

Accept(c, a, e, windows) ==
    LET late  == Late(c, a, e)
        taken == [Track(a, e, IF late THEN ACCEPTED_LATE ELSE TRACKED) EXCEPT
                    !.acceptedLate = IF late THEN Append(@, e.id) ELSE @,
                    !.index = Insert(c, @, e),
                    !.maxSeen = MaxSeenWith(a, e)]
    IN  With(taken, LAMBDA b : CommitWindows(c, b, windows))

\* ingest of an event already shifted to the common clock: the windows it
\* closes and the aligner after it; a refusal leaves the aligner alone.
IngestShifted(c, a, e) ==
    IF IngestRefused(c, a, e) THEN [ok |-> FALSE, aligner |-> a, windows |-> <<>>]
    ELSE IF Late(c, a, e) /\ (c.latePolicy = "drop" \/ FullyObsolete(c, a, e))
      THEN [ok |-> TRUE, windows |-> <<>>,
            aligner |-> [Track(a, e, DROPPED) EXCEPT !.dropped = Append(@, e.id)]]
    ELSE With(Closing(c, a, e, MaxSeenWith(a, e)), LAMBDA preview :
           IF preview.ok
             THEN [ok |-> TRUE, windows |-> preview.windows,
                   aligner |-> Accept(c, a, e, preview.windows)]
             ELSE [ok |-> FALSE, windows |-> <<>>, aligner |-> a])

Ingest(c, a, e) == With(Shifted(c, e), LAMBDA shifted : IngestShifted(c, a, shifted))

\* flush, of an aligner that is not closed yet.
Flush(c, a) ==
    IF a.index.live = <<>>
      THEN [ok |-> TRUE, windows |-> <<>>, aligner |-> [a EXCEPT !.closed = TRUE]]
      ELSE With(PreviewFlush(c, a, IndexHorizon(a.index)), LAMBDA preview :
             IF preview.ok
               THEN [ok |-> TRUE, windows |-> preview.windows,
                     aligner |-> [CommitWindows(c, a, preview.windows) EXCEPT
                                    !.index = Clear(@), !.closed = TRUE]]
               ELSE [ok |-> FALSE, windows |-> <<>>, aligner |-> a])

-----------------------------------------------------------------------------

\* checkpoint(): the configuration stands for its digest.
AlignerCheckpoint(c, a) ==
    [config |-> c, nextIndex |-> a.nextIndex, maxSeen |-> a.maxSeen,
     live |-> [n \in DOMAIN a.index.live |-> a.index.live[n].event],
     seen |-> a.seen, assigned |-> a.assigned, dropped |-> a.dropped,
     acceptedLate |-> a.acceptedLate, unassigned |-> a.unassigned,
     released |-> a.released, reported |-> a.reported, closed |-> a.closed]

Labels(ids) == Cardinality(ToSet(ids)) = Len(ids)

\* What a checkpoint checks of itself, when it is taken and when it is read.
CheckpointAdmitted(p) ==
    /\ p.nextIndex >= 0
    /\ Cardinality(DOMAIN p.maxSeen) <= p.config.maxStreams
    /\ Len(p.live) <= p.config.maxEvents /\ Len(p.seen) <= p.config.maxEvents
    /\ Cardinality(IdsOf(p.live)) = Len(p.live)
    /\ Cardinality(IdsOf(p.seen)) = Len(p.seen)
    /\ Labels(p.dropped) /\ Labels(p.acceptedLate) /\ Labels(p.unassigned)
    /\ p.reported <= p.released
    /\ Len(p.seen) + p.reported <= p.config.maxTracked
    /\ p.assigned \subseteq IdsOf(p.seen)
    /\ \A n \in DOMAIN p.live : LET e == p.live[n] IN
          /\ \E m \in DOMAIN p.seen : p.seen[m].id = e.id /\ p.seen[m].status # DROPPED
          /\ e.stream \in DOMAIN p.maxSeen /\ e.time <= p.maxSeen[e.stream]
    /\ p.closed => p.live = <<>>

\* What from_checkpoint checks of it besides.
AlignerRestoreAdmitted(c, p) ==
    /\ CheckpointAdmitted(p)
    /\ p.config = c
    /\ p.nextIndex <= c.maxWindows
    /\ \A n \in DOMAIN p.live : \E m \in DOMAIN p.seen :
          p.seen[m].id = p.live[n].id /\ p.seen[m].horizon = EventHorizon(p.live[n])

\* The index is built again from the live events.
RestoredIndex(c, p) ==
    Prune(FoldLeft(LAMBDA index, e : With(index, LAMBDA i : Insert(c, i, e)), EmptyIndex, p.live),
          p.nextIndex)

\* from_checkpoint, of an admitted checkpoint.
AlignerRestored(c, p) ==
    [index |-> RestoredIndex(c, p), nextIndex |-> p.nextIndex, maxSeen |-> p.maxSeen,
     seen |-> p.seen, assigned |-> p.assigned, dropped |-> p.dropped,
     acceptedLate |-> p.acceptedLate, unassigned |-> p.unassigned,
     released |-> p.released, reported |-> p.reported, closed |-> p.closed]
=============================================================================
