------------------------------ MODULE Alignment ------------------------------
(***************************************************************************)
(* What an aligner promises for a prefix of its arrivals, told without an  *)
(* index, a retention policy, a batch or a checkpoint: every arrival is    *)
(* remembered with its fate and the first window that was open when it     *)
(* came, and a window is whatever of them overlaps it and found it open.   *)
(***************************************************************************)
EXTENDS WatermarkAligner

Accepted(arrivals) == {n \in DOMAIN arrivals : arrivals[n].fate # "dropped"}

\* The last time of each stream, over the arrivals that were accepted.
LastSeen(arrivals) ==
    [s \in {arrivals[n].event.stream : n \in Accepted(arrivals)} |->
       LET times == {arrivals[n].event.time :
                       n \in {m \in Accepted(arrivals) : arrivals[m].event.stream = s}}
       IN  CHOOSE t \in times : \A u \in times : u <= t]

\* The windows a watermark has closed, and those a flush closes.
ClosedBy(c, arrivals) ==
    IF ~ HasWatermark(c, LastSeen(arrivals)) THEN 0
    ELSE Cardinality({i \in 0 .. c.maxWindows :
                        WindowEnd(c, i) <= Watermark(c, LastSeen(arrivals))})

FlushedBy(c, arrivals) ==
    Cardinality({i \in 0 .. c.maxWindows :
                   \E n \in Accepted(arrivals) : WindowStart(c, i) < EventHorizon(arrivals[n].event)})

\* The fate of an event that arrives when `next` is the first open window.
Fate(c, e, next) ==
    CASE EventHorizon(e) <= WindowStart(c, next) -> "dropped"
      [] EventHorizon(e) > WindowStart(c, next) /\ next > 0 /\ e.time < WindowEnd(c, next - 1) ->
           IF c.latePolicy = "accept" THEN "late" ELSE "dropped"
      [] OTHER -> "on time"

\* The first n arrivals of a source, each with its fate.
Arrivals(c, source, n) ==
    LET Arrive(arrivals, e) ==
          With(ClosedBy(c, arrivals), LAMBDA next :
               Append(arrivals, [event |-> Shifted(c, e), from |-> next,
                                 fate |-> Fate(c, Shifted(c, e), next)]))
    IN  FoldLeft(Arrive, <<>>, SubSeq(source, 1, n))

ClosedCount(c, arrivals, flushed) ==
    IF flushed /\ FlushedBy(c, arrivals) > ClosedBy(c, arrivals)
      THEN FlushedBy(c, arrivals)
      ELSE ClosedBy(c, arrivals)

Members(c, arrivals, i) ==
    {arrivals[n].event : n \in {m \in Accepted(arrivals) :
        arrivals[m].from <= i /\ Overlaps(arrivals[m].event, WindowStart(c, i), WindowEnd(c, i))}}

IsWindow(c, arrivals, w) ==
    /\ ToSet(w.events) = Members(c, arrivals, w.index)
    /\ Len(w.events) = Cardinality(ToSet(w.events))
    /\ \A n \in DOMAIN w.events : n > 1 => Before(w.events[n - 1], w.events[n])
    /\ ToSet(w.missing) = {s \in ToSet(c.required) : \A e \in Members(c, arrivals, w.index) :
                                                        e.stream # s}

\* The identifiers of the arrivals that satisfy a condition, in order.
IdsWhere(arrivals, Cond(_)) ==
    LET chosen == SelectSeq(arrivals, Cond)
    IN  [n \in DOMAIN chosen |-> chosen[n].event.id]

\* An aligner, or what a checkpoint restores, agrees with its arrivals.
Agrees(c, a, arrivals) ==
    LET closed == ClosedCount(c, arrivals, a.closed)
        Unassigned(x) == /\ x.fate # "dropped"
                         /\ \A i \in 0 .. closed - 1 : x.event \notin Members(c, arrivals, i)
    IN  /\ a.nextIndex = closed
        /\ a.maxSeen = LastSeen(arrivals)
        /\ a.dropped = IdsWhere(arrivals, LAMBDA x : x.fate = "dropped")
        /\ a.acceptedLate = IdsWhere(arrivals, LAMBDA x : x.fate = "late")
        /\ UnassignedIds(a) = IdsWhere(arrivals, Unassigned)
        /\ a.released + Len(a.seen) = Len(arrivals)
=============================================================================
