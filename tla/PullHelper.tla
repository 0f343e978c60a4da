------------------------------ MODULE PullHelper ------------------------------
(***************************************************************************)
(* LocalPartitionedFlow.run: generators that pull a caller's iterator into *)
(* committed waves.  One thread owns the session, but its code runs in     *)
(* many places: between two waves, while a helper is suspended at a yield, *)
(* and inside the iterator that a helper is calling.  The lease keeps      *)
(* whatever runs there from moving the source position.  Another thread    *)
(* may cancel.  A wave is atomic here; LocalWorkerPool opens it.           *)
(***************************************************************************)
EXTENDS Integers, Sequences, SequencesExt, FiniteSetsExt

CONSTANTS
    Helper,       \* the generators a session's owner creates
    SourceLength,  \* the records of the source; a record is its position
    PullCap,      \* max_inputs of each helper
    PullSize,     \* batch_size of each helper
    Owning,       \* the helpers that own their source
    MaxBreaks     \* bound on failing iterators and workers

Unleased == 0

\* What a caller may ask for.
PullConstants ==
    /\ Unleased \notin Helper
    /\ SourceLength \in Nat
    /\ PullCap \in [Helper -> Nat \ {0}] /\ PullSize \in [Helper -> Nat \ {0}]
    /\ Owning \subseteq Helper
    /\ MaxBreaks \in Nat

VARIABLES
    output,     \* the records of all published waves, in order
    closed,     \* who closed the source: "nobody", "helper" or "caller"
    phase,
    cancelled,
    lease,      \* _pull_owner
    place,      \* where each generator is
    values,     \* the records it pulled for its next wave
    exhausted,  \* whether it saw the end of its iterator
    left,       \* what remains of max_inputs
    ending,     \* how it ended
    since,      \* history: the source position at which it took the lease
    taken,      \* the records the source has handed out
    breaks

pullVars == <<output, closed, phase, cancelled, lease, place, values, exhausted, left, ending,
              since, taken, breaks>>

sessionVars == <<output, closed, phase, cancelled, lease>>

helperVars == <<place, values, exhausted, left, ending, since>>

-----------------------------------------------------------------------------

Position == Len(output)

\* Between its start and its end a helper holds the lease.
Calling == {"open", "next", "close"}
Computing == {"ask", "wave", "eof"}
Holding == Calling \cup Computing \cup {"suspended"}

\* The owner's code runs unless a helper is at work outside its iterator.
OwnerRuns == \A h \in Helper : place[h] \notin Computing

\* The _operation of a method other than the lease holder's.
Operable == lease = Unleased /\ phase = "ready"

FreshHelpers ==
    /\ place = [h \in Helper |-> "new"]
    /\ values = [h \in Helper |-> <<>>]
    /\ exhausted = [h \in Helper |-> FALSE]
    /\ left = PullCap
    /\ ending = [h \in Helper |-> "none"]
    /\ since = [h \in Helper |-> 0]

PullInit ==
    /\ output = <<>> /\ closed = "nobody"
    /\ phase = "ready" /\ cancelled = FALSE /\ lease = Unleased
    /\ FreshHelpers
    /\ taken = 0 /\ breaks = 0

MoveHelper(h, where) == place' = [place EXCEPT ![h] = where]

Break == breaks < MaxBreaks /\ breaks' = breaks + 1

\* The finally clause after an iterator exists: an owned one is closed first.
Finish(h, how) ==
    /\ ending' = [ending EXCEPT ![h] = how]
    /\ IF h \in Owning THEN MoveHelper(h, "close") /\ UNCHANGED lease
                       ELSE MoveHelper(h, "ended") /\ lease' = Unleased

\* A session that a pull helper may lease.
Leasable == Operable /\ ~ cancelled /\ closed = "nobody"

\* The first next() of a generator.  A caller starts one whose source stands
\* at the checkpoint.
StartHelper(h) ==
    /\ place[h] = "new" /\ OwnerRuns
    /\ Leasable /\ taken = Position
    /\ lease' = h /\ MoveHelper(h, "open")
    /\ since' = [since EXCEPT ![h] = Position]
    /\ UNCHANGED <<output, closed, phase, cancelled, values, exhausted, left, ending, taken, breaks>>

\* Deviation: a refused helper runs the finally clause that returns the lease.
RefuseAndRelease(h) ==
    /\ place[h] = "new" /\ OwnerRuns /\ ~ Leasable
    /\ MoveHelper(h, "ended")
    /\ ending' = [ending EXCEPT ![h] = "raised"]
    /\ lease' = Unleased
    /\ UNCHANGED <<output, closed, phase, cancelled, values, exhausted, left, since, taken, breaks>>

\* The refusal comes before the try whose finally returns the lease.
Refuse(h) ==
    /\ place[h] = "new" /\ OwnerRuns /\ ~ Leasable
    /\ MoveHelper(h, "ended")
    /\ ending' = [ending EXCEPT ![h] = "raised"]
    /\ UNCHANGED <<sessionVars, values, exhausted, left, since, taken, breaks>>

\* iter(records).
Opened(h) ==
    /\ place[h] = "open"
    /\ \/ MoveHelper(h, "ask") /\ UNCHANGED <<lease, ending, breaks>>
       \/ /\ Break  \* there is no iterator to close
          /\ MoveHelper(h, "ended") /\ lease' = Unleased
          /\ ending' = [ending EXCEPT ![h] = "raised"]
    /\ UNCHANGED <<output, closed, phase, cancelled, values, exhausted, left, since, taken>>

\* One turn of the inner loop, or of the outer one.
Ask(h) ==
    /\ place[h] = "ask"
    /\ CASE left[h] = 0 -> Finish(h, "returned")
         [] left[h] > 0 /\ Len(values[h]) = Min({left[h], PullSize[h]}) ->
                MoveHelper(h, "wave") /\ UNCHANGED <<lease, ending>>
         [] left[h] > 0 /\ Len(values[h]) < Min({left[h], PullSize[h]}) ->
                IF phase # "ready" \/ cancelled
                  THEN Finish(h, "raised")
                  ELSE MoveHelper(h, "next") /\ UNCHANGED <<lease, ending>>
    /\ UNCHANGED <<output, closed, phase, cancelled, values, exhausted, left, since, taken, breaks>>

\* next(iterator): a record, the end, or an exception.
NextReturns(h) ==
    /\ place[h] = "next" /\ taken < SourceLength
    /\ taken' = taken + 1
    /\ values' = [values EXCEPT ![h] = Append(@, taken + 1)]
    /\ MoveHelper(h, "ask")
    /\ UNCHANGED <<sessionVars, exhausted, left, ending, since, breaks>>

NextStops(h) ==
    /\ place[h] = "next" /\ taken = SourceLength
    /\ exhausted' = [exhausted EXCEPT ![h] = TRUE]
    /\ MoveHelper(h, IF values[h] = <<>> THEN "eof" ELSE "wave")
    /\ UNCHANGED <<sessionVars, values, left, ending, since, taken, breaks>>

NextRaises(h) ==
    /\ place[h] = "next"
    /\ Break
    /\ Finish(h, "raised")
    /\ UNCHANGED <<output, closed, phase, cancelled, values, exhausted, left, since, taken>>

\* process_batch: published as a whole, or the session has failed for good.
Wave(h) ==
    /\ place[h] = "wave"
    /\ IF phase # "ready"
         THEN Finish(h, "raised") /\ UNCHANGED <<output, phase, values, left, breaks>>
       ELSE \/ /\ ~ cancelled
               /\ output' = output \o values[h]
               /\ left' = [left EXCEPT ![h] = @ - Len(values[h])]
               /\ values' = [values EXCEPT ![h] = <<>>]
               /\ MoveHelper(h, "suspended")
               /\ UNCHANGED <<phase, lease, ending, breaks>>
            \/ /\ IF cancelled THEN UNCHANGED breaks ELSE Break
               /\ phase' = "failed"
               /\ Finish(h, "raised")
               /\ UNCHANGED <<output, values, left>>
    /\ UNCHANGED <<closed, cancelled, exhausted, since, taken>>

\* Deviation: a helper that was resumed takes the source for exhausted when it
\* has reached its cap.
ResumeAtCap(h) ==
    /\ place[h] = "suspended" /\ OwnerRuns
    /\ MoveHelper(h, IF exhausted[h] \/ left[h] = 0 THEN "eof" ELSE "ask")
    /\ UNCHANGED <<sessionVars, values, exhausted, left, ending, since, taken, breaks>>

\* The caller asks a helper for its next wave.
Resume(h) ==
    /\ place[h] = "suspended" /\ OwnerRuns
    /\ MoveHelper(h, IF exhausted[h] THEN "eof" ELSE "ask")
    /\ UNCHANGED <<sessionVars, values, exhausted, left, ending, since, taken, breaks>>

\* generator.close(): GeneratorExit at the yield, or nothing at all before the
\* first next().
CloseHelper(h) ==
    /\ OwnerRuns
    /\ \/ place[h] = "suspended" /\ Finish(h, "exited")
       \/ /\ place[h] = "new" /\ MoveHelper(h, "ended")
          /\ ending' = [ending EXCEPT ![h] = "exited"]
          /\ UNCHANGED lease
    /\ UNCHANGED <<output, closed, phase, cancelled, values, exhausted, left, since, taken, breaks>>

\* _close_source with the helper's own lease.
CloseAtEnd(h) ==
    /\ place[h] = "eof"
    /\ IF phase # "ready" \/ cancelled
         THEN Finish(h, "raised") /\ UNCHANGED closed
         ELSE Finish(h, "returned") /\ closed' = "helper"
    /\ UNCHANGED <<output, phase, cancelled, values, exhausted, left, since, taken, breaks>>

\* The iterator's close(), whatever it does, and the lease after it.
CloseIterator(h) ==
    /\ place[h] = "close"
    /\ MoveHelper(h, "ended") /\ lease' = Unleased
    /\ \/ UNCHANGED <<ending, breaks>>
       \/ Break /\ ending' = [ending EXCEPT ![h] = "raised"]
    /\ UNCHANGED <<output, closed, phase, cancelled, values, exhausted, left, since, taken>>

-----------------------------------------------------------------------------

\* The owner's own process_batch, of one record.
ProcessDirectly ==
    /\ OwnerRuns /\ Operable
    /\ closed = "nobody" /\ taken = Position /\ taken < SourceLength
    /\ taken' = taken + 1
    /\ \/ /\ ~ cancelled
          /\ output' = Append(output, taken + 1)
          /\ UNCHANGED <<phase, breaks>>
       \/ /\ IF cancelled THEN UNCHANGED breaks ELSE Break
          /\ phase' = "failed"
          /\ UNCHANGED output
    /\ UNCHANGED <<closed, cancelled, lease, helperVars>>

\* The owner's own close_source, wherever its source stands.
CloseDirectly ==
    /\ OwnerRuns /\ Operable /\ ~ cancelled /\ closed = "nobody"
    /\ closed' = "caller"
    /\ UNCHANGED <<output, phase, cancelled, lease, helperVars, taken, breaks>>

\* The owner positions its source again after a failure.
Seek ==
    /\ OwnerRuns /\ lease = Unleased /\ taken # Position
    /\ taken' = Position
    /\ UNCHANGED <<sessionVars, helperVars, breaks>>

\* cancel(), from any thread.
CancelPulls ==
    /\ ~ cancelled
    /\ cancelled' = TRUE
    /\ UNCHANGED <<output, closed, phase, lease, helperVars, taken, breaks>>

\* close(), also from inside an iterator and while a helper is suspended.
CloseSession ==
    /\ OwnerRuns /\ phase # "closed"
    /\ phase' = "closed"
    /\ UNCHANGED <<output, closed, cancelled, lease, helperVars, taken, breaks>>

\* Another session, from the last checkpoint; nothing that ran over the old
\* one has anything to do with it.
Reopen ==
    /\ phase # "ready" \/ cancelled
    /\ \A h \in Helper : place[h] \in {"new", "suspended", "ended"}
    /\ phase' = "ready" /\ cancelled' = FALSE /\ lease' = Unleased
    /\ taken' = Position
    /\ place' = [h \in Helper |-> "new"]
    /\ values' = [h \in Helper |-> <<>>]
    /\ exhausted' = [h \in Helper |-> FALSE]
    /\ left' = PullCap
    /\ ending' = [h \in Helper |-> "none"]
    /\ since' = [h \in Helper |-> 0]
    /\ UNCHANGED <<output, closed, breaks>>

HelperRuns(h) ==
    \/ Opened(h) \/ Ask(h) \/ NextReturns(h) \/ NextStops(h) \/ NextRaises(h)
    \/ Wave(h) \/ CloseAtEnd(h) \/ CloseIterator(h)

OwnerCalls ==
    \/ \E h \in Helper : StartHelper(h) \/ Refuse(h) \/ Resume(h) \/ CloseHelper(h)
    \/ ProcessDirectly \/ CloseDirectly \/ Seek \/ CloseSession \/ Reopen

PullNext == (\E h \in Helper : HelperRuns(h)) \/ OwnerCalls \/ CancelPulls

\* A started helper goes on, and the iterator it calls returns.
PullFairness == \A h \in Helper : WF_pullVars(HelperRuns(h))

PullSpec == PullInit /\ [][PullNext]_pullVars /\ PullFairness

-----------------------------------------------------------------------------

\* Every variable has its type.
PullTypes ==
    /\ output \in Seq(1 .. SourceLength)
    /\ closed \in {"nobody", "helper", "caller"}
    /\ phase \in {"ready", "failed", "closed"} /\ cancelled \in BOOLEAN
    /\ lease \in Helper \cup {Unleased}
    /\ place \in [Helper -> Holding \cup {"new", "ended"}]
    /\ values \in [Helper -> Seq(1 .. SourceLength)]
    /\ exhausted \in [Helper -> BOOLEAN]
    /\ left \in [Helper -> Nat] /\ \A h \in Helper : left[h] \in 0 .. PullCap[h]
    /\ ending \in [Helper -> {"none", "returned", "exited", "raised"}]
    /\ since \in [Helper -> 0 .. SourceLength]
    /\ taken \in 0 .. SourceLength /\ breaks \in 0 .. MaxBreaks

\* The lease is held by the one helper that has started and not ended, whoever
\* else was refused, and however it ends.
LeaseIsExact ==
    \A h \in Helper : (lease = h) = (place[h] \in Holding)

\* While a helper holds the lease, nobody else moves the position or closes
\* the source, also not from inside its iterator.
HolderMovesAlone ==
    \A h \in Helper : lease = h =>
        /\ Position = since[h] + PullCap[h] - left[h]
        /\ closed # "nobody" => closed = "helper" /\ place[h] = "close"

\* Every published record is the source's next, and the helpers close it only
\* at its end.
PulledInOrder ==
    /\ output = [n \in 1 .. Position |-> n]
    /\ closed = "helper" => Position = SourceLength

\* What a helper took out of the source and did not publish is its next wave.
PullsOneWave ==
    \A h \in Helper : place[h] \in {"ask", "next", "wave"} =>
        taken = Position + Len(values[h])

PullIsExact ==
    PullTypes /\ LeaseIsExact /\ HolderMovesAlone /\ PulledInOrder /\ PullsOneWave

\* Nothing was pulled ahead when a helper yields, is closed or returns; one
\* that returns has closed the source or has pulled its cap.
YieldsAreCommitted ==
    [][\A h \in Helper :
          place[h] \in Holding /\ place'[h] # place[h] =>
              /\ place'[h] = "suspended" \/ (place'[h] = "ended" /\ ending'[h] \in {"returned", "exited"})
                    => taken' = Position'
              /\ place'[h] = "ended" /\ ending'[h] = "returned" => closed' = "helper" \/ left'[h] = 0]_pullVars

\* A helper that was resumed yields again or ends.
HelperReturns ==
    \A h \in Helper : place[h] \in Calling \cup Computing ~> place[h] \in {"suspended", "ended", "new"}
=============================================================================
