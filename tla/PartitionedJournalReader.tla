---------------------- MODULE PartitionedJournalReader ----------------------
(***************************************************************************)
(* Readers of the output table, next to the sessions that append to it: a  *)
(* reader captures a cursor (a fixed prefix of the output) and pages       *)
(* through it with one short read transaction per page, in between which   *)
(* the journal moves on.                                                   *)
(***************************************************************************)
EXTENDS PartitionedJournal

CONSTANTS
    Reader,
    PageLimit  \* the page limits a reader may pass

ASSUME ReaderAssumption == PageLimit \subseteq Nat \ {0}

VARIABLES
    cursor,  \* the cursor each reader holds
    got,     \* the rows its pages have returned since the capture
    origin   \* the start it asked for

readerVars == <<cursor, got, origin>>
allVars == <<vars, readerVars>>

\* The anchor of a prefix: its receipt, or the initial head.
AnchorOf(generation) ==
    IF generation = 0 THEN InitialPoint ELSE commits[generation]

StopOf(generation) ==
    IF generation = 0 THEN 0 ELSE OutputStop(commits[generation])

ReaderInit ==
    /\ Init
    /\ cursor = [r \in Reader |-> None]
    /\ got = [r \in Reader |-> <<>>]
    /\ origin = [r \in Reader |-> 0]

\* Deviation: the cursor's stop is taken from the source position.
CaptureAtPosition(r, start) ==
    /\ cursor[r] = None
    /\ start <= head.checkpoint.next
    /\ cursor' = [cursor EXCEPT ![r] =
                    [anchor |-> head.generation, digest |-> AnchorOf(head.generation),
                     stop |-> head.checkpoint.next, next |-> start]]
    /\ got' = [got EXCEPT ![r] = <<>>]
    /\ origin' = [origin EXCEPT ![r] = start]
    /\ UNCHANGED vars

\* output_cursor(start): one read transaction; a start beyond the end is refused.
CaptureCursor(r, start) ==
    /\ cursor[r] = None
    /\ start <= head.checkpoint.emitted
    /\ cursor' = [cursor EXCEPT ![r] =
                    [anchor |-> head.generation, digest |-> AnchorOf(head.generation),
                     stop |-> head.checkpoint.emitted, next |-> start]]
    /\ got' = [got EXCEPT ![r] = <<>>]
    /\ origin' = [origin EXCEPT ![r] = start]
    /\ UNCHANGED vars

(***************************************************************************)
(* What read_outputs verifies of a cursor, of a row and of two rows that   *)
(* follow each other, also across a page boundary.                         *)
(***************************************************************************)
CursorAdmitted(c) ==
    /\ c.anchor <= head.generation
    /\ c.anchor > 0 => ChainHolds(c.anchor)
    /\ c.stop = StopOf(c.anchor)
    /\ c.digest = AnchorOf(c.anchor)

RowAdmitted(c, i) ==
    LET row == outputs[i]
        receipt == commits[row.generation]
    IN  /\ row.generation <= c.anchor
        /\ ChainHolds(row.generation)
        /\ receipt.request.cause = "wave"
        /\ OutputStart(receipt) < i /\ i <= OutputStop(receipt)
        /\ receipt.before.checkpoint.next <= row.output.position
        /\ row.output.position < receipt.after.checkpoint.next
        /\ i = OutputStart(receipt) + 1 => row.output.ordinal = 0

Follows(x, y) ==
    /\ x.generation <= y.generation
    /\ \/ /\ x.output.position = y.output.position
          /\ x.generation = y.generation
          /\ y.output.ordinal = x.output.ordinal + 1
          /\ y.output.key = x.output.key
       \/ /\ x.output.position < y.output.position
          /\ y.output.ordinal = 0

PageAdmitted(c, n) ==
    /\ CursorAdmitted(c)
    /\ c.next + n <= Len(outputs)
    /\ \A i \in c.next .. c.next + n : i > 0 => RowAdmitted(c, i)
    /\ \A i \in c.next .. c.next + n - 1 : i > 0 => Follows(outputs[i], outputs[i + 1])

\* Deviation: the row before the stop is taken for the stop.
PageSizesBeforeStop(c, limit) ==
    IF c.stop - c.next <= 1 THEN {0} ELSE {n \in 1 .. limit : n < c.stop - c.next}

\* The sizes a page can have: byte and metadata admission may cut it short.  A
\* call that admits not even the next row raises and leaves the cursor, which is
\* no step of the model.
PageSizes(c, limit) ==
    IF c.next = c.stop THEN {0} ELSE {n \in 1 .. limit : n <= c.stop - c.next}

ReadPage(r) ==
    LET c == cursor[r] IN
    /\ c # None
    /\ \E limit \in PageLimit : \E n \in PageSizes(c, limit) :
          /\ PageAdmitted(c, n)
          /\ got' = [got EXCEPT ![r] = @ \o SubSeq(outputs, c.next + 1, c.next + n)]
          /\ cursor' = [cursor EXCEPT ![r] = [c EXCEPT !.next = @ + n]]
    /\ UNCHANGED <<vars, origin>>

\* The reader drops its cursor, to capture another one.
Discard(r) ==
    /\ cursor[r] # None
    /\ cursor[r].next = cursor[r].stop
    /\ cursor' = [cursor EXCEPT ![r] = None]
    /\ got' = [got EXCEPT ![r] = <<>>]
    /\ origin' = [origin EXCEPT ![r] = 0]
    /\ UNCHANGED vars

ReaderNext ==
    \/ Next /\ UNCHANGED readerVars
    \/ \E r \in Reader :
          \/ \E start \in 0 .. MaxHistory : CaptureCursor(r, start)
          \/ ReadPage(r)
          \/ Discard(r)

\* Readers page on, and the owners of the sessions go on as in FairSpec.
ReaderSpec ==
    /\ ReaderInit /\ [][ReaderNext]_allVars
    /\ \A r \in Reader : WF_allVars(ReadPage(r))
    /\ \A s \in Session : WF_allVars(Step(s) /\ UNCHANGED readerVars)

-----------------------------------------------------------------------------

(***************************************************************************)
(* A captured cursor stays readable for ever: however far the journal has  *)
(* moved on, no page of any size is refused as corrupt.                    *)
(***************************************************************************)
CursorStaysReadable ==
    \A r \in Reader : cursor[r] # None =>
        PageAdmitted(cursor[r], cursor[r].stop - cursor[r].next)

(***************************************************************************)
(* A prefix ends between waves: it contains all rows of an input or none.  *)
(***************************************************************************)
PrefixHoldsWholeWaves ==
    \A r \in Reader : cursor[r] # None =>
        \A i \in DOMAIN outputs : \A k \in DOMAIN outputs :
            (i <= cursor[r].stop /\ cursor[r].stop < k) =>
                outputs[i].output.position < outputs[k].output.position

(***************************************************************************)
(* The rows a reader has collected from its pages are exactly the prefix   *)
(* it asked for, each once and in order, whatever was appended meanwhile;  *)
(* the rest of it can be read, and it ends between waves.                  *)
(***************************************************************************)
PagesArePrefix ==
    /\ CursorStaysReadable /\ PrefixHoldsWholeWaves
    /\ \A r \in Reader : cursor[r] # None =>
          got[r] = SubSeq(outputs, origin[r] + 1, cursor[r].next)

(***************************************************************************)
(* Paging ends, although writers keep appending: no page before the stop   *)
(* is empty.                                                               *)
(***************************************************************************)
PagingEnds ==
    \A r \in Reader :
        (cursor[r] # None) ~> (cursor[r] # None /\ cursor[r].next = cursor[r].stop)
=============================================================================
