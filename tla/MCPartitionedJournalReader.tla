--------------------- MODULE MCPartitionedJournalReader ---------------------
(***************************************************************************)
(* A small instance of PartitionedJournalReader for TLC.                   *)
(***************************************************************************)
EXTENDS PartitionedJournalReader

CONSTANTS k1, k2, ra, rb, q1, q2

MCRecord == {ra, rb}
MCKeyOf == [r \in MCRecord |-> IF r = rb THEN k2 ELSE k1]
MCRowsOf == [r \in MCRecord |-> IF r = rb THEN 2 ELSE 1]
MCRouteOf == [k \in {k1, k2} |-> IF k = k1 THEN 1 ELSE 0]

MCRequest(id, expected, cause, start, records) ==
    [id |-> id, journal |-> ThisJournal, expected |-> expected, cause |-> cause,
     start |-> start, records |-> records]

\* What two sessions submit: a first wave, and under one identifier a second
\* wave or an EOF, any of them too early, too late or once more.
MCSubmitted ==
    {MCRequest(q1, 0, "wave", 0, <<ra, rb>>),
     MCRequest(q2, 1, "wave", 2, <<rb>>),
     MCRequest(q2, 1, "eof", 2, <<>>)}
=============================================================================
