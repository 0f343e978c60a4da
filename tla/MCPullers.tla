------------------------------ MODULE MCPullers ------------------------------
(***************************************************************************)
(* The library's two programs that pull a source, of which a run uses one. *)
(* run_file_journal, over a file of four records whose waves are also      *)
(* limited by size: either two runners with different caps and batch       *)
(* sizes, dying and losing replies, or one runner and two publishers, the  *)
(* second of its journal or of another one; the second record has no rows, *)
(* so that a generation advances and the file need not.  And the pull      *)
(* helpers of one session, over a source of three records.                 *)
(***************************************************************************)
EXTENDS FilePublication

VARIABLES output, closed, phase, cancelled, lease, place, values, exhausted, left, ending,
          since, taken, breaks

MCWeight == <<1, 2, 1, 1>>
MCRowsUpTo == [n \in 0 .. 4 |-> <<0, 2, 2, 3, 4>>[n + 1]]
MCCap == [r \in Runner |-> IF r = 1 THEN 3 ELSE 2]
MCBatchSize == [r \in Runner |-> IF r = 1 THEN 2 ELSE 3]

Nobody == [runners |-> {}, publishers |-> {}, faults |-> 0]

MCCrews == {[runners |-> Runner, publishers |-> {}, faults |-> MaxFaults],
            [runners |-> {1}, publishers |-> {1, 2}, faults |-> 0],
            [runners |-> {1}, publishers |-> {1, 3}, faults |-> 0],
            Nobody}

\* One helper has room for the whole source; one takes two records, which may be
\* the last, and owns its iterator.
MCHelper == {1, 2}
MCPullCap == <<4, 2>>

Pulls == INSTANCE PullHelper WITH
    Helper <- MCHelper, SourceLength <- 3, PullCap <- MCPullCap, PullSize <- <<2, 2>>,
    Owning <- {2}, MaxBreaks <- 2

ASSUME Pulls!PullConstants

PullersInit == PublicationInit /\ Pulls!PullInit

PullersNext ==
    \/ crew # Nobody /\ PublicationNext /\ UNCHANGED <<output, closed, phase, cancelled, lease, place, values,
                                                      exhausted, left, ending, since, taken, breaks>>
    \/ crew = Nobody /\ Pulls!PullNext /\ UNCHANGED allVars

PullersSpec ==
    /\ PullersInit /\ [][PullersNext]_<<allVars, Pulls!pullVars>>
    /\ PublicationFairness
    /\ Pulls!PullFairness

(***************************************************************************)
(* Whoever pulls, in however many calls, sessions and processes, what was  *)
(* published is a prefix of the source: each record once and in order, the *)
(* end only where it is.  JournalIsFilePrefix says it of runners that race *)
(* and die, PullIsExact of helpers that share a session with the code that *)
(* called them.                                                            *)
(***************************************************************************)
SourceIsPrefix == JournalIsFilePrefix /\ Pulls!PullIsExact

(***************************************************************************)
(* What a caller is told is what happened: a published request is never    *)
(* answered by an exception because its reply was lost, and a wave that is *)
(* yielded is committed before anything more is taken from the source.     *)
(***************************************************************************)
NothingIsLost == LostReplyIsReconciled /\ Pulls!YieldsAreCommitted

(***************************************************************************)
(* Every call of a runner or a publisher ends, whatever other processes do *)
(* and also while another process keeps the lock for ever; every resumed   *)
(* helper yields or ends.                                                  *)
(***************************************************************************)
EveryCallEnds == CallsEnd /\ Pulls!HelperReturns

(***************************************************************************)
(* If their owners call again, runners close the journal and publishers    *)
(* have every row in the file (FileCatchesUp).                             *)
(***************************************************************************)
CallersCatchUp == crew # Nobody => FileCatchesUp
=============================================================================
