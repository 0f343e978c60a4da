----------------------------- MODULE Subsequence -----------------------------
(***************************************************************************)
(* The elements of a sequence that are in a set, in order, as a function   *)
(* of the prefix read so far, so that proofs can follow it.                *)
(***************************************************************************)
EXTENDS Naturals, Sequences

Filtered(seq, set) ==
    LET upTo[n \in 0 .. Len(seq)] ==
            IF n = 0 THEN <<>>
            ELSE IF seq[n] \in set THEN Append(upTo[n - 1], seq[n])
            ELSE upTo[n - 1]
    IN  upTo[Len(seq)]
=============================================================================
