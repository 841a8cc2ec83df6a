---------------------------- MODULE HandlerLists ----------------------------
(* What JqCallbacks and JqEvents do with the lists that they keep.         *)
EXTENDS Integers, Sequences, FiniteSets

\* the items of seq that are in S, in their order
Only(seq, S) ==
    LET F[k \in 0 .. Len(seq)] ==
            IF k = 0 THEN << >>
            ELSE IF seq[k] \in S THEN Append(F[k - 1], seq[k]) ELSE F[k - 1]
    IN F[Len(seq)]

\* the sequences in seqs, one after the other
Joined(seqs) ==
    LET F[k \in 0 .. Len(seqs)] == IF k = 0 THEN << >> ELSE F[k - 1] \o seqs[k]
    IN F[Len(seqs)]
=============================================================================
