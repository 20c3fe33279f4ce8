------------------------------- MODULE Selection -------------------------------
(* SelectSeq for a set instead of a test: the form the proofs can reason about. *)
EXTENDS Integers, Sequences

\* The members of a sequence that are in a set, in their order.
Selected(s, set) ==
  LET upTo[n \in 0..Len(s)] ==
        IF n = 0 THEN <<>>
        ELSE IF s[n] \in set THEN Append(upTo[n - 1], s[n]) ELSE upTo[n - 1]
  IN upTo[Len(s)]
=============================================================================
