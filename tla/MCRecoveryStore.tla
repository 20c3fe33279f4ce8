--------------------------- MODULE MCRecoveryStore ---------------------------
(* RecoveryStore on small instances.                                        *)
EXTENDS RecoveryStore

CONSTANTS a, b, c

\* Nothing, or two records of b and one of a, the displaced file of b with them;
\* the records moved to c once have been discarded.
SmallStored ==
  {[entries |-> {}, raws |-> {}, generations |-> [k \in {a, b, c} |-> 0]],
   [entries |-> {[id |-> 1, key |-> b], [id |-> 2, key |-> b], [id |-> 3, key |-> a]},
    raws |-> {[id |-> b, key |-> b]},
    generations |-> [k \in {a, b, c} |-> IF k = b THEN 3 ELSE IF k = a THEN 1 ELSE 2]]}
=============================================================================
