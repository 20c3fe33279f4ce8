------------------------- MODULE MCMermaidRenderer -------------------------
(* MermaidRenderer on small instances.                                      *)
EXTENDS MermaidRenderer

CONSTANTS s1, s2, s3

InOrder == <<s1, s2, s3>>

\* The three pictures do not fit the cache together.
Costs == [s \in Sources |-> IF s = s3 THEN 2 ELSE 1]

\* Each fits the cache.
Two == <<{s1, s2}, {s2, s3}>>
=============================================================================
