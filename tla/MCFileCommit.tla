---------------------------- MODULE MCFileCommit ----------------------------
(* FileCommit on small instances.                                           *)
EXTENDS FileCommit

CONSTANTS c1, c2, x, y, i1, i2
=============================================================================
