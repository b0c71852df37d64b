----------------------------- MODULE MCRecords -----------------------------
(***************************************************************************)
(* A store of each kind with two records, two digests and two processes.   *)
(***************************************************************************)
EXTENDS Records, TLC

CONSTANTS p1, p2, i1, i2, n1, d1, d2, manifest

Symmetric == Permutations({p1, p2}) \cup Permutations({i1, i2}) \cup Permutations({d1, d2})
=============================================================================
