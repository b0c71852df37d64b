----------------------------- MODULE MCLockfile -----------------------------
(***************************************************************************)
(* Instances of Lockfile: two processes, the first with two goroutines.    *)
(***************************************************************************)
EXTENDS Lockfile, TLC

CONSTANTS p1, p2, g1, g2, g3

MCProcOf == g1 :> p1 @@ g2 :> p1 @@ g3 :> p2

=============================================================================
