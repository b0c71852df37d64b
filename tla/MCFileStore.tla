---------------------------- MODULE MCFileStore -----------------------------
(***************************************************************************)
(* Instances of FileStore: two processes, the first with two goroutines.   *)
(***************************************************************************)
EXTENDS FileStore, TLC

CONSTANTS p1, p2, g1, g2, g3

MCProcOf == g1 :> p1 @@ g2 :> p1 @@ g3 :> p2

images(faults) == [checksMtime |-> FALSE, faults |-> faults]
layers(faults) == [checksMtime |-> TRUE, faults |-> faults]

\* What the stores are meant to cope with.
Sound == {images({}), layers({"crash", "touch"})}

=============================================================================
