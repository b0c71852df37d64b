------------------------------ MODULE MCMounts ------------------------------
(* Instances of Mounts: clients in processes of their own. *)
EXTENDS Mounts, TLC

CONSTANTS c1, c2

Separate == [c \in Client |-> c]
Interchangeable == Permutations(Client)

\* After a crash one client at a time reads the layer through Changes or Diff,
\* and after a failing mount or a Shutdown only while no other call is running.
FewReadersAfterEvent ==
    LET reading == {c \in Client : call[c] \in {"Changes", "DiffTarSplit"}} IN
    \/ events = 0 \/ reading = {}
    \/ "crash" \in happened /\ Cardinality(reading) = 1
    \/ Cardinality({c \in Client : pc[c] # "idle"}) = 1

=============================================================================
