------------------------------ MODULE MCOverlay ------------------------------
(* Instances of Overlay for TLC. *)
EXTENDS Overlay

CONSTANTS base, child

\* A layer on top of a base layer, which is on one of an additional image store.
TwoChain == {[x \in {base, child} |-> IF x = child THEN base ELSE Shared]}

LinkNames == 1..3

\* Of the names a new link may get, only their order matters to recreateSymlinks.
OrderedLinks ==
  At("symlink") /\ symlink' # symlink =>
       LET fresh == {l \in Links : symlink[l] = None} \ Named IN
       call'.i \in {Max(fresh), Min(fresh)}
\* The additional layer store and the staging directory are used in turn.
InTurn == staging = None \/ (~handle /\ alRefs = 0)
=============================================================================
