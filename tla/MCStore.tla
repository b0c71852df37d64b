------------------------------ MODULE MCStore -------------------------------
(* The store with a few IDs. *)
EXTENDS Store, TLC

Symmetric == Permutations(Layer) \cup Permutations(Image) \cup Permutations(Container)

\* Bounds on what is explored with two containers or once Delete has been
\* called, and once an image has been made of a layer that is something else's.
FewTogether ==
    /\ "Delete" \in used \/ Cardinality(containers) = 2 =>
          Cardinality(layers) <= 3 /\ Cardinality(images) <= 1
    /\ used \cap Odd # {} =>
          /\ Cardinality(layers) <= 3 /\ Cardinality(containers) <= 1
          /\ Cardinality(used) = 1

=============================================================================
