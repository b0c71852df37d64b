---------------------------- MODULE MCLayerStore ----------------------------
(* Instances of LayerStore: clients in processes of their own, or in one. *)
EXTENDS LayerStore, TLC

Separate == [c \in Client |-> c]
Together == [c \in Client |-> CHOOSE p \in Proc : TRUE]

Symmetric == Permutations(Client) \cup Permutations(Layer)

\* Little is promised after a failing write: no second fault then.
FewAfterWrite == "write" \in happened => faults = 1

\* The layers that somebody or something has a trace of.
Used ==
    ids(file) \cup {l \in Layer : data[l] # "none"} \cup UNION {ids(layers[o]) : o \in Object}

\* A third layer matters to Load's loop, after crashes in Put, and not to how
\* calls interleave: it is there only while one process is at work, on layers
\* without parents.
ThirdAlone ==
    Cardinality(Used) > 2 =>
        /\ happened \subseteq {"crash"}
        /\ Cardinality({p \in Proc : layerStore[p] # None \/ \E c \in Of(p) : pc[c] # "idle"}) <= 1
        /\ \A o \in Object : \A r \in Range(layers[o]) : r.parent = None

\* A mount makes its process forget a layerStore, whatever is in it.
MountFewLayers ==
    (\E c \in Client : call[c] = "mount") => Cardinality(Used) <= 1

\* When no more faults are left, somebody is idle: calls run alone.
AloneAfterFaults == faults = MaxFaults => \E c \in Client : pc[c] = "idle"

=============================================================================
