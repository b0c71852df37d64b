SPECIFICATION Spec
CONSTANTS
    Layer = {l1, l2, l3, l4}
    Image = {i1, i2}
    Container = {c1, c2}
    Mapping = {m1, m2}
    Usage = {"Wipe", "Delete"}
    Faults = {"crash", "driver", "save", "reload"}
    None = None
SYMMETRY Symmetric
CONSTRAINT FewTogether
INVARIANT NothingDangles
INVARIANT LayersInPlace
INVARIANT Reclaimable
