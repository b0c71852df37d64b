SPECIFICATION Spec
CONSTANTS
    Layer = {l1, l2}
    Image = {i1}
    Container = {c1}
    Mapping = {m1, m2}
    Usage = {"deleteByName"}
    Faults = {}
    None = None
SYMMETRY Symmetric
INVARIANTS
    DeleteLayerKeepsTopLayers
