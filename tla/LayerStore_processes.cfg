SPECIFICATION Spec
CONSTANTS
    Proc = {c1, c2}
    Client = {c1, c2}
    ProcOf <- Separate
    Object = {1, 2, 3, 4}
    Layer = {l1, l2, l3}
    Calls = {"Put", "Get", "mount"}
    Faults = {"apply", "remove", "write", "crash"}
    MaxFaults = 2
    None = None
SYMMETRY Symmetric
CONSTRAINTS FewAfterWrite ThirdAlone MountFewLayers AloneAfterFaults
INVARIANT RecordsMatchData
PROPERTY OnlyDeleteRemoves
