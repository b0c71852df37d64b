SPECIFICATION Spec
CONSTANTS
    Proc = {p1}
    Client = {c1, c2}
    ProcOf <- Together
    Object = {1, 2, 3}
    Layer = {l1}
    Calls = {"Put", "Get", "mount"}
    Faults = {}
    MaxFaults = 0
    None = None
SYMMETRY Symmetric
INVARIANT NotRemovedWhileWritten
