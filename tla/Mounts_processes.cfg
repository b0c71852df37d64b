SPECIFICATION Spec
CONSTANTS
    c1 = c1
    c2 = c2
    Proc = {c1, c2}
    Client = {c1, c2}
    ProcOf <- Separate
    Object = {1, 2}
    Call = {"Mount", "Unmount", "Mounted", "Changes", "DiffTarSplit", "Save", "Shutdown"}
    Faults = {"crash", "mount", "unmount"}
    MaxHolds = 1
    MaxEvents = 1
    MaxCtr = 1
    None = None
SYMMETRY Interchangeable
CONSTRAINT FewReadersAfterEvent
INVARIANT MountedAsHeld
INVARIANT CountsAgree
INVARIANT NoDeadlock
