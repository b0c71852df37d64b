SPECIFICATION Spec
CONSTANTS
    p1 = p1
    p2 = p2
    g1 = g1
    g2 = g2
    g3 = g3
    Proc = {p1, p2}
    Goroutine = {g1, g2, g3}
    ProcOf <- MCProcOf
    Item = {"a", "b"}
    Setups <- Sound
    MaxOps = 4
CHECK_DEADLOCK FALSE
INVARIANT Inv
INVARIANT NoReloadUnderReader
PROPERTY OneRecordPerSave
