SPECIFICATION FairSpec
CONSTANTS
    p1 = p1
    p2 = p2
    g1 = g1
    g2 = g2
    g3 = g3
    None = None
    Proc = {p1, p2}
    Goroutine = {g1, g2, g3}
    ProcOf <- MCProcOf
    Method = {"RLock", "Lock"}
    MaxDepth = 1
    MaxCalls = 2
INVARIANT Inv
PROPERTY RWSpec
PROPERTY CallReturns
