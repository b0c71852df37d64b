SPECIFICATION SpecLibraries
CONSTANT g1 = g1
CONSTANT g2 = g2
CONSTANT g3 = g3
CONSTANT n1 = n1
CONSTANT n2 = n2
CONSTANT k1 = k1
CONSTANT k2 = k2
CONSTANT k3 = k3
CONSTANT Goroutine = {g1, g2, g3}
CONSTANT Name = {n1, n2}
CONSTANT Ctr = {k1, k2, k3}
CONSTANT None = None
CONSTANT DriverLayer = {a, b, c}
SYMMETRY Symmetric
CHECK_DEADLOCK FALSE
INVARIANT Inv
INVARIANT LayersAsWritten
INVARIANT MountsAsUsed
INVARIANT CommitsFaithful
INVARIANT PullsFaithful
INVARIANT MappingsSound
INVARIANT PipeSound
INVARIANT FilesWhole
INVARIANT RecursiveLocks
INVARIANT NamespacesSetUp
INVARIANT HelpersComplete
INVARIANT StoresOpenAlike
