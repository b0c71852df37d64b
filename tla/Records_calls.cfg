SPECIFICATION Spec
CONSTANTS
    p1 = p1
    p2 = p2
    i1 = i1
    i2 = i2
    n1 = n1
    d1 = d1
    d2 = d2
    manifest = manifest
    None = None
    Kind = {"layer", "image", "container"}
    Proc = {p1, p2}
    Id = {i1, i2}
    Name = {n1}
    Digest = {d1, d2}
    Key = {manifest}
    Manifest = manifest
    MaxLocks = 3
    MaxCalls = 3
    MaxFaults = 2
SYMMETRY Symmetric
CHECK_DEADLOCK FALSE
INVARIANT MemoryMatches
INVARIANT RecordsAgree
PROPERTY OnlyOwnChange
