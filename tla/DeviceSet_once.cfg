SPECIFICATION Spec
CONSTANTS
  c1 = c1
  c2 = c2
  l1 = l1
  l2 = l2
  Clients = {c1, c2}
  Worker = Worker
  Starter = Starter
  Layers = {l1, l2}
  Base = Base
  None = None
  Modes <- ThreeModes
  MaxTransactions = 4
  MaxFaults = 1
  MaxCrashes = 1
  ReuseNames = FALSE
CHECK_DEADLOCK FALSE
CONSTRAINT FewFailures
SYMMETRY ClientSymmetry
INVARIANT CreatedKept
INVARIANT PoolMatchesMetadata
INVARIANT NothingHeldUp
