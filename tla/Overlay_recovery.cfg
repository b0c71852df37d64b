\* Two layers: a failed operation, a crash or a reboot that loses a link, and retries.
CONSTANTS
  base = base
  child = child
  Layers = {base, child}
  None = None
  Shared = Shared
  Parents <- TwoChain
  Links <- LinkNames
  MaxFaults = 1
  MaxCrashes = 1
  MaxCalls = 4
SPECIFICATION FairSpec
ACTION_CONSTRAINT OrderedLinks
CONSTRAINT InTurn
CHECK_DEADLOCK FALSE
INVARIANT StackCorrect
INVARIANT LinksRecoverable
INVARIANT Accounted
PROPERTY RecoveryEnds
