CONSTANTS
  Queues = {"root", "p", "l1", "l2"}
  Root = "root"
  Parent <- MCParent
  Apps = {"a1", "a2"}
  Asks = {"k1", "k2", "k3"}
  App <- MCApp
  Environments <- MCEnvironments
  Placeholders = {"k1", "k2"}
  Priority <- MCPriority
  Offset <- MCOffset
  Fenced = {"p"}
  MinPriority <- MCMinPriority
  MaxPriority = 2
  NoLimit = 9
  None = None
SPECIFICATION Spec
INVARIANTS Counted ReleaseNeverRefused Bounded PriorityExact
CHECK_DEADLOCK FALSE
