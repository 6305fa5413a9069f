SPECIFICATION Spec
CONSTANTS
  None = None
  Apps = {"a1", "a2"}
  Users = {"u", "v"}
  Groups = {"g"}
  Scenes <- MCScenes
  MaxUse = 2
  MaxCalls = 4
  MaxLive = 3
INVARIANTS UsageTracked LimitsKept
PROPERTY WithinLimits
CHECK_DEADLOCK FALSE
