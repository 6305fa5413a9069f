CONSTANTS
  Apps = {"p1", "p2"}
  Scenes <- MCScenes
  RootLike = {"root", "rooted"}
  Invalid = {"q!"}
  MaxGen = 3
  Depth = 3
  None = None
SPECIFICATION Spec
INVARIANTS TreeAsConfigured
PROPERTIES PlacedAllowed QueuesInUseStay CleanedUp
CHECK_DEADLOCK FALSE
