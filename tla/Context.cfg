CONSTANTS
  None = None
  Scenes <- MCScenes
SPECIFICATION Spec
INVARIANTS PartitionsExact KnownIsAccepted Synced
PROPERTY ApplicationAnswered
CHECK_DEADLOCK FALSE
