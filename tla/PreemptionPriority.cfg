SPECIFICATION Spec
CONSTANTS
  Nil = Nil
  None = None
  Half = 128
  Scenes <- MCParentOffset
  NamePrefix <- MCNames
INVARIANT VictimsOfLowerPriority
CHECK_DEADLOCK FALSE
