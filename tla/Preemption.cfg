SPECIFICATION Spec
CONSTANTS
  Nil = Nil
  None = None
  Half = 128
  Scenes <- MCScenes
  NamePrefix <- MCNames
INVARIANTS VictimsJustified NodeFits MarkedIsNotified QuotaStopsAtMax ArmedHasLimit
CHECK_DEADLOCK FALSE
