SPECIFICATION Spec
CONSTANTS
  p1 = p1
  p2 = p2
  r1 = r1
  b1 = b1
  n1 = n1
  n2 = n2
  None = None
  Nodes = {n1, n2}
  Capacity <- TwoOrThree
  Others = 1
  Scenes <- MCScenes
INVARIANTS Accounted Counted PanicOnlyOrphan NeverOverspent
CHECK_DEADLOCK FALSE
