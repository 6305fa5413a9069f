SPECIFICATION MCSpec
CONSTANTS
  a1 = a1
  a2 = a2
  n1 = n1
  n2 = n2
  k1 = k1
  k2 = k2
  k3 = k3
  None = None
  Apps = {a1, a2}
  Nodes = {n1, n2}
  Keys = {k1, k2, k3}
  appOf <- appOfKey
  reqNode <- OneRequired
  Preemptors = {k1}
  Expires = TRUE
  MaxCount = 2
INVARIANTS Symmetric RequiredNodeOnly ReservedIsRequest Covered
PROPERTY UndisturbedExact
CHECK_DEADLOCK FALSE
