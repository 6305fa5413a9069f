SPECIFICATION MCSpec
CONSTANTS
  p1 = p1  p2 = p2  r1 = r1  r2 = r2  x1 = x1  x2 = x2
  Sends <- AllThree
  None = None
  Nodes = {n1}
  Keys = {p1, p2, r1, r2, x1, x2}
  Placeholders = {p1, p2}
  Gang = {p1, p2, r1, r2}
  Res <- LargeRequest
  PlaceholderAsks = {0, 1, 2}
  GangStyles = {"Soft", "Hard"}
  Recovered = {p1}
  Failable = {r1, r2, x1, x2}
  Stoppable = {r1, r2, x1, x2}
  ReleaseAll = TRUE
  LateAsks = TRUE
INVARIANTS Totals SwapInFlight PendingIsScheduled
CHECK_DEADLOCK FALSE
