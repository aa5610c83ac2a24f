CONSTANTS
  Task = {t}  Team = {s}  Agent = {a1, a2}
  MaxRetries = 2  MaxCounts = 1  SetTo = {"complete"}
  MaxGraphs = 3  MaxRoots = 1  MaxRestarts = 1
  Method = {"build", "definition", "files", "async"}
  a = a  b = b  j = j  g = g  v = v  x = x  r = r  d = d
  Kind <- KindOf  Shapes <- ShapesOf  Retries <- RetriesOf  MaxHangs = 1
SPECIFICATION Spec
INVARIANTS
  CacheAgrees VerdictOnAll TokensFollowRuns AskedAll TokenIsLatest
PROPERTIES CancelReachesTree CancelledEnds TasksRest
CHECK_DEADLOCK FALSE
