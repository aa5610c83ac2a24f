CONSTANTS
  a = a  b = b  c = c  ab = ab  ac = ac  bc = bc  r = r  s = s
  NoEdge = NoEdge  NoNode = NoNode
  Node <- ForkNode  Edge <- ForkEdge  From <- ForkFrom  To <- ForkTo  Cond <- AnyColor
  Gather <- None  GatherAll <- None  Limit <- NoLimit
  InitNode <- ForkNode  InitEdge <- ForkEdge
  Reply <- OnlyOk  MayFail = {c}
  Worker <- Calls  MaxRetry = 0  MaxLog = 0
  Runner = r  Watcher = {}  Copy = {1, 2}
  MaxAttempt <- Once  Patient = {a}  Hang = {b, c}
  MaxRestart = 0  RestartInCall = FALSE  Tracked = TRUE
SPECIFICATION OrchaSpec
INVARIANTS NoStall NoDeadEnd
CHECK_DEADLOCK FALSE
