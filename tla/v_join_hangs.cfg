CONSTANTS
  a = a  b = b  c = c  ab = ab  ac = ac  bc = bc  r = r  s = s
  NoEdge = NoEdge  NoNode = NoNode
  Node <- JoinNode  Edge <- JoinEdge  From <- JoinFrom  To <- JoinTo  Cond <- AnyColor
  Gather <- None  GatherAll <- None  Limit <- NoLimit
  InitNode <- JoinNode  InitEdge <- JoinEdge
  Reply <- OnlyOk  MayFail = {}
  Worker <- Calls  MaxRetry = 0  MaxLog = 0
  Runner = r  Watcher = {}  Copy = {1}
  MaxAttempt <- Once  Patient = {}  Hang = {}
  MaxRestart = 0  RestartInCall = FALSE  Tracked = TRUE
SPECIFICATION OrchaSpec
INVARIANT NoDeadEnd
CHECK_DEADLOCK FALSE
