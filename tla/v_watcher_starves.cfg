CONSTANTS
  a = a  b = b  c = c  ab = ab  ac = ac  bc = bc  r = r  s = s
  NoEdge = NoEdge  NoNode = NoNode
  Node <- ChainNode  Edge <- ChainEdge  From <- ChainFrom  To <- ChainTo  Cond <- AnyColor
  Gather <- None  GatherAll <- None  Limit <- NoLimit
  InitNode <- ChainNode  InitEdge <- ChainEdge
  Reply <- OnlyOk  MayFail = {c}
  Worker <- Calls  MaxRetry = 0  MaxLog = 0
  Runner = r  Watcher = {s}  Copy = {1, 2}
  MaxAttempt <- Twice  Patient = {a}  Hang = {b, c}
  MaxRestart = 0  RestartInCall = FALSE  Tracked = TRUE
SPECIFICATION ObservedSpec
INVARIANT NoStall
CHECK_DEADLOCK FALSE
