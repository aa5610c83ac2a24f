CONSTANTS
  a = a  b = b  c = c  d = d  g = g
  ab = ab  ac = ac  ad = ad  ag = ag  bc = bc  bg = bg  gd = gd
  NoEdge = NoEdge  NoNode = NoNode
  Node <- FanNode  Edge <- FanEdge  From <- FanFrom  To <- FanTo  Cond <- FanCond
  Gather <- FanGather  GatherAll <- FanGather  Limit <- FanLimit
  InitNode <- FanNode  InitEdge <- FanEdge
  Reply <- OnlyOk  MayFail = {d}
  Worker = {w1, w2}  MaxRetry = 0  MaxLog = 16
SPECIFICATION FairSpec
INVARIANTS DependencyOrder NoTokenLost
PROPERTIES EventuallyReports KeepsPromise
CHECK_DEADLOCK FALSE
