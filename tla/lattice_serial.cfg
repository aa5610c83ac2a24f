CONSTANTS
  a = a  b = b  c = c  d = d  g = g
  ab = ab  ac = ac  ad = ad  ag = ag  bc = bc  bg = bg  gd = gd
  NoEdge = NoEdge  NoNode = NoNode
  Node <- BranchNode  Edge <- BranchEdge  From <- BranchFrom  To <- BranchTo  Cond <- BranchCond
  Gather <- FanGather  GatherAll <- NoGather  Limit <- BranchLimit
  InitNode <- BranchNode  InitEdge <- BranchEdge
  Reply <- OneOrTwo  MayFail = {a, b, d}
  Worker = {w1}  MaxRetry = 1  MaxLog = 20
SPECIFICATION Spec
INVARIANT AnsweredOnce
CHECK_DEADLOCK FALSE
