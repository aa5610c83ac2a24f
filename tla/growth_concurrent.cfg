CONSTANTS
  a = a  b = b  c = c  d = d  g = g
  ab = ab  ac = ac  ad = ad  ag = ag  bc = bc  bg = bg  gd = gd
  NoEdge = NoEdge  NoNode = NoNode
  Node <- GrowNode  Edge <- GrowEdge  From <- GrowFrom  To <- GrowTo  Cond <- GrowCond
  Gather <- NoGather  GatherAll <- NoGather  Limit <- NoLimit
  InitNode <- GrowInitNode  InitEdge <- GrowInitEdge
  Reply <- OnlyOk  MayFail = {}
  Worker = {w1, w2}  MaxRetry = 0  MaxLog = 14
SPECIFICATION GrowSpec
INVARIANTS LateEdgeFed NothingForgotten
CHECK_DEADLOCK FALSE
