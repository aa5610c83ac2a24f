CONSTANTS
  NoNode = NoNode  a = a  b = b
  ArborTree = {}  Owner = {}  ArborNode = {}  Amount = {}  MaxCount = 0
  ConeId = {}  ConeName = {}  Turn = {}  Quick = {}
  Session = {1, 2}  Name = {n}
  Chat = {}  Async = {}  MayBeEphemeral = {}
  Script <- Scripts  Limit = {}
SPECIFICATION Spec
INVARIANT HistoryReadable
CHECK_DEADLOCK FALSE
