CONSTANTS
  NoNode = NoNode  a = a  b = b
  ArborTree = {t}  Owner = {o1, o2}  ArborNode = {m, n}  Amount = {1, 2}  MaxCount = 3
  ConeId = {1, 2}  ConeName = {n}  Turn = {1, 2}  Quick = {2}
  Session = {1, 2}  Name = {n}
  Chat = {a, b}  Async = {a}  MayBeEphemeral = {b}
  Script <- Scripts  Limit = {2}
SPECIFICATION Spec
INVARIANTS
  CountIsSumOfOwners ActiveIsHeld ChildrenInCallOrder
  ContextMatchesBranch
  WholeExchanges Continuity NothingAfterTheEnd
PROPERTY EveryStreamEnds
CHECK_DEADLOCK FALSE
