CONSTANTS
  s1 = s1  s2 = s2  r1 = r1  r2 = r2  a1 = a1  w1 = w1  w2 = w2
  Session = {s1, s2}  Parent <- ParentOf
  Request = {r1, r2}  SessionOf <- BothOfS2  Review = {r1}
  Approver = {a1}  Waiter = {w1, w2}  Subscriber = {}  Watches <- Watched
  Program = {p}  Trial = {t1, t2}  MaxStep = 2
  Resolver = {1, 2, 3}  ColdStart = 1  Raw = {"p"}  Divergent <- Diverges
  Poller = {c}
  MaxNodes = 5  MinRun = 2
  MaxEvents = 8
  TicketName <- Names  TicketType = {"agent", "other"}  Body <- Bodies  MaxTickets = 2  MaxAsked = 2
SPECIFICATION Spec
INVARIANTS
  NoLostWakeup
  OverIsWritten BiasIsCurrent
  ChainIsMerged PlainTurnsRendered StartsAfterValidation PmTellsGraph
PROPERTIES ApproverResolves SomeReaderIsTold EveryUpdateCloses
CHECK_DEADLOCK FALSE
