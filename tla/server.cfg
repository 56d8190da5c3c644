SPECIFICATION MCSpec
CONSTANTS
  Clients = {1, 2}
  Workers <- TwoWorkers
  Main = Main
  Listen = Listen
  Idle = Idle
  Scripts <- TwoClients
  Chunks = 2
  RecvCap = 2
  SlotCounts <- OneOrTwo
INVARIANTS
  TypeOK
  ResponsesInOrder
  StopClean
PROPERTIES
  AllAnswered
  StopReturns
CHECK_DEADLOCK FALSE
