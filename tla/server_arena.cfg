SPECIFICATION Spec
CONSTANTS
  Clients = {1, 2}
  Workers <- TwoWorkers
  Main = Main
  Listen = Listen
  Idle = Idle
  Scripts <- TwoClients
  Chunks = 2
  RecvCap = 2
  SlotCounts <- OneOrTwo
INVARIANT ArenaHeld
CHECK_DEADLOCK FALSE
