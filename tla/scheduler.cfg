SPECIFICATION FairSpec
CONSTANTS
  NumBins = 2
  NumConfigured = 1
  Pages = {0}
  Requests = {1, 2}
  None = None
  Waiting = Waiting
  FlushInterval = 1
  CkptInterval = 2
  Cooldown = 1
  MaxVersion = 2
  MaxLateVersion = 1
  MaxGen = 2
  MaxOpens = 2
INVARIANTS
  TypeOK
  ChainRestores
  RecoverKeepsCheckpoint
PROPERTIES
  WaitersServedTogether
  FullServed
CHECK_DEADLOCK FALSE
