SPECIFICATION MCSpec
CONSTANTS
  f1 = f1
  f2 = f2
  Feats = {f1, f2}
  NoFeat = NoFeat
  None = None
  Header = Header
  Trailer = Trailer
  EPP = 2
  MaxEntries = 5
  Batch = 4
  MaxLate = 1
  ImportBatch = 2
  MagicFeats = {}
INVARIANTS
  ExportTypeOK
  SnapshotExact
  EachSlotOnce
  FullComplete
  DeltaComplete
  ReplicaReads
  ReplicaReopens
PROPERTIES
  ExportFinishes
CHECK_DEADLOCK FALSE
