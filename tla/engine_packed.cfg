SPECIFICATION Spec
CONSTANTS
  f1 = f1
  f2 = f2
  v1 = v1
  v2 = v2
  Feats = {f1, f2}
  Vals = {v1, v2}
  NoFeat = NoFeat
  Zero = Zero
  Absent = Absent
  None = None
  EPP = 3
  MaxEntries = 3
  MaxPages = 1
  OverlayBudget = 1
  MaxDirty = 3
  StepPages = 1
  DeltaMayFail = TRUE
SYMMETRY Symmetry
INVARIANTS
  NoForeignRead
  SlotPartition
  KeysNameOwners
