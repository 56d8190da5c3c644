SPECIFICATION Spec
CONSTANTS
  Feats = {f1, f2}
  Vals = {v1, v2}
  NoFeat = NoFeat
  Zero = Zero
  None = None
  Absent = Absent
  Unsure = Unsure
  Layouts <- TwoLayouts
  MaxOpens = 3
  GetOpens = 1
SYMMETRY Symmetry
INVARIANTS
  TypeOK
  ExpectedRead
  SlotsOwnedOnce
  GetInWindow
CHECK_DEADLOCK FALSE
