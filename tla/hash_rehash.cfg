SPECIFICATION Spec
CONSTANTS
  f1 = f1
  f2 = f2
  f3 = f3
  f4 = f4
  l1 = l1
  Feats = {f1, f2, f3, f4}
  Locs = {l1}
  Empty = Empty
  Absent = Absent
  MaxCapacity = 8
  Setups <- SlowGrowth
SYMMETRY Symmetry
INVARIANTS
  AnswersExact
