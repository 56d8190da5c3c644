SPECIFICATION Spec
CONSTANTS
  e1 = e1
  e2 = e2
  e3 = e3
  e4 = e4
  v1 = v1
  v2 = v2
  Entries = {e1, e2, e3, e4}
  Vals = {v1, v2}
  Empty = Empty
  Absent = Absent
  RehashBatch = 1
  InitCapacity = 4
  MaxCapacity = 8
  HashRange = {0, 3, 7}
  Hashes <- AnyHash
SYMMETRY Symmetry
INVARIANT ReplayExact
