CONSTANTS
  t1 = t1
  t2 = t2
  k1 = k1
  k2 = k2
  Empty = Empty
  Absent = Absent
  Threads <- OneThread
  Keys = {k1, k2}
  Ops <- CasOps
  MaxOps = 4
  MaxDrops = 0
SPECIFICATION Spec
PROPERTY
  CasLosesNothingCached
CHECK_DEADLOCK FALSE
