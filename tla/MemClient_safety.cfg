CONSTANTS
  t1 = t1
  t2 = t2
  k1 = k1
  k2 = k2
  Empty = Empty
  Absent = Absent
  Threads <- TwoThreads
  Keys = {k1, k2}
  Ops <- AllOps
  MaxOps = 4
  MaxDrops = 1
SPECIFICATION Spec
SYMMETRY ThreadSymmetry

  
  
PROPERTY
  CasLosesNothing
CHECK_DEADLOCK FALSE
