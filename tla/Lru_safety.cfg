CONSTANTS
  k1 = k1
  k2 = k2
  k3 = k3
  k4 = k4
  v1 = v1
  v2 = v2
  NoKey = NoKey
  NoValue = NoValue
  Keys <- MCKeys
  Values <- MCValues
  Size <- MCSize
  Overhead = 1
  threshold_ = 4
  decrease_by_ = 2
  Word = 64
  MaxEvicted = 6
SPECIFICATION Spec
SYMMETRY KeySymmetry
INVARIANTS
  BucketInv
  
PROPERTIES
  StoredKeysLeaveTogether
  EvictsStaleFirst
CHECK_DEADLOCK FALSE
