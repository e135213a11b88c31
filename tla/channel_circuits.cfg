SPECIFICATION Spec
CONSTANTS
  k1 = k1
  k2 = k2
  i1 = i1
  i2 = i2
  NoId = NoId
  Circuits <- MCCircuits
  Ids <- MCIds
  MaxQueue = 2
  MaxWire = 2
  Busy <- MCRelay
  Fragile <- MCRelay
CHECK_DEADLOCK FALSE
SYMMETRY MCSymmetry
INVARIANTS CircuitsAgree DestroysHoldTheirIds DestroyIsLast
