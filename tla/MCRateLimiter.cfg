CONSTANTS
  k1 = k1
  k2 = k2
  k3 = k3
  p1 = p1
  p2 = p2
  Keys <- ThreeKeys
  Procs <- TwoProcs
  Limit = 2
  Window = 2
  CleanupAt = 1
  MaxWait = 1
  MaxHits = 3
  MaxTime = 4
SPECIFICATION Spec
INVARIANTS
  TypeOK
  MapTellsWindows
  BurstBound
PROPERTIES
  ImplementsWindows
  OverThresholdAllRunning
SYMMETRY Symmetry
