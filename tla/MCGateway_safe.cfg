SPECIFICATION Spec
CONSTANTS
  Configs <- MCAll
  NoConfig = NoConfig
  DefaultThreshold = 1
  Recovery = 1
  HalfOpenRequests = 1
  Requests = {r1, r2}
  Writers = {w1}
  Instances = {g1, g2}
  None = None
  MaxFaults = 1
SYMMETRY Symmetry
INVARIANTS SlotsAccounted ClosedBelowThreshold ReloadCurrent
