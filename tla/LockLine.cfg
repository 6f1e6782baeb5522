SPECIFICATION Spec
CONSTANTS
  p1 = p1
  p2 = p2
  p3 = p3
  None = None
  Procs = {p1, p2, p3}
  Names = {1, 2}
  KeyOf <- TwoKeys
  WidthOf <- OneLonger
  Sizes = {7}
  Cap = 4
  Stale = 1
  MaxNow = 3
  MaxMishaps = 2
SYMMETRY SameConfig
INVARIANTS
  TypeOK
  MarkersKept
  StaleIsStale
  StuckIsNoticed
