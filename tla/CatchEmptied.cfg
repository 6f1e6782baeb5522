SPECIFICATION Spec
CONSTANTS
  None = None
  Inodes = {i1, i2, i3, i4, i5}
  Setups <- OnlyEmptied
  Kept = 2
  MaxSeconds = 1
  Slack = 0
  Still = {"list", "stat", "try", "chain", "live"}
  FromStart = TRUE
  MaxFailures = 0
SYMMETRY InodeSymmetry
INVARIANTS
  NoLineSkipped
