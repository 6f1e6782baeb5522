SPECIFICATION Spec
CONSTANTS
  None = None
  Inodes = {i1, i2, i3, i4, i5}
  Setups <- MixedOrAlike
  Kept = 2
  MaxSeconds = 1
  Slack = 0
  Still = {"stat"}
  FromStart = TRUE
  MaxFailures = 0
SYMMETRY InodeSymmetry
INVARIANTS
  NoLineSkipped
