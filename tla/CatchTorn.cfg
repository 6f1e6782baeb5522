SPECIFICATION Spec
CONSTANTS
  None = None
  Inodes = {i1, i2, i3, i4, i5}
  Setups <- OnlyTorn
  Kept = 3
  MaxSeconds = 0
  Slack = 0
  Still = {}
  FromStart = TRUE
  MaxFailures = 0
SYMMETRY InodeSymmetry
INVARIANTS
  NoLineSkipped
