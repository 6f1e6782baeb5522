SPECIFICATION Spec
CONSTANTS
  None = None
  Inodes = {i1, i2, i3, i4, i5}
  Setups <- RenamedOrUnread
  Kept = 3
  MaxSeconds = 1
  Slack = 0
  Still = {"stat"}
  FromStart = TRUE
  MaxFailures = 1
SYMMETRY InodeSymmetry
INVARIANTS
  TypeOK
  NoLineSkipped
  InOrder
  MailedOnce
