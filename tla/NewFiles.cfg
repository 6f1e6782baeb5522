SPECIFICATION Spec
CONSTANTS
  None = None
  a = a
  b = b
  wide = wide
  narrow = narrow
  d = d
  Globs = {wide, narrow}
  Sorted <- Names
  Dirs = {d}
  Matches <- WideAndNarrow
  LooksIn <- OneDirectory
  DirOf <- AllInOne
  Configs <- Lists
  Second = 2
  Still = {"directories", "listings"}
  MaxTicks = 2
  MaxLines <- OneAndTwo
  MaxTroubles = 1
  MaxEdits = 1
INVARIANTS
  TypeOK
  PastStaysUnsent
PROPERTIES
  NewStaysNew
