SPECIFICATION Spec
CONSTANTS
  p1 = p1
  p2 = p2
  f1 = f1
  f2 = f2
  None = None
  Procs = {p1, p2}
  Files = {f1, f2}
  Sections = 2
  FilesOf <- ApartFilesOf
  FromStart = {f1}
  TTL = 2
  Headroom = 1
  Size <- MCSize
  MaxLines = 1
  MaxDay = 0
  MaxRoom = 3
  MaxCopies = 5
  MaxMishaps = 2
SYMMETRY ProcSymmetry
INVARIANTS
  TypeOK
  MutualExclusion
  OpenedFilesTracked
  CopiesBounded
  CleanRunIsSaved
PROPERTIES
  PlacesOnlyAdvance
  KeepsPromise
