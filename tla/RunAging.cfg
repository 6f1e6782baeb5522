SPECIFICATION Spec
CONSTANTS
  p1 = p1
  p2 = p2
  f1 = f1
  f2 = f2
  None = None
  Procs = {p1}
  Files = {f1, f2}
  Sections = 1
  FilesOf <- TogetherFilesOf
  FromStart = {f1}
  TTL = 2
  Headroom = 1
  Size <- MCSize
  MaxLines = 1
  MaxDay = 5
  MaxRoom = 3
  MaxCopies = 4
  MaxMishaps = 0
INVARIANTS
  NoHitLost
PROPERTIES
  OnlyUnreachedExpire
