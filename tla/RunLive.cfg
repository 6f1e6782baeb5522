SPECIFICATION FairSpec
CONSTANTS
  p1 = p1
  p2 = p2
  f1 = f1
  f2 = f2
  None = None
  Procs = {p1, p2}
  Files = {f2}
  Sections = 1
  FilesOf <- AloneFilesOf
  FromStart = {}
  TTL = 2
  Headroom = 1
  Size <- MCSize
  MaxLines = 2
  MaxDay = 0
  MaxRoom = 2
  MaxCopies = 1
  MaxMishaps = 2
PROPERTIES
  HitsDelivered
