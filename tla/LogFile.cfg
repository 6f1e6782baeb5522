SPECIFICATION Spec
CONSTANTS
  LINE_CAP = 2
  FINGERPRINT_CAP = 2
  ANCHOR_CAP = 2
  CHUNK = 3
  MAX_FRAGMENTS = 2
  Patterns <- MCPatterns
  Excludes <- MCExcludes
  Setups <- MCSetups
  MaxRuns = 2
CHECK_DEADLOCK FALSE
INVARIANTS
  TypeOK
  ReadOnce
  NothingLeftBehind
  AnchorIsTheBytes
  OneVersion
  SameBytesBefore
  ReportIsGrepC
  RenderShowsTheFirst
  HitsAreAlerted
