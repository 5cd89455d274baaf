CONSTANTS
  c1 = c1
  c2 = c2
  c3 = c3
  p1 = p1
  p2 = p2
  b1 = b1
  b2 = b2
  Copies = {c1, c2, c3}
  Paths <- TwoPaths
  Invalid = {}
  Block = {b1, b2}
  Hole = Hole
  Absent = Absent
  Link = Link
  MaxBytes = 2
  BufSize = 1
  Attempts = 1
  FsInit <- MCFsInit
  S3Init <- MCS3Init
  MaxCrashes = 1
SPECIFICATION ChainSpec
CHECK_DEADLOCK FALSE
INVARIANTS
  Faithful
  RetryHeals
PROPERTIES
  UploadRefinement
