CONSTANTS
  d = d
  x = x
  Names <- TwoNames
  Nil = Nil
  Dot = Dot
  DotDot = DotDot
  Odd = Odd
  RootPath <- RootD
  Requests <- MCRequests
  Depth = 3
  BucketPaths <- MCBucketPaths
  MaxChanges = 2
SPECIFICATION Spec
CHECK_DEADLOCK FALSE
INVARIANTS
  TypeOK
  KeyRoundTrip
PROPERTIES
  OpensWhatItNames
