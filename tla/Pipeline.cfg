CONSTANTS
  t1 = t1
  t2 = t2
  Tokens <- TwoTokens
  Empty = Empty
  BodyReadTimeout = 3
  RequestTimeouts = {2, 3, 5}
  Inactivities = {1, 2, 6}
  MaxBody = 2
  MaxMessage = 256
  Details = {0, 233, 256, 100000}
SPECIFICATION Spec
CHECK_DEADLOCK FALSE
INVARIANTS
  TypeOK
  GateExact
  EveryLayerSeesIt
  FailuresExplained
  ClocksAgree
PROPERTIES
  Answered
