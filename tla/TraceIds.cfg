CONSTANTS
  Requests = {r1, r2}
  upper = upper
  lower = lower
  Ids = {upper, lower}
  Modulus = 16
  MaxClock = 3
  MaxDraws = 4
  MaxSteps = 1
  Mix <- XorBits
  Lower <- LowerOf
SPECIFICATION Spec
SYMMETRY Symmetry
CHECK_DEADLOCK FALSE
INVARIANTS
  TypeOK
  FreshLogIds
  SameInstantDiffers
  CallersTrace
