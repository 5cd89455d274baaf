CONSTANTS
  Names <- MCNames
  Exotic = {5}
  Nested = {1, 4}
  DefaultLimit = 1
  MaxLimit = 2
  PageSize = 2
  MaxChanges = 2
SPECIFICATION FairSpec
CHECK_DEADLOCK FALSE
INVARIANTS
  TypeOK
  StableListedOnce
  InOrder
  NothingInvented
PROPERTIES
  WalkEnds
  WalkRefinement
