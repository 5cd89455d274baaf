SPECIFICATION Spec
CONSTANTS
  Conns = {k1, k2}
  MaxRequests = 2
  MaxSignals = 2
INVARIANTS
  TypeOK
  DrainRecords
PROPERTIES
  SignalsSpareRequests
  DrainEnds
CHECK_DEADLOCK FALSE
