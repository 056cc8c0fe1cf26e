SPECIFICATION Spec
CONSTANTS
  Kinds <- MCKinds
  Limit <- MCLimit
  Uncached <- MCUncached
  CacheKeys = {k1, k2}
  Clients = {c1, c2}
  NoKey = NoKey
  MaxRequests = 2
  MaxTroubles = 1
INVARIANTS
  ResultsMatchKeys
PROPERTIES
  KeepsJobLedger
  JobsEnd
  ClientsReturn
CHECK_DEADLOCK FALSE
