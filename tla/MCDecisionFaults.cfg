SPECIFICATION Spec
CONSTANTS
  Proposals = {p1, p2}
  Claims = {c1}
  Keys = {k1}
  Handlers = {h1, h2}
  NoRevision = NoRevision
  MaxRequests = 2
  MaxFaults = 1
PROPERTIES
  RequestsEnd
  CommittingSettles
CHECK_DEADLOCK FALSE
