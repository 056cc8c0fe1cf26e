SPECIFICATION Spec
CONSTANTS
  Clients = {c1, c2}
  NoRun = NoRun
  MaxRequests = 2
  MaxTroubles = 1
INVARIANTS
  RequireFindsEvaluation
PROPERTIES
  EvaluationKept
  RequestsAnswered
CHECK_DEADLOCK FALSE
