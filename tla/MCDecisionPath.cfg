SPECIFICATION Spec
CONSTANTS
  Proposals = {p1, p2}
  Claims = {c1}
  Keys = {k1, k2}
  Handlers = {h1, h2}
  NoRevision = NoRevision
  MaxRequests = 3
  MaxFaults = 0
SYMMETRY Symmetry
INVARIANTS
  TimelineIsLineage
  ReplayIsTruthful
  CommittingIsOwned
  ReviewMatchesBase
PROPERTIES
  AcceptCommitsReviewed
  AcceptOnReviewedBaseExtends
  KeepsLedger
CHECK_DEADLOCK FALSE
