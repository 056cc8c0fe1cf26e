SPECIFICATION Spec
CONSTANTS
  Null = Null
  NoNumber = NoNumber
  NaN = NaN
  NoRevision = NoRevision
  NoKey = NoKey
  Keys = {k1}
  Policy <- MCPolicy
  Manifest <- MCManifest
  Features <- MCFeatures
  Requests <- MCRequests
  MAX_REVISIONS = 3
INVARIANTS CommittableIsClean
