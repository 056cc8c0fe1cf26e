SPECIFICATION Spec
CONSTANTS
  Procs = {p1, p2}
  Keys = {k1}
  NoKey = NoKey
  imported = imported
  mirrored = mirrored
  moved = moved
  blocked = blocked
  extended = extended
  Revisions <- MCRevisions
  Parent <- MCParent
  Passing <- MCPassing
  NoRevision = NoRevision
  Free = Free
  Left = Left
  Stale = Stale
  MaxCalls = 4
  MaxLapses = 1
SYMMETRY Symmetry
INVARIANTS
  ExclusiveUntilLapse
  PointerIsCommitted
  IndexNamesEdits
PROPERTIES
  KeyKeepsRevision
  KeepsStoreLedger
CHECK_DEADLOCK FALSE
