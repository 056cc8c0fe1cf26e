SPECIFICATION Spec
CONSTANTS
  NoRev = NoRev
  MaxChanges = 2
  MaxClicks = 4
  MaxForeign = 1
  MaxFails = 1
INVARIANTS
  SettledViewIsWhole
  SettledViewIsCurrent
PROPERTIES
  AcceptExtendsShown
CHECK_DEADLOCK FALSE
