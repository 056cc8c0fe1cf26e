SPECIFICATION Spec
CONSTANTS
  Null = Null
  Absent = Absent
  Torn = Torn
  Geometries <- MCGeometries
  Input <- MCInput
  Facts <- MCFacts
  Commands <- MCCommands
  Polar <- MCPolar
  MAX_EDITS = 1
  MAX_CALLS = 2
  MAX_FACTS = 3
INVARIANTS QuarantineTaints QuietSweepIsBound
PROPERTIES LearningKeepsVerdicts CallReturns
CHECK_DEADLOCK FALSE
