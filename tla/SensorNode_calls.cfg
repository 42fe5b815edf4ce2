SPECIFICATION Spec
CONSTANTS
  self = self
  a = a
  b = b
  None = None
  Nodes <- MCNodes
  Self = self
  AGGREGATE_TABLE_SIZE = 2
  Below <- MCBelowZero
  FrameTypes = {"SENSOR"}
  SEND_AFTER_TICKS = 1
  MaxSteps = 1
SYMMETRY MCSymmetry
INVARIANTS TypeOK SoundUntilOvertaken
PROPERTY ImplementsLedger
CHECK_DEADLOCK FALSE
