SPECIFICATION Spec
CONSTANTS
  Programs <- LiteralPrograms
  LINEAR_SCAN = FALSE
  MAX_FRAMES = 4
  STACK_SIZE = 4
INVARIANTS
  ConstantsAreConstant
CHECK_DEADLOCK FALSE
