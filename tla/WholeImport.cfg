SPECIFICATION Spec
CONSTANTS
  Programs <- ImportPrograms
  LINEAR_SCAN = FALSE
  MAX_FRAMES = 4
  STACK_SIZE = 4
INVARIANTS
  OutputIsMeaning
CHECK_DEADLOCK FALSE
