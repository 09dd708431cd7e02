SPECIFICATION Spec
CONSTANTS
  Programs <- FloatPrograms
  LINEAR_SCAN = FALSE
  MAX_FRAMES = 4
  STACK_SIZE = 4
INVARIANTS
  TypesAreTrue
CHECK_DEADLOCK FALSE
