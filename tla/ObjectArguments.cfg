SPECIFICATION Spec
CONSTANTS
  Programs <- ArgumentPrograms
  LINEAR_SCAN = FALSE
  MAX_FRAMES = 4
  STACK_SIZE = 4
INVARIANTS
  AcceptedDoesNotGoWrong
CHECK_DEADLOCK FALSE
