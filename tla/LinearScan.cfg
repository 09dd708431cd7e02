SPECIFICATION Spec
CONSTANTS
  Programs <- CarriedPrograms
  LINEAR_SCAN = TRUE
  MAX_FRAMES = 4
  STACK_SIZE = 4
INVARIANTS
  OutputIsMeaning
CHECK_DEADLOCK FALSE
