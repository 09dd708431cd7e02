SPECIFICATION Spec
CONSTANTS
  Programs <- DictionaryPrograms
  LINEAR_SCAN = FALSE
  MAX_FRAMES = 4
  STACK_SIZE = 4
INVARIANTS
  CompiledIsWellFormed
CHECK_DEADLOCK FALSE
