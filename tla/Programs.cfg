SPECIFICATION Spec
CONSTANTS
  Programs <- AllPrograms
  LINEAR_SCAN = FALSE
  MAX_FRAMES = 8
  STACK_SIZE = 4
INVARIANTS
  TypeOK
  OutputIsMeaning
  CompiledIsWellFormed
  CompiledIsBalanced
  FramesMatchCode
  CallsFit
  PopsFindValues
  NothingLeftOnStack
  DictionariesAreCoherent
  TagsTellVariants
  TextsDoNotThrow
  WellFormedNeverStrays
  AcceptedDoesNotGoWrong
PROPERTIES
  RunsEnd
  CallersAreLeftAlone
  ObjectsKeepTheirShape
  DroppedStaysDropped
CHECK_DEADLOCK FALSE
