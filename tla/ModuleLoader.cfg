SPECIFICATION Spec
CONSTANTS
  a = a
  b = b
  c = c
  x = x
  Path <- MCPath
  Root = a
  Sources <- MCSources
  MaxDepth = 4
INVARIANTS
  TypeOK
  LoadsOnlyTrees
  CyclicReportsAreSpurious
  TracesAreImportChains
  OverflowMeansCycle
PROPERTIES
  UsesAreParsedFirst
  LoadingEnds
CHECK_DEADLOCK FALSE
