SPECIFICATION Spec
CONSTANTS
  a = a
  b = b
  c = c
  x = x
  Path <- MCPath
  Root = a
  Sources <- SmallSources
  MaxDepth = 4
INVARIANT NoModuleIsReentered
CHECK_DEADLOCK FALSE
