SPECIFICATION Spec
CONSTANTS
  Holder = {h1, h2, h3, h4}
INVARIANTS
  TypeOK
  OneHolder
  FreeOrInUse
  ProtectedAreVariables
PROPERTIES
  ImplementsPool
