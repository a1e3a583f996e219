SPECIFICATION Spec
CONSTANTS
  Module = {a, b, c}
  MaxImports = 2
  MaxCalls = 3
  LinkCallbacks = FALSE
SYMMETRY Symmetry
INVARIANTS
  LinkedClosed
  LinkingOnStack
  BodiesInOrder
