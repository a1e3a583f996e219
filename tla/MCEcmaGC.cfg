SPECIFICATION Spec
CONSTANTS
  Obj = {o1, o2, o3}
  None = None
  Kinds = {"native", "weakmap", "weakref"}
  MaxRef = 1
  MarkLimit = 1
  LoopLimit = 2
  MaxLinks = 3
  MaxNest = 2
SYMMETRY Symmetry
INVARIANTS
  TypeOK
  FreesExactly
  CountsRestored
  WeakLinks
  ObtainedAreLive
  CallbackSafe
