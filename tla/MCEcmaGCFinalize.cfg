SPECIFICATION Spec
CONSTANTS
  Obj = {o1, o2}
  None = None
  Kinds = {"native"}
  MaxRef = 1
  MarkLimit = 1
  LoopLimit = 2
  MaxLinks = 1
  MaxNest = 1
SYMMETRY Symmetry
INVARIANT FinalizedEmpty
