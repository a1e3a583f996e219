SPECIFICATION FairSpec
CONSTANTS
  Obj = {o1, o2, o3, o4}
  None = None
  Kinds = {"plain"}
  MaxRef = 1
  MarkLimit = 1
  LoopLimit = 2
  MaxLinks = 3
  MaxNest = 1
INVARIANT ReachableKept
PROPERTY CollectionEnds
