SPECIFICATION FairSpec
CONSTANTS
  Promise = {p}
  Thenable = {t}
  Plain = {x}
  None = None
  Custom = Custom
  Foreign = {Custom}
  Kinds = {"plain"}
  ApiKinds = {"plain"}
  MaxThens = 3
  MaxPairs = 2
  MaxFrames = 4
INVARIANTS
  RunsOnce
  InOrder
PROPERTIES
  ReactionsRun
