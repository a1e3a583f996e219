SPECIFICATION Spec
CONSTANTS
  Promise = {p1, p2}
  Thenable = {t}
  Plain = {x}
  None = None
  Custom = Custom
  Foreign = {}
  Kinds = {"plain", "async"}
  ApiKinds = {}
  MaxThens = 2
  MaxPairs = 2
  MaxFrames = 3
SYMMETRY Symmetry
INVARIANTS
  TypeOK
  SettledOnce
  OneInFlight
  RunsOnce
  ReactionsDecoded
  UnhandledExact
  AsyncKept
