SPECIFICATION Spec
CONSTANTS
  Object = {0, 1}
  Name = {0, 1, 2, 3}
  Pair = {b1, b2, b3}
  NoPair = NoPair
  Hash <- MCHash
  MinimumSize = 4
  NullPart = 2
  AllocMax = 1
  Rows = 1
  RowLength = 2
  NamesOf <- MCNamesOf
SYMMETRY Symmetry
INVARIANTS LookupExact TablesExact
