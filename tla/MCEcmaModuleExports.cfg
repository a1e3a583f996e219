SPECIFICATION ExportsSpec
CONSTANTS
  Exporter = {a, b, c}
  Name = {"x", "default"}
  Forwarded = {"x"}
  Renames = FALSE
  Circular = FALSE
  MaxStars = 2
CHECK_DEADLOCK FALSE
SYMMETRY Symmetry
INVARIANTS
  ExportSatisfied
  NamespaceComplete
