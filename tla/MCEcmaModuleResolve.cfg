SPECIFICATION ExportsSpec
CONSTANTS
  Exporter = {a, b}
  Name = {"x", "y"}
  Forwarded = {"x", "y"}
  Renames = TRUE
  Circular = FALSE
  MaxStars = 1
CHECK_DEADLOCK FALSE
INVARIANT ExportSatisfied
