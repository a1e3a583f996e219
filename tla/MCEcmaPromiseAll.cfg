SPECIFICATION Spec
CONSTANTS
  Routines = {"all", "allSettled", "any", "race"}
  IndexLimit = 4
  OneOutcome = {"allSettled"}
CHECK_DEADLOCK FALSE
INVARIANT SettlesExactly
