SPECIFICATION FairSpec
CONSTANTS
  MaxRequests = 5
  MaxAwaits = 3
  CreateCallbacks = FALSE
CHECK_DEADLOCK FALSE
INVARIANTS
  OneContinuation
  AwaitStates
PROPERTY Served
