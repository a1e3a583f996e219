SPECIFICATION FairSpec
CONSTANTS
  HeapUnits = 6
  GcLimit = 2
INVARIANTS
  TypeOK
  FreeListSorted
  Coalesced
  NoOverlap
  NoLeak
  SkipPointerValid
  AllocatedSizeExact
  LimitTracksAllocation
  FailsOnlyWhenFull
PROPERTIES
  KeepsPromise
  CallsReturn
