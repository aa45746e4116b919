CONSTANTS
  None = None
  Hosts = {"a", "b"}
  Specs <- MCSpecs
  MaxChanges = 4
SPECIFICATION FairSpec
INVARIANTS
  StatusAgrees
  NotReadyIsRevisited
  StatusIsCurrent
PROPERTIES
  StatusCatchesUp
CHECK_DEADLOCK FALSE
