CONSTANTS
  None = None
  Ids <- MCIds
  Configs <- MCConfigs
  Hosts <- MCHosts
  SpecsOf <- MCSpecsOf
  Workers = {}
  TranslateErrors = {}
  ApiErrors = FALSE
  AllowSupersedingHostSubsets = FALSE
  MaxChanges = 4
SPECIFICATION FairSpec
INVARIANTS
  ReadyOnceReconciled
PROPERTIES
  RequestsNotTakenOver
  EventuallyUnlinked
  FreeHostEventuallyLinked
CHECK_DEADLOCK FALSE
