CONSTANTS
  None = None
  Ids <- MCIds
  Configs <- MCConfigs
  Hosts <- MCHosts
  SpecsOf <- MCFailuresSpecsOf
  Workers = {w1, w2}
  TranslateErrors = {"none", "started"}
  ApiErrors = TRUE
  AllowSupersedingHostSubsets = TRUE
  MaxChanges = 3
SPECIFICATION Spec
INVARIANTS
  DeletedIsUnlinked
  ReportIsTrue
  NoLeakedWorker
  StoppedOnce
  OneConfigToClean
PROPERTIES
  HostNotStolen
CHECK_DEADLOCK FALSE
