CONSTANTS
  None = None
  Ids <- MCIds
  Configs <- MCConfigs
  Hosts <- MCHosts
  SpecsOf <- MCMovesSpecsOf
  Workers = {w1, w2}
  TranslateErrors = {}
  ApiErrors = FALSE
  AllowSupersedingHostSubsets = FALSE
  MaxChanges = 3
SPECIFICATION Spec
INVARIANTS
  CleansOwnConfig
CHECK_DEADLOCK FALSE
