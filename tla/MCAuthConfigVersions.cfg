CONSTANTS
  Nil = Nil
  Names = {"n1", "n2"}
  Text <- MCText
  Refused = {"bad"}
  SecretData <- MCSecretData
  ClusterWide = TRUE
  InCluster = TRUE
  V1Specs <- MCV1Specs
  V2Specs <- MCV2Specs
  Jsons <- MCJsons
SPECIFICATION VersionsSpec
INVARIANTS
  VersionsTypeOK
  EnforcedAsWritten
  ConditionsAsWritten
PROPERTIES
  EditsChangeNoEffect
  ReadsAreStable
