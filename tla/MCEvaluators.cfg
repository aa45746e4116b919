CONSTANTS
  Nil = Nil
  EvaluatorKinds = {"secrets", "oidc", "opa", "http", "forced"}
  Requests = {q1, q2}
  CacheKeys = {k1}
  Documents = {d1, d2, d3}
  Broken = {d3}
  MaxPublished = 2
  None = None
  Names <- MCNames
  Keys = {"k1", "k2"}
  Certs = {"ca1", "ca2"}
  ObjectsOf <- MCObjectsOf
  InScope <- MCInScope
  ListErrors = TRUE
  MaxChanges = 3
SPECIFICATION MCFairSpec
INVARIANTS
  OneKeyPerSecret
  RevokedIsRefusedUnlessMissed
  ValidIsAccepted
  IdentityHasProvider
  PolicyIsOfRego
PROPERTIES
  CachesCatchUp
  RefreshedEventually
  StoppedWorkerExits
  AnswersCatchUp
