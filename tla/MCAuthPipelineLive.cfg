SPECIFICATION FairSpec
CONSTANTS
  Identity = {i1, i2, i3}
  Metadata = {m1}
  Authorization = {a1}
  Response = {}
  Callbacks = {c1}
  i1 = i1
  i2 = i2
  a1 = a1
  i3 = i3
  c1 = c1
  m1 = m1
  Evaluators <- MCEvaluators
  PhaseOf <- MCPhaseOf
  Priorities = {0}
  ExtensionErrors = TRUE
  Timeouts = TRUE
  None = None
CHECK_DEADLOCK FALSE
PROPERTY AllReturn
