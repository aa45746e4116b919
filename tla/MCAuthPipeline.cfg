SPECIFICATION Spec
CONSTANTS
  Identity = {i1, i2}
  Metadata = {}
  Authorization = {a1, a2}
  Response = {r1, r2}
  Callbacks = {c1}
  i1 = i1
  i2 = i2
  a1 = a1
  a2 = a2
  r1 = r1
  r2 = r2
  c1 = c1
  Evaluators <- MCEvaluators
  PhaseOf <- MCPhaseOf
  Priorities = {0, 1}
  ExtensionErrors = TRUE
  Timeouts = FALSE
  None = None
CHECK_DEADLOCK FALSE
SYMMETRY Symmetry
INVARIANT OKMeansAllGranted
INVARIANT DeniedForCause
INVARIANT CallbacksAreCalled
INVARIANT BlocksInSequence
