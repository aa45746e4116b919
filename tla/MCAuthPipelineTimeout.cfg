SPECIFICATION Spec
CONSTANTS
  Identity = {i1}
  Metadata = {}
  Authorization = {a1}
  Response = {}
  Callbacks = {}
  i1 = i1
  a1 = a1
  Evaluators <- MCEvaluators
  PhaseOf <- MCPhaseOf
  Priorities = {0}
  ExtensionErrors = FALSE
  Timeouts = TRUE
  None = None
CHECK_DEADLOCK FALSE
SYMMETRY Symmetry
INVARIANT OKMeansAllGranted
