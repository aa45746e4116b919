CONSTANTS
  None = None
  Ids = {r1, r2}
  Configs = {c1}
  c1 = c1
  Hosts <- MCHosts
  RequestHosts <- MCRequestHosts
  Extensions <- MCExtensions
  WithoutPort <- MCWithoutPort
  EvaluatorNames = {"w", "v"}
  Issuers <- MCIssuers
  DenyStatuses = {0, 302}
  Timeout = TRUE
SPECIFICATION ServiceSpec
INVARIANTS
  IndexInv
  GetFindsClosestMatch
  GrantsAreDecisions
  DenialsAreNoSuccess
  ServedWhileLinked
PROPERTY ImplementsHostMap
SYMMETRY Symmetry
ACTION_CONSTRAINT IndexChangesBefore
VIEW RequestView
