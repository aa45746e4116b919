CONSTANTS
  None = None
  Names <- MCOneName
  Keys = {"k1"}
  Certs = {}
  ObjectsOf <- MCOneObjectsOf
  InScope <- MCOneName
  ListErrors = FALSE
  MaxChanges = 3
SPECIFICATION Spec
INVARIANTS
  RevokedIsRefused
