SPECIFICATION Spec
CONSTANTS
  M = 3
  Poly = {0, 1, 3}
  N = 7
  NPAR = 6
  MaxHits = 2
  Sent <- MCSent
  Errors <- MCErrors
CHECK_DEADLOCK FALSE
INVARIANT Corrects
