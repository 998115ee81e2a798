SPECIFICATION Spec
CONSTANTS
  M = 3
  Poly = {0, 1, 3}
  N = 7
  NPAR = 6
  MaxHits = 4
  Sent <- MCSent
  Errors <- MCErrors
CHECK_DEADLOCK FALSE
INVARIANTS
  TypeOK
  RegisterPredicts
  LocatesErrors
  FailureIsHarmless
