CONSTANTS
  InitialHz = 1
  SweepSteps <- TwoHops
  WebHz = {3}
  SignalHz = {3}
  MinHz = 1
  MaxHz = 3
  PeakGuardHz = 1
  NDevices = 2
  Timeout = 1
  W = 6
  Horizon = 2
SPECIFICATION Spec
PROPERTY SweepOnlyWhenUnlocked
