CONSTANTS
  NoFile = NoFile
  Nothing = Nothing
  Files <- SomeFiles
  CommandLines <- SomeCommandLines
  Carriers <- TwoCarriers
  TuneHz = {403900000, 404800000}
  PeakGuardHz = 10000
  RawFrames <- SomeFrames
  MinHz = 400050000
  MaxHz = 406000000
  ThresholdDb = 8
  SampleRate = 2400000
  HistoryCap = 2
  PointCap = 2
  StepSec = 10
  MaxSec = 50
  MaxFrames = 3
SPECIFICATION Spec
INVARIANTS TypeOK SettingsHonoured ScannerSeesCarriers SinksAgree PredictionLands PathParses PositionsAreWhole
PROPERTIES FlightSurvives
CHECK_DEADLOCK FALSE
