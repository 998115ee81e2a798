CONSTANTS
  Dongles = 2
  Names = {"auto", "nuand", "rspdx"}
  Decimation = 50
  Wave <- SomeWave
  Amplitudes = {0, 1, 3}
  Capacity = 3
  MaxBlock = 3
SPECIFICATION FairSpec
INVARIANTS TypeOK OneCallbackAtATime QuietAfterStop RetuneTakesEffect DecimatorKeepsRate AlignedSum
PROPERTIES CombinesNewest StopEnds
CHECK_DEADLOCK FALSE
