SPECIFICATION FairSpec
CONSTANTS
  Kinds = {"RS41", "M10", "DFM"}
  ByteBits = 2
  FrameBytes = 3
  MinBits = 2
  MaxBits = 6
CHECK_DEADLOCK TRUE
INVARIANTS
  TypeOK
  WholeFrames
PROPERTIES
  LateOnlyAfterCapture
  CaptureEnds
