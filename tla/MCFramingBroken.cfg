SPECIFICATION Spec
CONSTANTS
  Kinds = {"DFM"}
  ByteBits = 2
  FrameBytes = 3
  MinBits = 2
  MaxBits = 6
CHECK_DEADLOCK TRUE
INVARIANT AssemblyFits
