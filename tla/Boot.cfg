SPECIFICATION Spec
CONSTANTS
  Channels = {0, 1}
  LBAs <- MCLBAs
  Entries = 4
  PrimMax = 4
  LogicMax = 3
  Fresh <- MCFresh
  ByteBits = 2
  SectorBytes = 2
  MaxFiles = 4
  InodeBytes = 2
  UInt8 = 3
  MaxFailures = 2
INVARIANTS ScanMatchesTables MountedAsFormatted BlocksInside
PROPERTIES FormatStaysInside StartEnds
CHECK_DEADLOCK FALSE
