SPECIFICATION Spec
CONSTANTS
  Paths <- MCPaths
  Under <- MCUnder
  Length <- MCLength
  Depth <- MCDepth
  DataPartitions = {"p1", "p3"}
  Fstabs <- MCFstabs
  MaxFaults = 2
  MaxMounts = 5
INVARIANTS
  AttachedSeesPreparedTable
  CheckedUnmounted
  MountsStayRecorded
  NothingLeft
