SPECIFICATION Spec
CONSTANTS
  Volumes <- MCVolumes
  Image <- MCImage
  Home <- MCHome
  Tree <- MCTree
  Paths <- MCPaths
  Modes <- MCModes
  Handles = {1, 2}
  PerSector = 4
  DescPerSector = 1
  InodesPerSector = 2
  s_inodes_per_group = 3
  part_start = 1
  RootIno = 2
  Direct = 3
  Word = 65536
  Lengths = {5}
  Seeks = {2, 9}
  NewData <- MCNewData
  MaxMounts = 2
  Risks = {}
INVARIANT TypeOK
PROPERTIES ListsRecords UmountInPlace ImplementsFiles
VIEW WithoutResult
CHECK_DEADLOCK FALSE
