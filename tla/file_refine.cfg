SPECIFICATION Spec
CONSTANTS
  Names = {n1}
  NoName = NoName
  MaxOpen = 1
  Bytes = {a, b}
  Nul = Nul
  Meta = Meta
  SectorSize = 2
  SectorsPerCluster = 2
  LastCluster = 3
  Cluster0 = 3
  Word = 1000
  EntriesPerFatBlock = 2
  EntriesPerDirBlock = 1
  DirSlots = 1
  Modes <- ReadWrite
  RoModes = {FALSE}
  RoMounts = {FALSE}
  Usage = {"seek"}
  Faulty = {}
  MaxSize = 5
  MaxCount = 2
  MaxCrashes = 0
  MaxFaults = 0
SYMMETRY BytePermutations
PROPERTY ImplementsPosix
