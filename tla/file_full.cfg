SPECIFICATION Spec
CONSTANTS
  Names = {n1}
  NoName = NoName
  MaxOpen = 1
  Bytes = {a, b}
  Nul = Nul
  Meta = Meta
  SectorSize = 1
  SectorsPerCluster = 1
  LastCluster = 4
  Cluster0 = 2
  Word = 1000
  EntriesPerFatBlock = 2
  EntriesPerDirBlock = 1
  DirSlots = 2
  Modes <- FileModes
  RoModes = {FALSE}
  RoMounts = {FALSE}
  Usage = {"seek"}
  Faulty = {}
  MaxSize = 4
  MaxCount = 2
  MaxCrashes = 0
  MaxFaults = 0
SYMMETRY BytePermutations
PROPERTY ImplementsPosix
