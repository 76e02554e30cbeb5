SPECIFICATION Spec
CONSTANTS
  Names = {n1}
  NoName = NoName
  MaxOpen = 2
  Bytes = {a}
  Nul = Nul
  Meta = Meta
  SectorSize = 1
  SectorsPerCluster = 1
  LastCluster = 3
  Cluster0 = 2
  Word = 1000
  EntriesPerFatBlock = 1
  EntriesPerDirBlock = 2
  DirSlots = 3
  Modes <- AnyUse
  RoModes = {FALSE}
  RoMounts = {FALSE}
  Usage = {"share", "unlinkopen", "truncclose"}
  Faulty = {"zero", "delete", "lookup", "first", "slot", "parent", "search", "reread"}
  MaxSize = 1
  MaxCount = 1
  MaxCrashes = 0
  MaxFaults = 1
VIEW WithoutResult
PROPERTY MetadataKept
CHECK_DEADLOCK FALSE
