SPECIFICATION FairSpec
CONSTANTS
  Names = {n1}
  NoName = NoName
  MaxOpen = 1
  Bytes = {a}
  Nul = Nul
  Meta = Meta
  SectorSize = 1
  SectorsPerCluster = 1
  LastCluster = 4
  Cluster0 = 2
  Word = 1000
  EntriesPerFatBlock = 1
  EntriesPerDirBlock = 1
  DirSlots = 2
  Modes <- ReadWrite
  RoModes = {FALSE}
  RoMounts = {FALSE}
  Usage = {"seek"}
  Faulty = {"flush", "data", "entry", "info", "next", "chain", "sector", "select", "seek", "free", "zero", "delete", "lookup", "first", "slot"}
  MaxSize = 3
  MaxCount = 1
  MaxCrashes = 0
  MaxFaults = 1
PROPERTY CallsReturn
