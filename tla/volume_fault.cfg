SPECIFICATION Spec
CONSTANTS
  Names = {n1, n2}
  NoName = NoName
  MaxOpen = 2
  Bytes = {a}
  Nul = Nul
  Meta = Meta
  SectorSize = 1
  SectorsPerCluster = 1
  LastCluster = 4
  Cluster0 = 2
  Word = 1000
  EntriesPerFatBlock = 2
  EntriesPerDirBlock = 2
  DirSlots = 2
  Modes <- ReadWrite
  RoModes = {FALSE}
  RoMounts = {FALSE}
  Usage = {}
  Faulty = {"flush", "data", "info", "next", "chain", "sector", "select", "seek", "free", "lookup", "first", "slot"}
  MaxSize = 2
  MaxCount = 1
  MaxCrashes = 0
  MaxFaults = 2
SYMMETRY NamePermutations
VIEW WithoutResult
INVARIANTS NoCrossLink SizeCovered
PROPERTIES WritesOwnCluster OthersUntouched
