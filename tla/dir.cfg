SPECIFICATION Spec
CONSTANTS
  Paths <- MCPaths
  NoName = ""
  Data = "data"
  PerSector = 2
  sectors_per_cluster = 2
  LastCluster = 5
  RootLen = 2
  Risks = {}
VIEW WithoutResult
INVARIANTS TypeOK ListsTree OwnClusters DotEntries
PROPERTY ImplementsTree
