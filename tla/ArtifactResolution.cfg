SPECIFICATION Spec
CONSTANTS
  NameOrder <- MCNameOrder
  FoldOf <- MCFoldOf
  Dirs <- MCDirs
  Files <- MCFiles
  Root = "root"
  Outside = "outside"
  Secret = "secret"
  Oversize = {"big"}
  ExcludedFile <- MCManifest
  ExcludedTree <- MCCache
  MaxMembers = 7
  None = none
  PackPath <- MCPack
  ManifestPath <- MCManifest
  SdlMembers <- MCSdl
  DirectDocs <- MCSdl
  Paths <- MCPaths
  Versions = {"v1", "v2"}
  Manifests <- MCManifests
  Unparsable = {"bad", "secret"}
  Operations <- MCOperations
  InitialDirs <- MCDirsInit
  InitialFiles <- MCFilesInit
  Saves <- MCSaves
  MaxChanges = 2
INVARIANTS
  NothingOutsideIsOpened
  ResultIsBound
  AcceptedTreeExisted
CHECK_DEADLOCK FALSE
