SPECIFICATION StartSpec
CONSTANTS
  FileNames <- Libs
  RequiredLibs <- Libs
  FolderNames <- SomeFolders
  Fallbacks <- SomeFallbacks
  SearchRoots <- SomeSearchRoots
  RuntimeDirs <- SomeRuntimeDirs
  RvglProbes <- SomeRvgl
  GameProbes <- SomeGame
  MusicProbes = {}
  PackProbes <- SomePacks
  StockLevels <- SomeLevels
  FingerprintDirs <- SomeDirs
  Cards <- SomeCards
  Wares <- SomeWares
  Moves <- SomeMoves
  Argvs <- SomeArgvs
  Ages = 1
  MaxChanges = 1
  MaxFaults = 0
INVARIANTS ScanIsCurrent
CHECK_DEADLOCK FALSE
