\* The card need not be written to, the engine may stay where it is: boots just end.
SPECIFICATION BootSpec
CONSTANTS
  PackSize = 2
  Budget = 3
  RenameReplaces = FALSE
  MaxBuilds = 3
  MaxStops = 3
  Modules <- SomeModules
  Symbols = {"sf_open", "malloc"}
  FileNames <- Libs
  RequiredLibs <- Libs
  FolderNames <- SomeFolders
  Fallbacks <- SomeFallbacks
  SearchRoots <- SomeSearchRoots
  RuntimeDirs <- SomeRuntimeDirs
  RvglProbes <- SomeRvgl
  GameProbes <- SomeGame
  MusicProbes = {}
  PackProbes <- SomePacks
  StockLevels <- SomeLevels
  FingerprintDirs <- SomeDirs
  Cards <- SomeCards
  Wares <- SomeWares
  Moves <- SomeMoves
  Argvs <- SomeArgvs
  Ages = 1
  MaxChanges = 2
  MaxFaults = 1
INVARIANTS InstalledIsGood OpenPackStays BudgetBalances ReadsWhatIsThere ImportsCallable
INVARIANTS CoveredIsCurrent PrintsLand
PROPERTIES KeepsOldUntilVerified Heals Starts
CHECK_DEADLOCK FALSE
