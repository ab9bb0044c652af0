SPECIFICATION AllSpec
CONSTANTS
  Active = {"compose", "load", "theme", "sync", "update", "history", "sudo", "host", "deploy",
    "check", "backup", "pins"}
  CNames <- PathNames
  CLinesOf <- DottedNames
  CStripOf <- TemplateNames
  CParts <- PartNames
  CInputs <- Cases
  LHome <- h
  LDotfilesRoot <- dots
  LConfigDir <- Elsewhere
  LGitRoots <- Repositories
  LContent <- Directories
  LLocked <- LockedTags
  LCommands <- Loads
  LDisks <- StartingDisks
  LSaves <- SavedTexts
  LMaxEdits = 1
  ISettings <- ThemeSettings
  ILibraries <- MasterSets
  IDefaultContext = "apps"
  IFlags <- ThemeFlags
  ISizes = {"16x16"}
  IMaxDisturbances = 1
  GHosts <- SyncHosts
  GRepositories <- SyncCases
  GMaxEdits = 3
  GMaxDeletes = 1
  GMaxRuns = 2
  GMaxInterrupts = 1
  UProcs = {1, 2}
  UMaxVersion = 2
  UMaxStarts = 2
  UMaxKills = 1
  DNames = {"x", "y"}
  DDirs = {"home"}
  DBashFiles <- HistoryFiles
  DLimits = {2}
  DImporters = {1, 2}
  DMaxRows = 3
  DMaxOld = 2
  DMaxTime = 2
  QSlugs = {"rebuild", "other"}
  QOperators = {1, 2}
  QMaxCommands = 3
  QMaxKills = 1
  NUsers = {"u"}
  NOperators = {1}
  NActions = {"boot"}
  NProfiles <- HostProfiles
  NMaxCommands = 2
  NMaxKills = 1
  NMaxGenerations = 3
  NMaxMoves = 1
  PTasks = {1, 2}
  PNodeOf <- BothToOne
  PActions = {"auto", "switch"}
  PNixpkgsOf <- PinnedNixpkgs
  PMaxRevision = 3
  PMaxRestarts = 1
  KRequests <- CheckRequests
  KTrees <- CheckTrees
  KSkipped = {"vendor"}
  KFound <- CheckFound
  KMaxEdits = 1
  BActions = {1, 2, 3}
  BKinds = {"git_repo_sync", "rsync", "archive"}
  BIOSlots = 1
  BMaxLines = 2
  SMachines = {1, 2}
  SCommits = {"a", "b"}
  SBranches = {"main", "dev"}
  STags <- ListedTags
  SText <- TagText
  SHexTags <- HexNames
  SAccepts <- Patterns
  SGroups <- PatternGroups
  SStarts <- PinStarts
  SVersions <- PinVersions
  SPageSize = 2
  SMaxPages = 2
  SMaxRuns = 2
  SMaxMoves = 1
INVARIANTS SaysAll Settled OneFilePerPath LoadIsAtomic ModuleWhole RefsAgree ThemeMatches
  BackupReturns NothingLost Saved OnlyUsersDelete Runnable ImportedOnce Listed Waits StillMeant
  Deployed Annotated Pinned
CHECK_DEADLOCK FALSE
