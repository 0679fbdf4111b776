CONSTANTS
  Games = {0, 1}
  Browsers = {b1, b2}
  Backoffs = 2
  Catalog <- MCCatalog
  Wanted <- MCWanted
  DefaultIni <- MCDefaultIni
  Files = {"f1", "f2"}
  Worlds <- MCWorlds
  Edits <- MCEdits
SPECIFICATION NexusSpec
CHECK_DEADLOCK FALSE
INVARIANTS LaunchedIsInstalled MergeIsRight
PROPERTIES OperatorFilesKept SignalEndsNexus
