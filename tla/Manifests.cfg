CONSTANTS
  r1 = r1
  r2 = r2
  r3 = r3
  g1 = g1
  Refs = {r1, r2, r3}
  Paks = {"pak2", "pak10", "xtra"}
  PakSortKey <- MCPakSortKey
  LooseNames <- MCLoose
  NormalizeVFSKey <- MCKey
  Entries <- MCEntries
  Malformed = malformed
  Loads <- MCLoads
  Gets = {g1}
  TTL = 1
  MaxLive = 2
  Never = never
SPECIFICATION Spec
CHECK_DEADLOCK FALSE
INVARIANTS InSync ListsTheTree
