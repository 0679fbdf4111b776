SPECIFICATION TreeSpec
CONSTANTS
  Dirs = {"maps"}
  Files <- MCFiles
  Lower <- MCLower
  MaxChanges = 3
INVARIANTS
  Mirrors
PROPERTIES
  CatchesUp
CHECK_DEADLOCK FALSE
