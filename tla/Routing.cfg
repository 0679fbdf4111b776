SPECIFICATION RouteSpec
CONSTANTS
  Insts = 3
  Capacities = {2, 3}
  MaxPicks = 2
  MaxChanges = 1
INVARIANTS
  ScanFindsLeastLoaded
  TiesTakeTurns
  FiguresBelongTogether
CHECK_DEADLOCK FALSE
