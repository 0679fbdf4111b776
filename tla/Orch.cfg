CONSTANTS
  Admins = {a}
  Scaler = {s}
  ConfigLines = 1
  MaxObjs = 2
  MaxRecs = 3
  MaxProcs = 2
  Ports = {1, 2}
  Ops <- AllOps
  MaxOps = 2
SPECIFICATION Spec
INVARIANTS IndexesAgree NoOrphan Reachable NothingLeftRunning
PROPERTIES RestartsTheSame
CHECK_DEADLOCK FALSE
