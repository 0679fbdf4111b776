CONSTANTS
  Ids = {1, 2, 3}
  MaxInstances = 2
  Cap = 1
  Headroom = 1
  DespawnPolls = 1
  MaxCrashes = 1
SPECIFICATION Spec
INVARIANTS CapRespected MarksOwned LastNeverDespawned
