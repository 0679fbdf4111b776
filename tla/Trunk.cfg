CONSTANTS
  s1 = s1
  a1 = a1
  a2 = a2
  v1 = v1
  srv = srv
  Sessions = {s1, s2}
  Sources <- MCSources
  Source <- MCSource
  VIPs = {v1}
  ServerIP = srv
  NoVIP = zero
  Probe <- MCProbe
  TxCap = 1
  Loads <- MCLoads
SPECIFICATION Spec
CHECK_DEADLOCK FALSE
INVARIANTS TypeOK ExclusiveVIP PoolExact DrainDelivers
PROPERTIES RefinesTable TeardownCompletes
