SPECIFICATION Safety
CONSTANTS
  Games = {g1}
  Browsers = {b1}
  Backoffs = 1
INVARIANTS
  GracefulStopsServers
CHECK_DEADLOCK FALSE
