CONSTANTS
  Loads <- MCLoads
SPECIFICATION StartSpec
CHECK_DEADLOCK FALSE
INVARIANTS ResolvedIsOwn
PROPERTIES ComesOnline StartSettles ListenersEnd
