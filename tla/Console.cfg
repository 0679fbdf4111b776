CONSTANTS
  Reqs = {1, 2}
  Loads <- MCLoads
  Cap = 1
  PtyCap = 1
  HistCap = 1
SPECIFICATION Spec
INVARIANTS ReplyIsOwn ChannelsSafe
PROPERTIES CaptureReturns
CHECK_DEADLOCK FALSE
