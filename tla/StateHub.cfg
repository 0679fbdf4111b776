CONSTANTS
  Conns = {c1}
  Loop = loop
  Nil = nil
  MaxChange = 2
  StreamCap = 1
SPECIFICATION Spec
INVARIANTS NoLostWakeup
PROPERTIES LastNeverRegresses ViewNeverRegresses Converges
