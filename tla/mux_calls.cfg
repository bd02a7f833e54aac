SPECIFICATION Spec
CONSTANTS
  Coroutines = {a, b, c}
  Peers = {p, q}
  NSlots = 1
  MaxCalls = 1
  Faults = {"connect", "close", "silence", "stop"}
  None = None
SYMMETRY Symmetry
INVARIANTS MuxInv LiveUntilBroken
CHECK_DEADLOCK FALSE
