SPECIFICATION Spec
CONSTANTS
  Coroutines = {a, b, c}
  Peers = {p}
  NSlots = 1
  MaxCalls = 1
  Faults = {"connect", "close"}
  None = None
PROPERTIES SendReturns
CHECK_DEADLOCK FALSE
