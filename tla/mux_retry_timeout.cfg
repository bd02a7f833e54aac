SPECIFICATION Spec
CONSTANTS
  Coroutines = {a, b}
  Peers = {p}
  NSlots = 1
  MaxCalls = 1
  Faults = {"silence"}
  None = None
INVARIANT NoRetryAfterTimeout
CHECK_DEADLOCK FALSE
