SPECIFICATION Spec
CONSTANTS
  Conns = {k, l}
  Requests = {q, r}
  ThreadFails = TRUE
  ResumeAtEvent = TRUE
  None = None
INVARIANTS LifetimeInv LoopLetsGo
PROPERTIES RequestAnswered ConnFreed
CHECK_DEADLOCK FALSE
