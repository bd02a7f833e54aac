SPECIFICATION Spec
CONSTANTS
  Requests <- MhdRequests
  LoopOf <- MhdLoopOf
  Transport <- MhdTransport
  NWorkers = 1
  BackendLoops = 1
  NLoops = 2
  CoMax = 0
  NoReq = NoReq
INVARIANT NoneSuspendedAfterStop
CHECK_DEADLOCK FALSE
