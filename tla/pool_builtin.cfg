SPECIFICATION Spec
CONSTANTS
  Requests <- BuiltinRequests
  LoopOf <- BuiltinLoopOf
  Transport <- BuiltinTransport
  NWorkers = 2
  BackendLoops = 2
  NLoops = 3
  CoMax = 1
  NoReq = NoReq
INVARIANTS TypeOK Placed DrainComplete CoroutinesCounted
PROPERTIES LifecycleSpec EveryRequestFinishes StopEnds
CHECK_DEADLOCK FALSE
