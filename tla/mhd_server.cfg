SPECIFICATION ServerSpec
CONSTANTS
  Requests <- MhdRequests
  LoopOf <- MhdLoopOf
  Transport <- MhdTransport
  NWorkers = 1
  BackendLoops = 1
  NLoops = 1
  CoMax = 1
  NoReq = NoReq
  Streamed = 1
  BodyMax = 1
  MaxPieces = 2
  MaxWritten = 3
  MaxLen = 2
  PendingMax = 2
INVARIANTS ResumesSuspended StreamInv BodyWhole StopSafe
PROPERTIES ConnectionsEnd EndedStreamIsOver
CHECK_DEADLOCK FALSE
