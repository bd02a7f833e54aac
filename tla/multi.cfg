SPECIFICATION Spec
CONSTANTS
  c1 = c1
  c2 = c2
  c3 = c3
  None = None
  Conns <- FewConns
  Hosts = {"h"}
  BucketOf <- SameBucket
  MaxIdle = 1
  IdleTimeout = 0
  ClockBits = 4
  MaxTime = 0
  NEntries = 2
  HostOfEntry <- OneHost
  Secure = {1}
  NAddresses = 2
  MaxBatches = 1
INVARIANTS MultiInv
PROPERTIES PerformReturns
CHECK_DEADLOCK FALSE
