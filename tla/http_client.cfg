SPECIFICATION Spec
CONSTANTS
  t1 = t1
  t2 = t2
  c1 = c1
  c2 = c2
  c3 = c3
  None = None
  Threads <- SomeThreads
  Conns <- SomeConns
  Hosts = {"h", "i"}
  BucketOf <- SameBucket
  MaxIdle = 2
  IdleTimeout = 0
  ClockBits = 4
  MaxTime = 1
  MaxCalls = 1
  MaxRedirects = 1
SYMMETRY Symmetric
INVARIANTS ClientInv WrittenTwiceAtMost
PROPERTIES OnlyExpiredEvicted
CHECK_DEADLOCK FALSE
