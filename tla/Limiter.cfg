CONSTANTS
  a1 = a1
  a2 = a2
  p1 = p1
  p2 = p2
  Procs <- TwoProcs
  Addrs <- TwoAddrs
  maxAttempts = 3
  blockDur = 3
  failedAuthTTL = 2
  MaxNum = 4
SPECIFICATION FairSpec
INVARIANTS TypeOK BlockHolds FailuresBounded
PROPERTY BlocksEnd
