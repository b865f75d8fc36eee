CONSTANTS
  q1 = q1
  Queries = {q1}
  Order <- MCOrder
  Walls <- MCWalls
  Requests <- MCRequests
  NMax = 3
  CoresPerWorker = 2
  HostCpus = 4
SPECIFICATION FairSpec
INVARIANT TypeOK
INVARIANT Isolated
INVARIANT SummaryIsExact
INVARIANT NothingLost
INVARIANT PercentilesBalanced
INVARIANT VerdictsAgree
PROPERTY EndsQuietly
CHECK_DEADLOCK FALSE
