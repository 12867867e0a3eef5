SPECIFICATION FairSpec
CONSTANTS
  t1 = t1
  t2 = t2
  t3 = t3
  Thread <- TwoThreads
  Requests <- AllRequests
  MaxAttempts = 3
  MaxUserAttempts = 2
  MaxDeaths = 1
  HeartbeatCovers = FALSE
  LeaseCovers = FALSE
PROPERTY NoJobAbandoned
\* A settled case waits for its user, who may never come back.
CHECK_DEADLOCK FALSE
