SPECIFICATION FairSpec
CONSTANTS
  t1 = t1
  t2 = t2
  t3 = t3
  Thread <- OneThread
  Requests <- CreateAndRetry
  MaxAttempts = 3
  MaxUserAttempts = 3
  MaxDeaths = 0
  HeartbeatCovers = TRUE
  LeaseCovers = TRUE
PROPERTY RetryLeavesQueue
\* A settled case waits for its user, who may never come back.
CHECK_DEADLOCK FALSE
