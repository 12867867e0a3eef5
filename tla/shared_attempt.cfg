SPECIFICATION Spec
CONSTANTS
  t1 = t1
  t2 = t2
  t3 = t3
  Thread <- ThreeThreads
  Requests <- CreateAndRetry
  MaxAttempts = 3
  MaxUserAttempts = 2
  MaxDeaths = 0
  HeartbeatCovers = TRUE
  LeaseCovers = TRUE
INVARIANT OneWorkerPerAttempt
SYMMETRY Symmetry
\* A settled case waits for its user, who may never come back.
CHECK_DEADLOCK FALSE
