SPECIFICATION Spec
CONSTANTS
  t1 = t1
  t2 = t2
  t3 = t3
  Thread <- ThreeThreads
  Requests <- AllRequests
  MaxAttempts = 2
  MaxUserAttempts = 3
  MaxDeaths = 1
  HeartbeatCovers = FALSE
  LeaseCovers = FALSE
INVARIANT TypeOK
INVARIANT RetryBudget
INVARIANT ClaimsAreDistinct
INVARIANT ClassifyingIsPrivate
PROPERTY SupersededNeverWrites
PROPERTY NewerResultStands
PROPERTY FencedSpec
PROPERTY CancelStopsClaims
SYMMETRY Symmetry
\* A settled case waits for its user, who may never come back.
CHECK_DEADLOCK FALSE
