SPECIFICATION Spec
CONSTANTS
  t1 = t1
  t2 = t2
  t3 = t3
  Threads <- OneThread
  FailureThreshold = 3
  SuccessThreshold = 1
INVARIANTS FailedTrialReopens
