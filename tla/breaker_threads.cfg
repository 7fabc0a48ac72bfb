SPECIFICATION Spec
CONSTANTS
  t1 = t1
  t2 = t2
  t3 = t3
  Threads <- ThreeThreads
  FailureThreshold = 2
  SuccessThreshold = 2
SYMMETRY ThreadSymmetry
INVARIANTS TypeOK CountedOutIsOpen SoloCallsAreAtomic OpenIsTemporary
