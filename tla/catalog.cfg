SPECIFICATION Spec
CONSTANTS
  t1 = t1
  t2 = t2
  m1 = m1
  m2 = m2
  e1 = e1
  n1 = n1
  empty = empty
  Empty = empty
  Threads <- TwoThreads
  Names <- TwoNames
  Menus <- TwoMenus
  Dishes <- OneDish
  MaxRequests = 4
  MaxFaults = 1
INVARIANTS TypeOK IndexCatchesUp RatingsAgree RatingCatchesUp
PROPERTIES EventuallyShown
CHECK_DEADLOCK FALSE
