SPECIFICATION Spec
CONSTANTS
  o1 = o1
  c1 = c1
  c2 = c2
  Consumer = consumer
  Nobody = nobody
  Orders <- OneOrder
  Clients <- TwoClients
  Amount = 2
  FlakyErrors = 2
  MaxRetries = 3
  MaxPosts = 2
  MaxRestarts = 1
CHECK_DEADLOCK FALSE
INVARIANTS TypeOK ChargedOnce ProcessingIsWorkedOn RefundsAreCovered RefundedWhenAllIs FlakyIsPaid
PROPERTIES AckedHasPayment OrdersAreTaken ImplementsLedger
