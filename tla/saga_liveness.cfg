SPECIFICATION FairSpec
CONSTANTS
  o1 = o1
  c1 = c1
  Orders <- OneOrder
  Clients <- OneClient
  MaxRetries = 1
  FailureThreshold = 2
  SuccessThreshold = 1
  InTransitKey = "delivery.in_transit"
  RestaurantCalls = {"OrderRejected"}
  Dispatched <- Nobody
  MaxUnread = 2
  MaxDirectPayments = 1
  Free <- Nobody
  MaxDirectRefunds = 1
  MaxLost = 0
  MaxRestarts = 1
  MaxPaymentRestarts = 1
INVARIANTS TypeOK  PaymentUnderWay
PROPERTIES PaymentResolves QueuesDrain RefundEndsOrder ImplementsLedger
CHECK_DEADLOCK FALSE
