SPECIFICATION Spec
CONSTANTS
  o1 = o1
  c1 = c1
  Orders <- OneOrder
  Clients <- Nobody
  MaxRetries = 0
  FailureThreshold = 1
  SuccessThreshold = 1
  InTransitKey = "delivery.in_transit"
  RestaurantCalls = {}
  Dispatched <- OneOrder
  MaxUnread = 2
  MaxDirectPayments = 0
  Free <- Nobody
  MaxDirectRefunds = 0
  MaxLost = 0
  MaxRestarts = 0
  MaxPaymentRestarts = 0
PROPERTIES CancelledIsFinal
CHECK_DEADLOCK FALSE
