SPECIFICATION FairSpec
CONSTANTS
  o1 = o1
  c1 = c1
  Orders <- OneOrder
  Clients <- OneClient
  MaxRetries = 0
  FailureThreshold = 1
  SuccessThreshold = 1
  InTransitKey = "delivery.in_transit"
  RestaurantCalls = {}
  Dispatched <- Nobody
  MaxUnread = 2
  MaxDirectPayments = 0
  Free <- OneOrder
  MaxDirectRefunds = 0
  MaxLost = 0
  MaxRestarts = 0
  MaxPaymentRestarts = 0
PROPERTIES SagaContinues
CHECK_DEADLOCK FALSE
