SPECIFICATION Spec
CONSTANTS
  o1 = o1
  c1 = c1
  Orders <- OneOrder
  Clients <- OneClient
  MaxRetries = 0
  FailureThreshold = 1
  SuccessThreshold = 1
  InTransitKey = "delivery.in_progress"
  RestaurantCalls = {"OrderAccepted", "OrderPreparing", "OrderReady", "OrderRejected"}
  Dispatched <- OneOrder
  MaxUnread = 1
  MaxDirectPayments = 0
  Free <- Nobody
  MaxDirectRefunds = 1
  MaxLost = 1
  MaxRestarts = 0
  MaxPaymentRestarts = 0
INVARIANTS ServedOrdersArePaid RefundMeansCancelling
PROPERTIES ImplementsLifecycle
CHECK_DEADLOCK FALSE
