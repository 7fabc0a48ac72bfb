SPECIFICATION Spec
CONSTANTS
  o1 = o1
  d1 = d1
  x1 = x1
  x2 = x2
  c1 = c1
  c2 = c2
  Consumer = consumer
  NoOne = no_one
  Orders <- OneOrder
  Deliverers <- OneDeliverer
  Ids <- TwoIds
  Clients <- TwoClients
  MaxFaults = 1
INVARIANTS TypeOK NoStrandedDeliverer BookedOnce DeliveredIsAnnounced
PROPERTIES AckedIsAssigned ReadyIsAssigned
