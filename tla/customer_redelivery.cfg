SPECIFICATION Spec
CONSTANTS
  alice = alice
  bob = bob
  e1 = e1
  e2 = e2
  a1 = a1
  a2 = a2
  o1 = o1
  o2 = o2
  c1 = c1
  c2 = c2
  Stranger = stranger
  Nobody = nobody
  Consumer = consumer
  Customers <- TwoCustomers
  Emails <- TwoEmails
  AddressIds <- TwoAddresses
  Orders <- TwoOrders
  Strays <- OneStray
  Clients <- TwoClients
  MaxRequests = 2
  MaxFaults = 1
INVARIANTS OrdersAreListedOnce
CHECK_DEADLOCK FALSE
