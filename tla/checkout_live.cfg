SPECIFICATION FairSpec
CONSTANTS
  c1 = c1  c2 = c2  c3 = c3  milk = milk  soap = soap
  Checkouts = {c1, c2}
  Skus = {milk, soap}
  Cart <- CrossedCarts
  Stock0 <- Scarce
  LeadDays = 7
  WindowDays = 14
  Deliveries = {1, 2}
  FaultKinds = {"channel"}
  MaxFaults = 1
PROPERTIES CheckoutEnds SaleReachesStock
CHECK_DEADLOCK FALSE
