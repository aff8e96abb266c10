SPECIFICATION Spec
CONSTANTS
  c1 = c1  c2 = c2  c3 = c3  milk = milk  soap = soap
  Checkouts = {c1, c2}
  Skus = {milk, soap}
  Cart <- SmallCarts
  Stock0 <- Plenty
  LeadDays = 7
  WindowDays = 14
  Deliveries = {1, 2, 3}
  FaultKinds = {"grpc", "db", "retail", "inventory"}
  MaxFaults = 2
INVARIANTS SoldLinesStayHeld SoldOnce AckedSalesLeftStock
PROPERTIES BookSpec
CHECK_DEADLOCK FALSE
