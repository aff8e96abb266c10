SPECIFICATION Spec
CONSTANTS
  c1 = c1  c2 = c2  c3 = c3  milk = milk  soap = soap
  Checkouts = {c1, c2, c3}
  Skus = {milk, soap}
  Cart <- ThreeTills
  Stock0 <- Plenty
  LeadDays = 7
  WindowDays = 14
  Deliveries = {1}
  FaultKinds = {}
  MaxFaults = 0
INVARIANTS TypeOK RejectedHoldsNothing LevelsMatchReservations LowStockReported
CHECK_DEADLOCK FALSE
