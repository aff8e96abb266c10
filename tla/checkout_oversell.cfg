SPECIFICATION Spec
CONSTANTS
  c1 = c1  c2 = c2  c3 = c3  milk = milk  soap = soap
  Checkouts = {c1, c2}
  Skus = {milk, soap}
  Cart <- OneEach
  Stock0 <- LastUnit
  LeadDays = 7
  WindowDays = 14
  Deliveries = {1}
  FaultKinds = {}
  MaxFaults = 0
INVARIANTS NeverOverAllocated
CHECK_DEADLOCK FALSE
