SPECIFICATION FairSpec
CONSTANTS
  r1 = r1  r2 = r2  s1 = s1  t1 = t1  d1 = d1
  grn = grn  sale = sale  return = return  day = day
  p = p  q = q  m = m  n = n
  Events = {r1, d1}
  Document <- PairDocument
  Kind <- PairKind
  SaleOf <- Reverses
  Moneyless = {d1}
  Unposted = {}
  Slots = {p}
  Clerks = {"k"}
  Payers = {}
  FaultKinds = {"crash"}
  MaxFaults = 1
  MaxOutages = 1
  MaxRetries = 1
PROPERTIES PublishedIsBooked EventSettles
CHECK_DEADLOCK FALSE
