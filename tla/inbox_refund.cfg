SPECIFICATION Spec
CONSTANTS
  r1 = r1  r2 = r2  s1 = s1  t1 = t1  d1 = d1
  grn = grn  sale = sale  return = return  day = day
  p = p  q = q  m = m  n = n
  Events = {s1, t1}
  Document <- RefundDocument
  Kind <- RefundKind
  SaleOf <- Reverses
  Moneyless = {}
  Unposted = {}
  Slots = {p, q}
  Clerks = {}
  Payers = {}
  FaultKinds = {}
  MaxFaults = 0
  MaxOutages = 0
  MaxRetries = 0
INVARIANT RefundsReverseTheSale
CHECK_DEADLOCK FALSE
