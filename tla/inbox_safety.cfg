SPECIFICATION Spec
CONSTANTS
  r1 = r1  r2 = r2  s1 = s1  t1 = t1  d1 = d1
  grn = grn  sale = sale  return = return  day = day
  p = p  q = q  m = m  n = n
  Events = {r1, r2}
  Document <- ReceiptDocument
  Kind <- ReceiptKind
  SaleOf <- Reverses
  Moneyless = {}
  Unposted = {r2}
  Slots = {p}
  Clerks = {"k"}
  Payers = {m, n}
  FaultKinds = {"db", "channel", "crash"}
  MaxFaults = 1
  MaxOutages = 0
  MaxRetries = 1
SYMMETRY Alike
INVARIANTS TypeOK BooksAgree PaidOnce
PROPERTY BooksSpec
CHECK_DEADLOCK FALSE
