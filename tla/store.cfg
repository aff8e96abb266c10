SPECIFICATION Spec
CONSTANTS
  t1 = t1  t2 = t2  l1 = l1  l2 = l2  l3 = l3  r1 = r1  r2 = r2  r3 = r3  r4 = r4
  e1 = e1  e2 = e2  e3 = e3  e4 = e4  e5 = e5  e6 = e6
  cara = cara  cleo = cleo  mia = mia  max = max  olga = olga  otto = otto  store = store
  Sales = {t1, t2}
  Lines = {l1, l2, l3}
  SaleOf <- LineOf
  Sold <- Bought
  LineTotal <- Cents
  Cashier <- Till
  Returns = {r1, r2, r3, r4}
  Entries = {e1, e2, e3, e4, e5, e6}
  RequestOf <- Request
  Names <- Named
  Wanted <- Want
  Managers = {max, mia}
  Clerks = {cara}
  LastDay = 2
  Slots = {1, 2}
  MaxMishaps = 2
  People = {olga, otto, mia}
  Roles = {"OWNER", "CASHIER"}
  FirstRole <- First
  Places = {store}
  MaxFailedAttempts = 2
  Tries = {1, 2}
  MaxVersion = 2
  Store = store
  Boss = otto
  Plans <- Few
INVARIANTS TypeOK SalesCountedOnce ReturnsFitTheSale ClosedOnItsCount SessionsTellTheTruth OwnerRemains SettledBeforeClosed
CHECK_DEADLOCK FALSE
