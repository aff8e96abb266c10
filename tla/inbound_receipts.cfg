SPECIFICATION Spec
CONSTANTS
  o1 = o1  rice = rice  n1 = n1  n2 = n2  k1 = k1  k2 = k2
  w1 = w1  w2 = w2  owner = owner  manager = manager
  Orders = {o1}
  Skus = {rice}
  Ordered <- TwoBags
  Big = {}
  Buyers = {owner}
  Role <- Users
  Notes = {n1, n2}
  Docks = {k1}
  Slots = {w1, w2}
  Scannable <- AnyRice
  MaxScans = 2
  FaultKinds = {"db", "channel", "crash"}
  MaxFaults = 1
SYMMETRY Alike
INVARIANTS NeverMoreThanArrived ExpectedTotals ClosedMeansReceived
CHECK_DEADLOCK FALSE
