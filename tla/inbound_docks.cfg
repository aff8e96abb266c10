SPECIFICATION Spec
CONSTANTS
  o1 = o1  rice = rice  n1 = n1  n2 = n2  k1 = k1  k2 = k2
  w1 = w1  w2 = w2  owner = owner  manager = manager
  Orders = {o1}
  Skus = {rice}
  Ordered <- TwoBags
  Big = {o1}
  Buyers = {owner, manager}
  Role <- Users
  Notes = {n1}
  Docks = {k1, k2}
  Slots = {w1}
  Scannable <- AnyRice
  MaxScans = 2
  FaultKinds = {}
  MaxFaults = 0
SYMMETRY Alike
INVARIANTS TypeOK NothingReceivedUnapproved ClosedMeansReceived
CHECK_DEADLOCK FALSE
