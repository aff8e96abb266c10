SPECIFICATION Spec
CONSTANTS
  rice = rice  soap = soap  wh = wh  shop = shop  near = near  far = far
  r1 = r1  r2 = r2  t1 = t1  t2 = t2  b1 = b1  s1 = s1  a1 = a1  c1 = c1  k1 = k1  k2 = k2
  ann = ann  bob = bob  crew = crew  lou = lou  max = max
  Skus = {rice, soap}
  Sites = {wh, shop}
  Documents = {r1, r2, t1, t2, b1, s1, a1}
  Counts = {c1}
  Kind <- Kinds0
  LinesOf <- Lines0
  Opening <- OnBooks
  Found <- OnShelf
  Listed = {rice}
  Copies = {1, 2}
  Slots = {1, 2}
  MaxFaults = 2
  Managers = {ann, bob}
  Staff = {}
  Site <- AtWarehouse
  Scope <- RiceOnly
  Bins = {near, far}
  Capacity <- RoomOf
  Priority <- Nearness
  Goods = {rice}
  Size <- UnitSize
  Fast = {rice}
  Tasks = {k1, k2}
  Task <- Putaways
  Transfers = {t1, t2}
  Asked <- Moves
  Stored <- OnShelves
  Hands = {crew, lou, max}
  Consumer = crew
  MaxFailures = 1
  ReceiptOf <- FromNote
  Plans <- Few
INVARIANTS TypeOK MovedOnce CountCorrects JournalExplains RoomIsAccounted PromisesAreKept CopyIsRight TransfersInOrder
SYMMETRY Alike
CHECK_DEADLOCK FALSE
