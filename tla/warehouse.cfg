SPECIFICATION Together
CONSTANTS
  p1 = p1
  NoRequest = NoRequest
  NoJob = NoJob
  Nowhere = Nowhere
  Workers = {k1, k2}
  Products = {p1}
  Warehouses = {w1, w2}
  Bundles = {}
  Physical = {p1}
  Bills <- NoBills
  Amounts = {1}
  MaxInt = 2
  MaxReserved = 1
  MaxMoved = 0
  MaxNet = 2
  Shipments = {s1}
  Underway = {"CREATED"}
  Loads <- OneLine
SYMMETRY WorkerSymmetry
INVARIANTS NeverNegative
PROPERTIES ImplementsShipments
