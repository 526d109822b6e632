SPECIFICATION ASpec
CONSTANTS
  p1 = p1
  p2 = p2
  Nowhere = Nowhere
  NoJob = NoJob
  Workers = {k1, k2}
  Products = {p1}
  Warehouses = {w1, w2}
  Bundles = {}
  Physical = {p1}
  Bills <- NoBills
  Amounts = {1}
  MaxInt = 1
  Shipments = {s1}
  Underway = {"CREATED"}
  Loads <- EitherLine
  MaxMoved = 0
  MaxStocked = 2
  MaxDeaths = 1
SYMMETRY FullSymmetry
INVARIANTS TypeOK StockCovered MovementsKept ReceiptsAccounted
PROPERTIES ReceivedMeansStocked
