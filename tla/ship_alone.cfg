SPECIFICATION ASpec
CONSTANTS
  p1 = p1
  p2 = p2
  Nowhere = Nowhere
  NoJob = NoJob
  Workers = {k1}
  Products = {p1, p2}
  Warehouses = {w1, w2}
  Bundles = {}
  Physical = {p1, p2}
  Bills <- NoBills
  Amounts = {1}
  MaxInt = 2
  Shipments = {s1}
  Underway = {"CREATED", "IN_TRANSIT"}
  Loads <- BothLines
  MaxMoved = 0
  MaxStocked = 2
  MaxDeaths = 1
INVARIANTS BooksBalance
