SPECIFICATION RingsSpec
CONSTANTS
  p1 = p1
  p2 = p2
  Nowhere = Nowhere
  NoJob = NoJob
  Workers = {k1, k2}
  Products = {p1, p2}
  Warehouses = {w1}
  Bundles = {}
  Physical = {p1, p2}
  Bills <- NoBills
  Amounts = {}
  MaxInt = 0
  Shipments = {s1, s2}
  Underway = {"CREATED"}
  Loads = {}
  MaxMoved = 0
PROPERTIES EveryRequestEnds
