SPECIFICATION FairSpec
CONSTANTS
  c1 = c1
  c2 = c2
  b1 = b1
  NoRequest = NoRequest
  Workers = {k1, k2}
  Products = {c1, b1}
  Warehouses = {w1, w2}
  Bundles = {b1}
  Physical = {b1}
  Bills <- OneBill
  Amounts = {1}
  MaxInt = 1
  MaxReserved = 0
  MaxMoved = 0
PROPERTIES EveryCallEnds
