SPECIFICATION Spec
CONSTANTS
  c1 = c1
  c2 = c2
  b1 = b1
  NoRequest = NoRequest
  Workers = {k1, k2}
  Products = {c1, c2, b1}
  Warehouses = {w1}
  Bundles = {b1, c2}
  Physical = {c2, b1}
  Bills <- EditedBills
  Amounts = {1}
  MaxInt = 2
  MaxReserved = 1
  MaxMoved = 0
SYMMETRY WorkerSymmetry
INVARIANTS TypeOK DraftsFresh AssembliesNeverDeadlock
PROPERTIES ImplementsStock ReservationsCovered
