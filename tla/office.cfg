SPECIFICATION OfficeSpec
CONSTANTS
  Nobody = Nobody
  Workers = {k1, k2}
  Kinds = {"call", "nested"}
  MaxGrants = 3
  MaxNonces = 1
  MaxLosses = 1
  MaxTries = 2
  NoPrice = NoPrice
  NoProduct = NoProduct
  NoItem = NoItem
  Payloads <- SomePayloads
  Market = "Ghana"
  Products <- KnownProducts
  Bundles = {"p2"}
  Mappings <- KnownMappings
  Odoo <- OdooAccount
  Found <- OdooProducts
  Qb <- QbAccount
  QbCatalogue <- QbItems
  Users = {"owner", "manager"}
  Addresses = {"m@north", "m@south"}
  MaxInvitations = 2
  MaxVisits = 3
  Editors = {"ann", "ben"}
  Places = {"north", "south", "west"}
  Amounts = {1}
  FirstShelf <- TwoShelves
  MaxShelved = 3
  MaxEdits = 2
  MaxUnits = 2
  Skus = {"K", "A", "B"}
  Listings <- SomeListings
  FirstIs <- OneKit
  FirstBill <- OneRow
  Sessions = {"ann", "ben"}
  MaxChanges = 2
  MaxBillRows = 4
SYMMETRY WorkerSymmetry
INVARIANTS StoredIsLive RefreshNeverRejected MoneyAgrees LinesRight AnswersSound
  EditsConserve NoSelfBundle ImportFaithful
CHECK_DEADLOCK FALSE
