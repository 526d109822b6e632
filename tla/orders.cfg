SPECIFICATION FairSpec
CONSTANTS
  Workers = {k1, k2}
  Platforms = {"odoo", "quickbooks"}
  MaxVersions = 2
  MaxMoves = 1
  EditStatuses = {"SHIPPED"}
  MaxFaults = 1
  MaxDocuments = 2
INVARIANTS TypeOK RowHonest FewDuplicates Mirror
PROPERTIES PendingEnds
CHECK_DEADLOCK FALSE
