SPECIFICATION FairSpec
CONSTANTS
  Workers = {k1, k2}
  MaxVersions = 2
  NumLines = 2
  Others = {"import", "edit"}
  MaxFaults = 1
INVARIANTS TypeOK LinesWhole PushedOnce
PROPERTIES KeepsLedger EveryDeliveryAnswered
CHECK_DEADLOCK FALSE
