SPECIFICATION ASpec
CONSTANTS
  Nobody = Nobody
  NoJob = NoJob
  NoTask = NoTask
  Workers = {k1, k2}
  Runners = {}
  Requests = {r1}
  Users = {alice, bob}
  Staff = {bob}
  Superusers = {bob}
  Products = {a}
  Warehouses = {h}
  Endpoints = {"decide", "delete", "reassign"}
  WrittenStatuses = {}
SYMMETRY RequestSymmetry
CONSTRAINT NoTaskWaits
INVARIANTS TimelineTellsStatus Prerequisites WorkflowFollowed
PROPERTIES RightActor
CHECK_DEADLOCK FALSE
