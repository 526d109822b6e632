SPECIFICATION ASpec
CONSTANTS
  Nobody = Nobody
  NoJob = NoJob
  NoTask = NoTask
  Workers = {k1}
  Runners = {c1, c2}
  Requests = {r1}
  Users = {alice}
  Staff = {alice}
  Superusers = {}
  Products = {a}
  Warehouses = {h}
  Endpoints = {"decide", "edit", "delete", "reassign"}
  WrittenStatuses = {}
SYMMETRY RequestSymmetry
INVARIANTS TypeOK MailsAccounted
CHECK_DEADLOCK FALSE
