SPECIFICATION AccessSpec
CONSTANTS
  owner = owner
  admin = admin
  k1 = k1
  Members <- OwnerAndAdmin
  RightsOf <- RolesHeld
  Keys <- OneKey
  Expiry <- ExpiresAtTwo
  Requests = {r1, r2}
  Nobody = nobody
  CacheTtl = 2
  Window = 2
  CounterTtl = 3
  Limit = 1
  MaxTime = 3
  TableJobs = {j1, j2}
  KeyIds = {x1, x2}
  Calls = {c1, c2}
  NoId = NoId
CONSTRAINT Apart
SYMMETRY Symmetry
INVARIANTS
  RateHolds
  ListsKeepUp
PROPERTIES
  RightsExpire
  OnlyBegunWrites
CHECK_DEADLOCK FALSE
