SPECIFICATION SignedInSpec
CONSTANTS
  Session = {s1, s2}
  Users = {u1}
  NoSession = NoSession
  NoUser = NoUser
  Requests = {r1, r2}
  RefreshTtl = 2
  MaxJti = 2
  Ids <- PageIds
  Tenant = "tenant"
  Slugs = {"one", "two"}
  Views = {"v1"}
  MaxClicks = 2
INVARIANTS
  NoExpiryMeansReopened
  HandedOutIsListed
  PagesAreTrue
PROPERTIES
  LedgerSpec
