SPECIFICATION WebSpec
CONSTANTS
  Session = {s1}
  Users = {u1}
  NoSession = NoSession
  NoUser = NoUser
  Requests = {r1, r2}
  RefreshTtl = 1
  MaxJti = 2
  Tabs = {t1, t2}
  NoTab = NoTab
  AccessTtl = 1
  RefreshAge = 2
  MaxRedirects = 1
INVARIANTS
  SignedOutForGood
PROPERTIES
  RedirectsEnd
