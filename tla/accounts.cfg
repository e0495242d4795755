SPECIFICATION PeopleSpec
CONSTANTS
  Members = {m1}
  Requests = {r1, r2}
  NoMember = NoMember
  Secrets = {x}
  MaxAttempts = 2
  Lockout = 1
  InviteTtl = 1
  MaxTime = 2
  acme = acme
  acmeLtd = acmeLtd
  acmeX = acmeX
  ann = ann
  annUpper = annUpper
  bob = bob
  Visitors = {v1, v2}
  Names = {acme, acmeLtd}
  BaseSlug <- Slug
  Suffixed <- Suffixes
  Typed <- Spelt
  Address <- LowerCase
  MaxTries = 2
SYMMETRY Symmetry
INVARIANTS
  GuessBound
  RemovalHolds
  RegistrationsAreWhole
PROPERTIES
  LockHolds
CHECK_DEADLOCK FALSE
