SPECIFICATION Spec
CONSTANTS
  ed = ed
  ann = ann
  bob = bob
  Accounts = {ed, ann}
  Listings = {l1}
  OfferIds = {o1}
  Requests = {r1, r2}
  Nobody = Nobody
  Lifetime = 1
  PasswordNeeded = TRUE
  FirstStatus = "published"
  StaffAtStart = {ed}
  MaxSession <- UsersKept
  MaxRevision = 2
  MaxClock = 1
SYMMETRY Symmetry
CHECK_DEADLOCK FALSE
INVARIANTS TrailTellsOutcome NoDanglingAccount
PROPERTIES NoRevival StaffAtCommit ImplementsConsent
