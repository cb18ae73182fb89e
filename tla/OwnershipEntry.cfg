SPECIFICATION Spec
CONSTANTS
  ed = ed
  ann = ann
  bob = bob
  Accounts = {ed, ann}
  Listings = {l1}
  OfferIds = {o1, o2}
  Requests = {r1}
  Nobody = Nobody
  Lifetime = 1
  PasswordNeeded = TRUE
  FirstStatus = "published"
  StaffAtStart = {ed}
  MaxSession <- NoChange
  MaxRevision = 3
  MaxClock = 1
SYMMETRY Symmetry
CHECK_DEADLOCK FALSE
INVARIANTS OnePending ChecksHold AcceptedOncePerVersion
