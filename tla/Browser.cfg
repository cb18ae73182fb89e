SPECIFICATION Spec
CONSTANTS
  Catalog = {"Business", "Nonprofit"}
  Accounts = {a, b}
  Nobody = Nobody
  Forms = {f1, f2}
  Pictures = {p1}
  Entries = {x, y}
  MaxKeys = 2
  MaxRounds = 1
  MaxUploads = 2
  Images = {i1, i2, i3}
  Staff = TRUE
  MaxActive = 2
  MaxRows = 2
SYMMETRY Symmetry
CHECK_DEADLOCK FALSE
INVARIANTS TypesOK ReviewTellsTruth SubmittedOnce SubmittedAsShown OneCard SavedAsShown
