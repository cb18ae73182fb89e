SPECIFICATION SavedSpec
CONSTANTS
  Accounts = {a}
  Nobody = Nobody
  Tags = {t, u}
  MaxSaved = 1
  MaxMerges = 2
CHECK_DEADLOCK FALSE
PROPERTIES ChoicesPreserved
