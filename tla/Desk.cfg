SPECIFICATION Spec
CONSTANTS
  Editors = {a, b}
  Reports = {report}
  Calls = {c, d}
  MaxEntryVersion = 2
  MaxChanges = 1
  Services = {a, b}
  Requests = {c, d}
  Keys = {k1}
  None = None
  MaxToken = 3
  MaxVersion = 3
  Addresses = {a, b}
  Passkeys = {k1}
  MaxPasskeys = 1
  MaxCodes = 3
  MaxCredentials = 2
  Accounts = {c, d}
  Nobody = Nobody
  Tags = {a, b}
  MaxSaved = 1
  MaxMerges = 2
SYMMETRY Symmetry
CHECK_DEADLOCK FALSE
INVARIANTS TypesOK OncePerKey AnswersAreTrue RecoveryEndsAccess
PROPERTIES DecidedAsRead TokensStayDead OnlyVerifiedRecovers KeptUntilSaved
