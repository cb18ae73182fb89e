SPECIFICATION Spec
CONSTANTS
  Devices = {d1, d2}
  Requests = {r1, r2}
  StaffAuthMode = "password_recent"
  EmailRecovery = TRUE
  Offered = "editor"
  MaxSession = 3
  MaxSecret = 2
SYMMETRY Symmetry
CHECK_DEADLOCK FALSE
INVARIANTS SessionsProvePassword ShownPhraseWorks
PROPERTIES StaffActsCurrent SuspensionLasts
