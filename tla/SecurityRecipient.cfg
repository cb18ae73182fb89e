SPECIFICATION Spec
CONSTANTS
  Devices = {d1, d2}
  Requests = {r1, r2}
  StaffAuthMode = "password_recent"
  EmailRecovery = FALSE
  Offered = "editor"
  MaxSession = 4
  MaxSecret = 2
SYMMETRY Symmetry
CHECK_DEADLOCK FALSE
PROPERTIES RecipientsSaved
