SPECIFICATION Spec
CONSTANTS
  ann = ann
  ed = ed
  Entries = {e1, e2}
  Users = {ann, ed}
  Editors = {ed}
  Agent = agent
  Facts = {f1, f2}
  Names = {n1, n2}
  Lists = {s1, s2}
  Nothing = Nothing
  FirstStatus = "published"
  FirstName = n1
  MaxRevision = 2
SYMMETRY Symmetry
CHECK_DEADLOCK FALSE
PROPERTIES DeletedStaysGone
