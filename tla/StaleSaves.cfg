SPECIFICATION PagesSpec
CONSTANTS
  EntryNames = {n1, n2}
  FirstEntryName = n1
  Tabs = {tab}
  Letters = {l1, l2}
  Absent = Absent
  MaxRevisions = 3
CHECK_DEADLOCK FALSE
PROPERTIES StaleSavesRefused
