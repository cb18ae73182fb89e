SPECIFICATION MCSpec
CONSTANTS
  ann = ann
  ed = ed
  Entries = {e1}
  Users = {ann, ed}
  Editors = {ed}
  Agent = agent
  Facts = {f1, f2}
  Names = {n1, n2}
  Lists = {s1, s2}
  Nothing = Nothing
  FirstStatus = "pending_review"
  FirstName = n1
  MaxRevision = 4
  TagNames = {Business, Trade, Signal}
  PlatformNames = {Signal}
  Tags = {t1, f1, f2}
  Tagged = {e1}
  Suggestions = {p1}
  Curators = {ed1}
  None = None
  FirstTag = t1
  FirstTagName = Business
  MaxTags = 2
  EntryNames = {n1, n2}
  FirstEntryName = n1
  Tabs = {tab}
  Letters = {l1}
  Absent = Absent
  MaxRevisions = 4
  People = {f1, f2}
  Unowned = Unowned
  MaxOwnings = 3
  MaxOffers = 2
SYMMETRY Symmetry
CHECK_DEADLOCK FALSE
INVARIANTS VersionNamesState BadgesVouch SourcesDescribe ImportsComeFirst NamesResolve EntriesCurrent
PROPERTIES DecidedOnShown OwnershipAsShown LinksKeep ImplementsRedirects
