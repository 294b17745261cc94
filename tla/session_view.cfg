\* Tabs, pages, Filters, cell edits, dialogs and reloads of one Session window.
SPECIFICATION Spec
CONSTANTS
  Table = {"people"}
  Key <- Keys
  Val = {"x"}
  Null = Null
  Absent = Absent
  Dropped = Dropped
  Sql <- Texts
  Filter <- KeepX
  PageSize = 1
  Bounds <- EditAndLook
INVARIANT TypeOK
PROPERTIES StagesThePickedRow CommitsOwnText OwnWritesRefreshEveryGrid
  ActiveTabStays NavigationShowsItsPage FilteringShowsMatches
CHECK_DEADLOCK FALSE
