\* Saves that fail and programs that end between two file operations.
SPECIFICATION Spec
CONSTANTS
  String = {a, b, c}
  BadString = {bad}
  Bundles <- ShortBundles
  Missing = Missing
  Torn = Torn
  Platforms = {"posix", "windows"}
  Unreadable = FALSE
INVARIANTS TypeOK OneConnectionPerString SavedStaysSavedOnPosix SaveOnlyAdds
PROPERTIES RowIndexStable ImplementsDurableList
