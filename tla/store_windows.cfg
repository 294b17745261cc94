\* Expected violation: the Windows build ends between remove and rename.
SPECIFICATION Spec
CONSTANTS
  String = {a, b, c}
  BadString = {bad}
  Bundles <- ShortBundles
  Missing = Missing
  Torn = Torn
  Platforms = {"windows"}
  Unreadable = FALSE
INVARIANTS SavedStaysSaved
