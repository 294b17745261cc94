\* Expected violation: the list could not be read at launch.
SPECIFICATION Spec
CONSTANTS
  String = {a, b, c}
  BadString = {bad}
  Bundles <- ShortBundles
  Missing = Missing
  Torn = Torn
  Platforms = {"posix"}
  Unreadable = TRUE
INVARIANTS SavedStaysSaved
