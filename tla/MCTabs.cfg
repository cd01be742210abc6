CONSTANTS
  t1 = t1
  t2 = t2
  u1 = u1
  u2 = u2
  Threads = {t1, t2}
  UI = UI
  Nobody = Nobody
  Urls = {u1}
  Blank = Blank
  Missing = Missing
  SavedSession <- OneSavedTab
  SessionLimit = 2
  ShellSaves = TRUE
  Popups = TRUE
  EarlyMessages = FALSE
  MaxTabs = 3
  MaxMessages = 3
SPECIFICATION FairSpec
INVARIANTS ActiveIsOpen SessionIsSaved
PROPERTIES OnlyShownReturn WorkEnds
CHECK_DEADLOCK FALSE
