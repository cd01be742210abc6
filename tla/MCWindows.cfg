SPECIFICATION Spec
CONSTANTS
  Nobody = Nobody
  MaxTabs = 2
  MaxCalls = 4
  MayClose = TRUE
INVARIANTS WindowsAreOwned  LayoutFollowsViews ViewsAreOpen
PROPERTY CallsAreHandled
CHECK_DEADLOCK FALSE
