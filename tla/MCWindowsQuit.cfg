SPECIFICATION Spec
CONSTANTS
  Nobody = Nobody
  MaxTabs = 2
  MaxCalls = 1
  MayClose = TRUE

PROPERTY QuitEndsRun
CHECK_DEADLOCK FALSE
