SPECIFICATION FairSpec
CONSTANTS
  None = None
  Patient = TRUE
  Reuse = FALSE
  ExportsOthers = FALSE
  MaxFiles = 2
  MaxTabs = 2
  MaxCloud = 2
  MaxStrokes = 1
  MaxClicks = 4
CHECK_DEADLOCK FALSE
INVARIANTS
  ActiveFileExists
