CONSTANTS
  s1 = s1
  s2 = s2
  Sheets = {s1, s2}
  Patient = TRUE
  MaxSends = 2
  MaxEvents = 1
  MaxCrashes = 1
  MaxClicks = 3
SPECIFICATION Spec
CHECK_DEADLOCK FALSE


PROPERTY Released
