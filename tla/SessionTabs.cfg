CONSTANTS
  u1 = u1
  u2 = u2
  t1 = t1
  t2 = t2
  r1 = r1
  r2 = r2
  Users = {u1, u2}
  Tabs = {t1, t2}
  Requests = {r1, r2}
  Patient = TRUE
  MaxLinks = 1
  MaxFaults = 1
  MaxClicks = 5
SPECIFICATION Spec
CHECK_DEADLOCK FALSE
INVARIANT SessionSurvives
