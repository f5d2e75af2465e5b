SPECIFICATION FairSpec
CONSTANTS
  r1 = r1
  r2 = r2
  s1 = s1
  s2 = s2
  s3 = s3
  None = None
  Rooms <- TwoRooms
  Sockets <- TwoSockets
  Encrypted = FALSE
  Hasty = FALSE
  MaxAttempts = 2
  MaxQueue = 1
  MaxEvents = 3
  MaxUpdates = 1
CHECK_DEADLOCK FALSE
PROPERTIES
  Rejoins
