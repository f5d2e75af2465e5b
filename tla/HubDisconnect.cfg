SPECIFICATION FairSpec
CONSTANTS
  c1 = c1
  c2 = c2
  c3 = c3
  r1 = r1
  r2 = r2
  alice = alice
  bob = bob
  Nobody = nobody
  Conns <- TwoConns
  Rooms <- OneRoom
  Accounts <- OneAccount
  Login <- AllGuests
  Capacity = 2
  BufferSize = 2
  RejoinWithoutLeave = FALSE
  DropInRoom = TRUE
  Selections = FALSE
  MaxJoins = 1
CHECK_DEADLOCK FALSE
PROPERTIES
  DisconnectCompletes
