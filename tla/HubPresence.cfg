SPECIFICATION Spec
CONSTANTS
  c1 = c1
  c2 = c2
  c3 = c3
  r1 = r1
  r2 = r2
  alice = alice
  bob = bob
  Nobody = nobody
  Conns <- TwoConns
  Rooms <- OneRoom
  Accounts <- TwoAccounts
  Login <- AliceAndBob
  Capacity = 2
  BufferSize = 1
  RejoinWithoutLeave = FALSE
  DropInRoom = TRUE
  Selections = TRUE
  MaxJoins = 2
CHECK_DEADLOCK FALSE
INVARIANTS
  PresenceIsExact
