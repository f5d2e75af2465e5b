SPECIFICATION RoomSpec
CONSTANTS
  r1 = r1
  e1 = e1
  e2 = e2
  c1 = c1
  c2 = c2
  Ticker = ticker
  Stopper = stopper
  Rooms <- MCRooms
  Elems <- OneElem
  Conns <- TwoConns
  DeleteSets <- NoDeletes
  Messages <- OneEach
  EditWhileLoading = FALSE
  LateSnapshots = TRUE
  DbMayFail = TRUE
  MaxStamp = 2
  MaxStops = 1
SYMMETRY Peers
INVARIANTS
  KnownRoomIsBacked
