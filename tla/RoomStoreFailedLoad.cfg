SPECIFICATION RoomSpec
CONSTANTS
  r1 = r1
  e1 = e1
  e2 = e2
  c1 = c1
  c2 = c2
  Ticker = ticker
  Stopper = stopper
  Rooms <- MCRooms
  Elems <- MCElems
  Conns <- TwoConns
  DeleteSets <- NoDeletes
  Messages <- Adds
  EditWhileLoading = FALSE
  LateSnapshots = FALSE
  DbMayFail = TRUE
  MaxStamp = 2
  MaxStops = 0
SYMMETRY Peers
INVARIANTS
  SavedElementsPersist
