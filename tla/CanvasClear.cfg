SPECIFICATION CanvasSpec
CONSTANTS
  r1 = r1
  e1 = e1
  e2 = e2
  c1 = c1
  c2 = c2
  w1 = w1
  w2 = w2
  Ticker = ticker
  Stopper = stopper
  Rooms <- MCRooms
  Elems <- MCElems
  Conns <- OneConn
  DeleteSets <- NoDeletes
  Messages <- Adds
  EditWhileLoading = FALSE
  LateSnapshots = FALSE
  DbMayFail = FALSE
  MaxStamp = 2
  MaxStops = 0
  Workers <- OneWorker
  MaxRequests = 1
INVARIANTS
  ClearedCanvasIsEmpty
