SPECIFICATION FairSpec
CONSTANTS
  r1 = r1
  e1 = e1
  e2 = e2
  c1 = c1
  Ticker = ticker
  Stopper = stopper
  Rooms <- MCRooms
  Elems <- MCElems
  Conns <- OneConn
  DeleteSets <- AnyOne
  DbMayFail = TRUE
  MaxStamp = 3
  MaxStops = 1
INVARIANTS
  TypeOK
  NoUpdateDropped
  OneCopy
PROPERTIES
  EventuallySaved
