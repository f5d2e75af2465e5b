SPECIFICATION FairSpec
CONSTANTS
  c1 = c1
  c2 = c2
  c3 = c3
  e1 = e1
  e2 = e2
  Clients <- TwoClients
  Elems <- TwoElems
  Editors <- OneEditorEach
  BufferSize = 2
  Undo = FALSE
  JoinWhileEditing = FALSE
  OldCopies = FALSE
  PumpKeepsUp = TRUE
  MaxEdits = 3
  MaxTransit = 1
CHECK_DEADLOCK FALSE
INVARIANTS
  Converges
PROPERTIES
  OwnEditsStay
  EditsReachAll
