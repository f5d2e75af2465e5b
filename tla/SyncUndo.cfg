SPECIFICATION Spec
CONSTANTS
  c1 = c1
  c2 = c2
  c3 = c3
  e1 = e1
  e2 = e2
  Clients <- TwoClients
  Elems <- TwoElems
  Editors <- OneAuthor
  BufferSize = 2
  Undo = TRUE
  JoinWhileEditing = FALSE
  OldCopies = FALSE
  PumpKeepsUp = TRUE
  MaxEdits = 4
  MaxTransit = 1
CHECK_DEADLOCK FALSE
INVARIANTS
  Converges
