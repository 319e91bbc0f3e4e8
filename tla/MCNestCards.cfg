SPECIFICATION Spec
CONSTANTS
  Cards = {1, 2, 3, 4}
  Columns = {11, 12, 13}
  Home <- MCHome
  Stored = {1, 2, 3}
  Boards = {0}
  Places = {0, 1, 2}
  Requests = {r1, r2}
  MaxRequests = 2
  None = None
INVARIANT
  CardsPlaced
PROPERTIES
  MovesLand
  UndoRestores
CHECK_DEADLOCK FALSE
SYMMETRY MCSymmetry
