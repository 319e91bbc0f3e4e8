\* CardPositions: density of every column, and the lists the tables stand for.
SPECIFICATION Spec
CONSTANTS
  Cards = {1, 2, 3, 4}
  Columns <- MCColumns
  BoardOf <- MCBoardOf
  CreatedAt <- MCCreatedAt
  Requested <- MCRequested
  Absent = Absent
  NotCreated = NotCreated
  Deleted = Deleted
INVARIANTS
  TypeOK
  Dense
PROPERTY
  ImplementsOrder
