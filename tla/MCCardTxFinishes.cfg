\* Every request is answered.
SPECIFICATION FairSpec
CONSTANTS
  Cards = {1, 2, 3, 4}
  Columns <- MCColumns
  BoardOf <- MCBoardOf
  CreatedAt <- MCCreatedAt
  Requested <- MCRequested
  Absent = Absent
  NotCreated = NotCreated
  Deleted = Deleted
  Procs = {p, q}
  Requests <- MixedRequests
  InitColumn <- MCInitColumn
  InitPosition <- MCInitPosition
  MoveMaxAttempts = 2
  MayAbandon = TRUE
PROPERTY
  Finishes
