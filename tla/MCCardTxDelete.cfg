\* A delete acts on the position it read before any lock.
SPECIFICATION TxSpec
CONSTANTS
  Cards = {1, 2, 3, 4}
  Columns <- MCColumns
  BoardOf <- MCBoardOf
  CreatedAt <- MCCreatedAt
  Requested <- MCRequested
  Absent = Absent
  NotCreated = NotCreated
  Deleted = Deleted
  Procs = {p, q}
  Requests <- DeleteRequests
  InitColumn <- MCInitColumn
  InitPosition <- MCInitPosition
  MoveMaxAttempts = 2
  MayAbandon = FALSE
INVARIANTS
  CommittedDense
