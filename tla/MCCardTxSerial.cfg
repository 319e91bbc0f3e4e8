\* Every commit is its request alone, where no move meets an empty column.
SPECIFICATION TxSpec
CONSTANTS
  Cards = {1, 2, 3, 4, 5}
  Columns <- MCColumns
  BoardOf <- MCBoardOf
  CreatedAt <- MCCreatedAt
  Requested <- MCRequested
  Absent = Absent
  NotCreated = NotCreated
  Deleted = Deleted
  Procs = {p, q}
  Requests <- SerialRequests
  InitColumn <- MCInitColumn5
  InitPosition <- MCInitPosition5
  MoveMaxAttempts = 2
  MayAbandon = TRUE
SYMMETRY Symmetry
INVARIANTS
  TxTypeOK
  CommittedDense
  NoWaitCycle
PROPERTY
  CommitIsRequest
