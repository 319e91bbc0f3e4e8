\* A project and its boards, a note and its targets.
SPECIFICATION Spec
CONSTANTS
  p1 = p1
  p2 = p2
  b1 = b1
  b2 = b2
  b3 = b3
  k1 = k1
  n1 = n1
  n2 = n2
  t1 = t1
  t2 = t2
  Projects <- MCProjects
  Boards <- MCBoards
  Cards <- MCCards
  Notes <- MCNotes
  Tags <- MCTags
  None = None
  Unborn = Unborn
  Gone = Gone
  Procs = {p, q}
  Requests <- MixedRequests
  InitRow <- MCInitRow
  InitTags <- MCInitTags
SYMMETRY Symmetry
INVARIANT
  TypeOK
PROPERTY
  CommitIsRequest
