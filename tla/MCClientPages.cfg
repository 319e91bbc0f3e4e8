SPECIFICATION Spec
CONSTANTS
  Pages = {"card", "notes", "form", "projects", "boards", "checklist", "view", "list", "signin"}
  BoardCards = {1, 2, 3}
  BoardColumns = {11, 12}
  FirstBoard <- MCFirstBoard
  MaxGestures = 2
  MaxLosses = 1
  Slots = {1, 2}
  None = None
  MaxTyped = 2
  MaxSaves = 3
  MaxErrors = 1
  NoteIds = {1, 2}
  MaxChanges = 3
  MaxSaveCalls = 4
  MaxConfirms = 3
  MaxNoteErrors = 1
  ProjectNames = {"a", "b"}
  MaxSubmits = 3
  MaxFormErrors = 2
  NoName = "none"
  ProjectIds = {1, 2, 3}
  MaxAsks = 2
  MaxAskErrors = 1
  Boards = {1, 2}
  MaxVisits = 2
  MaxCalls = 2
  MaxBoardErrors = 1
  Items = {1, 2, 3, 4}
  FirstItems = {1}
  MaxOps = 3
  MaxItemErrors = 1
  MaxSwitches = 3
  MaxViewErrors = 2
  MaxKeys = 2
  ListCards = {1, 2, 3}
  NoCard = 0
  MaxEdits = 2
  MaxCreates = 1
  MaxListErrors = 1
  Accounts = {"a", "b"}
  NoAccount = "nobody"
  MaxSignIns = 3
  MaxMeFetches = 2
  MaxSignErrors = 1
INVARIANTS
  OnePerDialog
  DismissedMeansNothing
  OneSavePerEdit
  FailuresTold
  SignInLands
PROPERTIES
  TypingNotClobbered
  EditsReachServer
  ConfirmedDeletesHappen
  ListConverges
  BoardsConverge
  ItemsConverge
  UndoRestoresItem
  ViewConverges
  RowsConverge
  SignInConverges
CHECK_DEADLOCK FALSE
