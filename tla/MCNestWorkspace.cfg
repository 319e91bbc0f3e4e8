SPECIFICATION Spec
CONSTANTS
  Ids <- MCIds
  Names = {"a", "b"}
  Emails = {"a", "b", "c"}
  DefaultNames = {"a"}
  Stored <- MCStored
  Requests = {r1, r2}
  MaxRequests = 3
  None = None
INVARIANTS
  OneOwner
  ListedNotesOpen
  NamesClashOnlyByRace
SYMMETRY MCSymmetry
CHECK_DEADLOCK FALSE
