\* Links, cascades and the boards of a project, one request at a time.
SPECIFICATION Spec
CONSTANTS
  Projects = {p1, p2}
  Boards = {b1, b2}
  Cards = {k1}
  Notes = {n1}
  Tags = {t1}
  None = None
  Unborn = Unborn
  Gone = Gone
SYMMETRY Symmetry
INVARIANTS
  TypeOK
  OneLink
  LinksLive
PROPERTY
  BoardsGoWithProject
CHECK_DEADLOCK FALSE
