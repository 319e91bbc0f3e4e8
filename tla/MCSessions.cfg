\* Logins, logouts and role changes on one browser.
SPECIFICATION Spec
CONSTANTS
  Clients = {c}
  Procs = {p, q}
  Users = {u}
  Ids = {i1, i2, i3}
  None = None
  Ttl = 1
  MaxTime = 2
  Operations = {"register", "login", "logout", "me", "other"}
  SweepMayFail = TRUE
SYMMETRY Symmetry
INVARIANT
  TypeOK
PROPERTIES
  StaysDestroyed
  NeverReowned
