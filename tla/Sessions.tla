------------------------------ MODULE Sessions ------------------------------
(***************************************************************************)
(* Who is logged in: the sessions table, the cookies of browsers that may  *)
(* have several requests on the way at once, and the users rows behind     *)
(* them.  A request is the statements its handler sends, with everything   *)
(* else of the system between any two of them.                             *)
(*                                                                         *)
(* External to src/: tower-sessions.  A Session is loaded on first use;    *)
(* cycle_id deletes the old row and forgets the id; the layer saves after  *)
(* the handler only what the handler modified, with create when the id was *)
(* forgotten, and takes the cookie back when the session was not found.    *)
(* lib.rs leaves the layer's always_save at its default, off.              *)
(***************************************************************************)
EXTENDS Naturals, FiniteSets

CONSTANTS
  Clients,    (* browsers                                                   *)
  Procs,      (* requests served at the same time                           *)
  Users,
  Ids,        (* session ids: random 128-bit values, never drawn twice      *)
  None,       (* no cookie, no row                                          *)
  Ttl,        (* Expiry::OnInactivity, 24 h                                 *)
  MaxTime,    (* Bound: the clock stops here                                *)
  Operations, (* what clients ask for                                       *)
  SweepMayFail (* the database may refuse a DELETE of the sweeper           *)

ASSUME SessionsAssumption ==
  /\ None \notin Ids \cup Users
  /\ Ttl \in Nat \ {0} /\ MaxTime \in Nat
  /\ Operations \subseteq {"register", "login", "logout", "me", "other"}
  /\ SweepMayFail \in BOOLEAN

VARIABLES
  users,     (* users.role, or None when there is no row                    *)
  sessions,  (* the sessions table by id, None where there is no row        *)
  jar,       (* the cookie each browser would send                          *)
  req,       (* the request each process serves                             *)
  now,
  sweeping,  (* the sweeper task is alive                                   *)
  drawn      (* ids drawn so far                                            *)

vars == << users, sessions, jar, req, now, sweeping, drawn >>

Roles == {"user", "admin"}
Session == [user : Users, role : Roles, expiry : Nat]
Idle == [pc |-> "idle"]

Goto(p, pc) == req' = [req EXCEPT ![p].pc = pc]
Finish(p) == req' = [req EXCEPT ![p] = Idle]

-----------------------------------------------------------------------------
(* MySqlSessionStore. *)

(* load: WHERE id = ? AND expiry_date > now *)
Loaded(id) ==
  IF id \in Ids /\ sessions[id] # None
  THEN IF sessions[id].expiry > now THEN sessions[id] ELSE None
  ELSE None

Deleted(ids) == [i \in Ids |-> IF i \in ids THEN None ELSE sessions[i]]

(* Mutant: the lifetime added to an expiry that has it already. *)
SavedForTwoTtls(id, user, role) ==
  [sessions EXCEPT ![id] = [user |-> user, role |-> role, expiry |-> now + 2 * Ttl]]

Saved(id, user, role) ==
  [sessions EXCEPT ![id] = [user |-> user, role |-> role, expiry |-> now + Ttl]]

(* delete_expired: WHERE expiry_date < now *)
Expired == {i \in Ids : sessions[i] # None /\ sessions[i].expiry < now}

(* Id::default() *)
Drawable == Ids \ drawn

-----------------------------------------------------------------------------
Init ==
  /\ users \in [Users -> {None, "user"}]
  /\ sessions = [i \in Ids |-> None]
  /\ jar = [c \in Clients |-> None]
  /\ req = [p \in Procs |-> Idle]
  /\ now = 0 /\ sweeping = TRUE
  /\ drawn = {}

(* A request arrives with the cookie its browser holds, a login or a        *)
(* registration with an email as well.                                      *)
Arrive(p, c, op, u) ==
  /\ req[p].pc = "idle"
  /\ op \in {"register", "login"} <=> u # None
  /\ req' = [req EXCEPT ![p] =
       [pc |-> CASE op \in {"register", "login"} -> "credentials"
                 [] op = "logout" -> "flush"
                 [] OTHER -> "load",
        op |-> op, client |-> c, id |-> jar[c], user |-> u, role |-> "user", new |-> None]]
  /\ UNCHANGED << users, sessions, jar, now, sweeping, drawn >>

(* login: the users row (wrong passwords end here too).  register: the      *)
(* pre-check of the email.                                                  *)
Credentials(p) ==
  /\ req[p].pc = "credentials"
  /\ LET there == users[req[p].user] # None IN
     IF req[p].op = "login"
     THEN IF there
          THEN req' = [req EXCEPT ![p] = [req[p] EXCEPT !.role = users[req[p].user], !.pc = "load"]]
          ELSE Finish(p)
     ELSE IF there THEN Finish(p) ELSE Goto(p, "insert")
  /\ UNCHANGED << users, sessions, jar, now, sweeping, drawn >>

(* register: the user and its labels, one transaction; 409 when the email   *)
(* was taken since the pre-check.                                           *)
InsertUser(p) ==
  /\ req[p].pc = "insert"
  /\ IF users[req[p].user] # None
     THEN Finish(p) /\ UNCHANGED users
     ELSE users' = [users EXCEPT ![req[p].user] = "user"] /\ Goto(p, "load")
  /\ UNCHANGED << sessions, jar, now, sweeping, drawn >>

(* The session behind the cookie.  login and register go on with or without *)
(* one; the others are 401 without, and the cookie is taken back.           *)
WithSession(r, found) ==
  CASE r.op \in {"register", "login"} ->
         [r EXCEPT !.pc = "cycle", !.id = IF found = None THEN None ELSE r.id]
    [] r.op \notin {"register", "login"} /\ found = None ->
         IF r.id = None THEN Idle ELSE [r EXCEPT !.pc = "respond"]
    [] r.op = "me" /\ found # None ->
         [r EXCEPT !.pc = "lookup", !.user = found.user, !.role = found.role]
    [] OTHER -> Idle

LoadSession(p) ==
  /\ req[p].pc = "load"
  /\ req' = [req EXCEPT ![p] = WithSession(req[p], Loaded(req[p].id))]
  /\ UNCHANGED << users, sessions, jar, now, sweeping, drawn >>

(* me: 401 when the user is gone, 200 when the role still is the session's, *)
(* else a new id for the session and 403.                                   *)
LookupUser(p) ==
  /\ req[p].pc = "lookup"
  /\ IF users[req[p].user] \in {None, req[p].role} THEN Finish(p) ELSE Goto(p, "cycle")
  /\ UNCHANGED << users, sessions, jar, now, sweeping, drawn >>

(* Mutant: establish_session without cycle_id, a known id is saved over. *)
KeepId(p) ==
  /\ req[p].pc = "cycle"
  /\ \E id \in Drawable :
       /\ req' = [req EXCEPT ![p].new = IF req[p].id = None THEN id ELSE req[p].id,
                             ![p].pc = "save"]
       /\ drawn' = drawn \cup {id}
  /\ UNCHANGED << users, sessions, jar, now, sweeping >>

(* cycle_id: a new id is drawn, the old row deleted. *)
CycleId(p) ==
  /\ req[p].pc = "cycle"
  /\ \E id \in Drawable :
       /\ req' = [req EXCEPT ![p] = [req[p] EXCEPT !.new = id, !.pc = "save"]]
       /\ drawn' = drawn \cup {id}
  /\ sessions' = Deleted({req[p].id})
  /\ UNCHANGED << users, jar, now, sweeping >>

(* create: one transaction, whose check that the id is free finds it free,  *)
(* and an upsert.                                                           *)
SaveSession(p) ==
  /\ req[p].pc = "save"
  /\ sessions' = Saved(req[p].new, req[p].user, req[p].role)
  /\ Goto(p, "respond")
  /\ UNCHANGED << users, jar, now, sweeping, drawn >>

(* logout: flush deletes the row, whoever else has it loaded. *)
FlushSession(p) ==
  /\ req[p].pc = "flush"
  /\ sessions' = Deleted({req[p].id})
  /\ req' = [req EXCEPT ![p] = IF @.id = None THEN Idle ELSE [@ EXCEPT !.pc = "respond"]]
  /\ UNCHANGED << users, jar, now, sweeping, drawn >>

(* The Set-Cookie reaches the browser: the new id, or a removal. *)
Respond(p) ==
  /\ req[p].pc = "respond"
  /\ jar' = [jar EXCEPT ![req[p].client] = req[p].new]
  /\ Finish(p)
  /\ UNCHANGED << users, sessions, now, sweeping, drawn >>

(* The request times out or the client goes away. *)
Abandon(p) ==
  /\ req[p].pc # "idle"
  /\ Finish(p)
  /\ UNCHANGED << users, sessions, jar, now, sweeping, drawn >>

(* An operator changes a role or deletes a user. *)
ChangeUser(u, role) ==
  /\ users[u] # None /\ role # users[u]
  /\ users' = [users EXCEPT ![u] = role]
  /\ UNCHANGED << sessions, jar, req, now, sweeping, drawn >>

Tick ==
  /\ now < MaxTime
  /\ now' = now + 1
  /\ UNCHANGED << users, sessions, jar, req, sweeping, drawn >>

Sweep ==
  /\ sweeping /\ Expired # {}
  /\ sessions' = Deleted(Expired)
  /\ UNCHANGED << users, jar, req, now, sweeping, drawn >>

(* continuously_delete_expired returns at its first error, and the task     *)
(* spawned in main.rs ends with it.                                         *)
SweepFails ==
  /\ sweeping /\ SweepMayFail
  /\ sweeping' = FALSE
  /\ UNCHANGED << users, sessions, jar, req, now, drawn >>

Step(p) ==
  \/ Credentials(p) \/ InsertUser(p) \/ LoadSession(p) \/ LookupUser(p)
  \/ CycleId(p) \/ SaveSession(p) \/ FlushSession(p) \/ Respond(p)

Next ==
  \/ \E p \in Procs :
       \/ \E c \in Clients, op \in Operations, u \in Users \cup {None} : Arrive(p, c, op, u)
       \/ Step(p) \/ Abandon(p)
  \/ \E u \in Users, role \in Roles \cup {None} : ChangeUser(u, role)
  \/ Tick \/ Sweep \/ SweepFails

Spec == Init /\ [][Next]_vars

-----------------------------------------------------------------------------
(* A stored session belongs to a user, its id has been drawn, and it ends   *)
(* within Ttl of any moment at which it is stored.                          *)
TypeOK ==
  /\ users \in [Users -> Roles \cup {None}]
  /\ sessions \in [Ids -> Session \cup {None}]
  /\ jar \in [Clients -> Ids \cup {None}]
  /\ now \in 0 .. MaxTime
  /\ \A i \in Ids : sessions[i] # None => i \in drawn /\ sessions[i].expiry <= now + Ttl
  /\ \A p \in Procs : req[p].pc = "save" => req[p].new \in drawn

(* An id that was logged out, rotated away or swept stays dead: no request  *)
(* that had it loaded writes it back (logout: "the session would be         *)
(* re-saved").                                                              *)
StaysDestroyed ==
  [][\A i \in Ids :
       (\E p \in Procs : req[p].pc # "idle" /\ req[p].id = i) /\ sessions[i] = None
         => sessions'[i] = None]_vars

(* An id known before a login is never the id of that login's session:      *)
(* a stored session keeps its user and role for as long as it is stored     *)
(* (the fixation defence of establish_session).                             *)
NeverReowned ==
  [][\A i \in Ids : sessions[i] # None /\ sessions'[i] # None
       => << sessions'[i].user, sessions'[i].role >> = << sessions[i].user, sessions[i].role >>]_vars
=============================================================================
