--------------------------- MODULE SessionsProofs ---------------------------
(***************************************************************************)
(* For any number of browsers, requests, users and ids: stored sessions    *)
(* are well formed, an id that was destroyed while a request had it loaded *)
(* is not written back, and a stored session never changes hands.          *)
(*                                                                         *)
(* Both action properties rest on one fact about an id between the moment  *)
(* it is drawn and the moment it is stored (IInv, Fresh): no row, no       *)
(* cookie and no other request has it.                                     *)
(***************************************************************************)
EXTENDS Sessions, TLAPS

Request == [pc : {"credentials", "insert", "load", "lookup", "cycle", "save", "flush", "respond"},
            op : Operations, client : Clients, id : Ids \cup {None},
            user : Users \cup {None}, role : Roles, new : Ids \cup {None}]

Serving(p) == req[p] # Idle

(* What a request needs to know is known when it needs it. *)
RequestOK(p) ==
  /\ req[p].pc \in {"credentials", "insert", "lookup", "cycle", "save"} => req[p].user \in Users
  /\ req[p].pc = "load" /\ req[p].op \in {"register", "login"} => req[p].user \in Users

(* Every id in use has been drawn. *)
DrawnOK ==
  /\ drawn \subseteq Ids
  /\ \A i \in Ids : sessions[i] # None => i \in drawn
  /\ \A c \in Clients : jar[c] \in drawn \cup {None}
  /\ \A p \in Procs : Serving(p) => {req[p].id, req[p].new} \subseteq drawn \cup {None}

(* The id a request is about to store is nobody else's yet. *)
Fresh(p) ==
  /\ req[p].new \in drawn
  /\ sessions[req[p].new] = None
  /\ \A c \in Clients : jar[c] # req[p].new
  /\ \A q \in Procs : Serving(q) => req[q].id # req[p].new /\ (q # p => req[q].new # req[p].new)

IInv ==
  /\ users \in [Users -> Roles \cup {None}]
  /\ sessions \in [Ids -> Session \cup {None}]
  /\ jar \in [Clients -> Ids \cup {None}]
  /\ now \in 0 .. MaxTime
  /\ \A i \in Ids : sessions[i] # None => sessions[i].expiry <= now + Ttl
  /\ req \in [Procs -> Request \cup {Idle}]
  /\ \A p \in Procs : Serving(p) => RequestOK(p)
  /\ DrawnOK
  /\ \A p \in Procs : req[p].pc = "save" => Fresh(p)

-----------------------------------------------------------------------------
LEMMA IInvTypeOK == IInv => TypeOK
BY DEF IInv, TypeOK, DrawnOK, Fresh

(* Idle is not a Request, and is recognised by its pc. *)
LEMMA ServingPc ==
  ASSUME IInv, NEW p \in Procs
  PROVE  /\ Serving(p) <=> req[p].pc # "idle"
         /\ Serving(p) => req[p] \in Request
<1>1. CASE req[p] = Idle
  BY <1>1 DEF Serving, Idle
<1>2. CASE req[p] # Idle
  <2>1. req[p] \in Request
    BY <1>2 DEF IInv
  <2>2. req[p].pc # "idle"
    BY <2>1 DEF Request
  <2> QED
    BY <1>2, <2>1, <2>2 DEF Serving
<1> QED
  BY <1>1, <1>2

LEMMA InitIInv == Init => IInv
<1> SUFFICES ASSUME Init PROVE IInv
  OBVIOUS
<1>1. \A p \in Procs : ~Serving(p) /\ req[p].pc = "idle"
  BY DEF Init, Serving, Idle
<1> QED
  BY <1>1, SessionsAssumption DEF Init, IInv, DrawnOK, Roles

(* A step of one request that stores nothing: it may delete sessions and   *)
(* change users, and what the request knows of ids it knew before or has   *)
(* from a cookie.                                                          *)
LEMMA RequestStep ==
  ASSUME IInv, NEW p \in Procs, NEW r \in Request \cup {Idle},
         req' = [req EXCEPT ![p] = r],
         users' \in [Users -> Roles \cup {None}],
         sessions' \in [Ids -> Session \cup {None}],
         \A i \in Ids : sessions'[i] \in {sessions[i], None},
         UNCHANGED << jar, now, drawn >>,
         r # Idle =>
           /\ r.pc # "save"
           /\ r.pc \in {"credentials", "insert", "lookup", "cycle"} => r.user \in Users
           /\ r.pc = "load" /\ r.op \in {"register", "login"} => r.user \in Users
           /\ r.new = None \/ (Serving(p) /\ r.new = req[p].new)
           /\ \/ r.id = None
              \/ Serving(p) /\ r.id = req[p].id
              \/ \E c \in Clients : r.id = jar[c]
  PROVE  IInv'
<1> USE SessionsAssumption
<1>1. /\ req' \in [Procs -> Request \cup {Idle}]
      /\ req'[p] = r /\ \A q \in Procs \ {p} : req'[q] = req[q]
  BY DEF IInv
<1>2. /\ \A q \in Procs \ {p} : Serving(q)' <=> Serving(q)
      /\ Serving(p)' <=> r # Idle
  BY <1>1 DEF Serving
<1>3. r = Idle => r.pc = "idle"
  BY DEF Idle
<1>4. \A q \in Procs : Serving(q)' => RequestOK(q)'
  BY <1>1, <1>2 DEF IInv, RequestOK
<1>5. DrawnOK'
  <2>1. drawn' \subseteq Ids /\ \A i \in Ids : sessions'[i] # None => i \in drawn'
    BY DEF IInv, DrawnOK
  <2>2. \A c \in Clients : jar'[c] \in drawn' \cup {None}
    BY DEF IInv, DrawnOK
  <2>3. \A q \in Procs : Serving(q)' => {req'[q].id, req'[q].new} \subseteq drawn' \cup {None}
    BY <1>1, <1>2 DEF IInv, DrawnOK
  <2> QED
    BY <2>1, <2>2, <2>3 DEF DrawnOK
<1>6. ASSUME NEW q \in Procs, req'[q].pc = "save" PROVE Fresh(q)'
  <2>1. q # p /\ req'[q] = req[q] /\ Fresh(q)
    BY <1>1, <1>3, <1>6 DEF IInv
  <2>2. req[q].new \in Ids /\ sessions[req[q].new] = None
    BY <2>1 DEF Fresh, IInv, DrawnOK
  <2>3. Serving(q)
    BY <1>6, <2>1 DEF Serving, Idle
  <2>4. r # Idle => r.id # req[q].new /\ r.new # req[q].new
    BY <2>1, <2>2 DEF Fresh
  <2> QED
    BY <1>1, <1>2, <2>1, <2>2, <2>4 DEF Fresh
<1> QED
  BY <1>1, <1>4, <1>5, <1>6 DEF IInv

(* What a request is, and that drawing and serving never mix up two of     *)
(* them, is kept by every step.                                            *)
LEMMA NextIInv == IInv /\ [Next]_vars => IInv'
<1> SUFFICES ASSUME IInv, [Next]_vars PROVE IInv'
  OBVIOUS
<1> USE SessionsAssumption
<1>s. \A p \in Procs : /\ Serving(p) <=> req[p].pc # "idle"
                       /\ Serving(p) => req[p] \in Request
  BY ServingPc
<1>1. ASSUME NEW p \in Procs, NEW c \in Clients, NEW op \in Operations, NEW u \in Users \cup {None},
             Arrive(p, c, op, u)
      PROVE  IInv'
  <2>1. ~Serving(p)
    BY <1>1, <1>s DEF Arrive
  <2> DEFINE r == [pc |-> CASE op \in {"register", "login"} -> "credentials"
                            [] op = "logout" -> "flush"
                            [] OTHER -> "load",
                   op |-> op, client |-> c, id |-> jar[c], user |-> u, role |-> "user", new |-> None]
  <2>2. r \in Request
    BY DEF IInv, Request, Roles
  <2>3. r.pc = "credentials" => u \in Users
    BY <1>1 DEF Arrive
  <2>4. r.pc \in {"credentials", "flush", "load"} /\ (r.pc = "load" => op \notin {"register", "login"})
    OBVIOUS
  <2> QED
    BY <1>1, <2>2, <2>3, <2>4, RequestStep DEF Arrive, IInv
<1>2. ASSUME NEW p \in Procs, Credentials(p) PROVE IInv'
  <2>1. Serving(p) /\ req[p] \in Request /\ RequestOK(p) /\ req[p].user \in Users
    BY <1>2, <1>s DEF Credentials, IInv, RequestOK
  <2> DEFINE loading == [req[p] EXCEPT !.role = users[req[p].user], !.pc = "load"]
             inserting == [req[p] EXCEPT !.pc = "insert"]
  <2>2. CASE users[req[p].user] # None /\ req' = [req EXCEPT ![p] = loading]
    <3>1. users[req[p].user] \in Roles
      BY <2>1, <2>2 DEF IInv
    <3>2. /\ loading \in Request /\ loading.pc = "load" /\ loading.user = req[p].user
          /\ loading.new = req[p].new /\ loading.id = req[p].id
      BY <2>1, <3>1 DEF Request
    <3> HIDE DEF loading
    <3> QED
      BY <1>2, <2>1, <2>2, <3>2, RequestStep DEF Credentials, IInv
  <2>3. CASE Goto(p, "insert")
    <3>1. req' = [req EXCEPT ![p] = inserting]
      BY <2>3 DEF Goto
    <3>2. /\ inserting \in Request /\ inserting.pc = "insert" /\ inserting.user = req[p].user
          /\ inserting.new = req[p].new /\ inserting.id = req[p].id
      BY <2>1 DEF Request
    <3> HIDE DEF inserting
    <3> QED
      BY <1>2, <2>1, <3>1, <3>2, RequestStep DEF Credentials, IInv
  <2>4. CASE Finish(p)
    BY <1>2, <2>4, RequestStep DEF Credentials, Finish, IInv
  <2> QED
    BY <1>2, <2>2, <2>3, <2>4 DEF Credentials
<1>3. ASSUME NEW p \in Procs, InsertUser(p) PROVE IInv'
  <2>1. Serving(p) /\ req[p] \in Request /\ req[p].user \in Users
    BY <1>3, <1>s DEF InsertUser, IInv, RequestOK
  <2>2. users' \in [Users -> Roles \cup {None}]
    BY <1>3 DEF InsertUser, IInv, Roles
  <2>3. CASE Finish(p)
    BY <1>3, <2>2, <2>3, RequestStep DEF InsertUser, Finish, IInv
  <2>4. CASE Goto(p, "load")
    <3>1. [req[p] EXCEPT !.pc = "load"] \in Request
      BY <2>1 DEF Request
    <3>2. req' = [req EXCEPT ![p] = [req[p] EXCEPT !.pc = "load"]]
      BY <2>4 DEF Goto
    <3> QED
      BY <1>3, <2>1, <2>2, <3>1, <3>2, RequestStep DEF InsertUser, IInv, Request
  <2> QED
    BY <1>3, <2>3, <2>4 DEF InsertUser
<1>4. ASSUME NEW p \in Procs, LoadSession(p) PROVE IInv'
  <2>1. Serving(p) /\ req[p] \in Request /\ RequestOK(p)
    BY <1>4, <1>s DEF LoadSession, IInv
  <2> DEFINE found == Loaded(req[p].id)
  <2>2. found \in Session \cup {None}
    BY DEF Loaded, IInv
  <2>3. found # None => found.user \in Users /\ found.role \in Roles
    BY <2>2 DEF Session
  <2> HIDE DEF found
  <2> DEFINE r == WithSession(req[p], found)
  <2>4. req' = [req EXCEPT ![p] = r]
    BY <1>4 DEF LoadSession, found
  <2>5. CASE req[p].op \in {"register", "login"}
    <3>1. r = [req[p] EXCEPT !.pc = "cycle", !.id = IF found = None THEN None ELSE req[p].id]
      BY <2>5 DEF WithSession
    <3>2. /\ r \in Request /\ r.pc = "cycle" /\ r.new = req[p].new
          /\ r.id \in {None, req[p].id} /\ r.user = req[p].user
      BY <2>1, <3>1 DEF Request
    <3>3. req[p].user \in Users
      BY <1>4, <2>1, <2>5 DEF LoadSession, RequestOK
    <3> HIDE DEF r
    <3>4. /\ users' \in [Users -> Roles \cup {None}]
          /\ sessions' \in [Ids -> Session \cup {None}]
          /\ UNCHANGED << sessions, jar, now, drawn >>
      BY <1>4 DEF LoadSession, IInv
    <3> QED
      BY <2>1, <2>4, <3>2, <3>3, <3>4, RequestStep
  <2>6. CASE req[p].op \notin {"register", "login"} /\ found = None /\ req[p].id # None
    <3>1. r = [req[p] EXCEPT !.pc = "respond"]
      BY <2>6 DEF WithSession
    <3>2. r \in Request /\ r.pc = "respond" /\ r.new = req[p].new /\ r.id = req[p].id
      BY <2>1, <3>1 DEF Request
    <3> HIDE DEF r
    <3> QED
      BY <1>4, <2>1, <2>4, <3>2, RequestStep DEF LoadSession, IInv
  <2>7. CASE req[p].op = "me" /\ found # None
    <3>1. r = [req[p] EXCEPT !.pc = "lookup", !.user = found.user, !.role = found.role]
      BY <2>7 DEF WithSession
    <3>2. /\ r \in Request /\ r.pc = "lookup" /\ r.new = req[p].new /\ r.id = req[p].id
          /\ r.user \in Users
      BY <2>1, <2>3, <2>7, <3>1 DEF Request
    <3> HIDE DEF r
    <3> QED
      BY <1>4, <2>1, <2>4, <3>2, RequestStep DEF LoadSession, IInv
  <2>8. CASE r = Idle
    BY <1>4, <2>4, <2>8, RequestStep DEF LoadSession, IInv
  <2> QED
    BY <2>5, <2>6, <2>7, <2>8 DEF WithSession
<1>5. ASSUME NEW p \in Procs, LookupUser(p) PROVE IInv'
  <2>1. Serving(p) /\ req[p] \in Request /\ req[p].user \in Users
    BY <1>5, <1>s DEF LookupUser, IInv, RequestOK
  <2>2. CASE Finish(p)
    BY <1>5, <2>2, RequestStep DEF LookupUser, Finish, IInv
  <2>3. CASE Goto(p, "cycle")
    <3>1. [req[p] EXCEPT !.pc = "cycle"] \in Request
      BY <2>1 DEF Request
    <3>2. req' = [req EXCEPT ![p] = [req[p] EXCEPT !.pc = "cycle"]]
      BY <2>3 DEF Goto
    <3> QED
      BY <1>5, <2>1, <3>1, <3>2, RequestStep DEF LookupUser, IInv, Request
  <2> QED
    BY <1>5, <2>2, <2>3 DEF LookupUser
<1>6. ASSUME NEW p \in Procs, CycleId(p) PROVE IInv'
  <2>1. Serving(p) /\ req[p] \in Request /\ RequestOK(p) /\ req[p].id \in drawn \cup {None}
    BY <1>6, <1>s DEF CycleId, IInv, DrawnOK
  <2>2. PICK id \in Ids \ drawn : /\ req' = [req EXCEPT ![p] = [req[p] EXCEPT !.new = id, !.pc = "save"]]
                                  /\ drawn' = drawn \cup {id}
    BY <1>6 DEF CycleId, Drawable
  <2> DEFINE r == [req[p] EXCEPT !.new = id, !.pc = "save"]
  <2>3. r \in Request /\ r.pc = "save" /\ r.new = id /\ r.id = req[p].id /\ r.user = req[p].user
    BY <2>1 DEF Request
  <2>4. r # Idle
    BY <2>3 DEF Idle
  <2>5. req[p].user \in Users
    BY <1>6, <2>1 DEF CycleId, RequestOK
  <2> HIDE DEF r
  <2>6. /\ req' \in [Procs -> Request \cup {Idle}]
        /\ req'[p] = r /\ \A q \in Procs \ {p} : req'[q] = req[q]
    BY <2>2, <2>3 DEF r, IInv
  <2>7. Serving(p)' /\ \A q \in Procs \ {p} : Serving(q)' <=> Serving(q)
    BY <2>4, <2>6 DEF Serving
  <2>8. /\ sessions' \in [Ids -> Session \cup {None}]
        /\ \A i \in Ids : sessions'[i] \in {sessions[i], None}
    BY <1>6 DEF CycleId, Deleted, IInv
  <2>9. /\ id \in Ids /\ id # None /\ sessions'[id] = None
        /\ \A c \in Clients : jar[c] # id
        /\ \A q \in Procs : Serving(q) => req[q].id # id /\ req[q].new # id
    BY <2>8 DEF IInv, DrawnOK
  <2>10. DrawnOK'
    <3>1. drawn' \subseteq Ids /\ \A i \in Ids : sessions'[i] # None => i \in drawn'
      BY <2>2, <2>8 DEF IInv, DrawnOK
    <3>2. \A c \in Clients : jar'[c] \in drawn' \cup {None}
      BY <1>6, <2>2 DEF CycleId, IInv, DrawnOK
    <3>3. \A q \in Procs : Serving(q)' => {req'[q].id, req'[q].new} \subseteq drawn' \cup {None}
      BY <2>1, <2>2, <2>3, <2>6, <2>7 DEF IInv, DrawnOK
    <3> QED
      BY <3>1, <3>2, <3>3 DEF DrawnOK
  <2>11. Fresh(p)'
    BY <1>6, <2>1, <2>2, <2>3, <2>6, <2>7, <2>9 DEF Fresh, CycleId
  <2>12. ASSUME NEW q \in Procs, q # p, req'[q].pc = "save" PROVE Fresh(q)'
    <3>1. req'[q] = req[q] /\ Fresh(q)
      BY <2>6, <2>12 DEF IInv
    <3>2. req[q].new \in Ids /\ sessions'[req[q].new] = None /\ req[q].new # id /\ req[q].new # r.id
      BY <2>1, <2>2, <2>3, <2>8, <3>1 DEF Fresh, IInv, DrawnOK
    <3> QED
      BY <1>6, <2>2, <2>3, <2>6, <2>7, <3>1, <3>2 DEF Fresh, CycleId
  <2>13. \A q \in Procs : Serving(q)' => RequestOK(q)'
    BY <2>3, <2>5, <2>6, <2>7 DEF IInv, RequestOK
  <2> QED
    BY <1>6, <2>6, <2>8, <2>10, <2>11, <2>12, <2>13 DEF CycleId, IInv
<1>7. ASSUME NEW p \in Procs, SaveSession(p) PROVE IInv'
  <2>1. Serving(p) /\ req[p] \in Request /\ req[p].user \in Users /\ Fresh(p)
    BY <1>7, <1>s DEF SaveSession, IInv, RequestOK
  <2> DEFINE r == [req[p] EXCEPT !.pc = "respond"]
             saved == [user |-> req[p].user, role |-> req[p].role, expiry |-> now + Ttl]
  <2>2. r \in Request /\ r.pc = "respond" /\ r.new = req[p].new /\ r.id = req[p].id
    BY <2>1 DEF Request
  <2>3. req' = [req EXCEPT ![p] = r] /\ r # Idle
    BY <1>7, <2>2 DEF SaveSession, Goto, Idle
  <2> HIDE DEF r
  <2>4. /\ req' \in [Procs -> Request \cup {Idle}]
        /\ req'[p] = r /\ \A q \in Procs \ {p} : req'[q] = req[q]
    BY <2>2, <2>3 DEF IInv
  <2>5. Serving(p)' /\ \A q \in Procs \ {p} : Serving(q)' <=> Serving(q)
    BY <2>3, <2>4 DEF Serving
  <2>6. req[p].new \in Ids
    BY <2>1 DEF Fresh, IInv, DrawnOK
  <2>7. saved \in Session /\ saved.expiry = now + Ttl
    BY <2>1 DEF Session, Request, IInv
  <2> HIDE DEF saved
  <2>8. sessions' = [sessions EXCEPT ![req[p].new] = saved]
    BY <1>7 DEF SaveSession, Saved, saved
  <2>9. /\ sessions' \in [Ids -> Session \cup {None}]
        /\ \A i \in Ids : sessions'[i] # None => sessions'[i].expiry <= now' + Ttl
    BY <1>7, <2>6, <2>7, <2>8 DEF SaveSession, IInv
  <2>10. DrawnOK'
    <3>1. drawn' \subseteq Ids /\ \A i \in Ids : sessions'[i] # None => i \in drawn'
      BY <1>7, <2>1, <2>6, <2>8 DEF SaveSession, IInv, DrawnOK, Fresh
    <3>2. \A c \in Clients : jar'[c] \in drawn' \cup {None}
      BY <1>7 DEF SaveSession, IInv, DrawnOK
    <3>3. \A q \in Procs : Serving(q)' => {req'[q].id, req'[q].new} \subseteq drawn' \cup {None}
      BY <1>7, <2>1, <2>2, <2>4, <2>5 DEF SaveSession, IInv, DrawnOK
    <3> QED
      BY <3>1, <3>2, <3>3 DEF DrawnOK
  <2>11. ASSUME NEW q \in Procs, req'[q].pc = "save" PROVE Fresh(q)'
    <3>1. q # p /\ req'[q] = req[q] /\ Fresh(q)
      BY <2>2, <2>4, <2>11 DEF IInv
    <3>2. req[q].new \in Ids /\ req[q].new # req[p].new /\ req[q].new # req[p].id
      BY <2>1, <3>1 DEF Fresh, IInv, DrawnOK
    <3>3. sessions'[req[q].new] = None
      BY <2>8, <3>1, <3>2 DEF Fresh, IInv
    <3> QED
      BY <1>7, <2>2, <2>4, <2>5, <3>1, <3>2, <3>3 DEF Fresh, SaveSession
  <2>12. \A q \in Procs : Serving(q)' => RequestOK(q)'
    BY <2>2, <2>4, <2>5 DEF IInv, RequestOK
  <2> QED
    BY <1>7, <2>4, <2>9, <2>10, <2>11, <2>12 DEF SaveSession, IInv
<1>8. ASSUME NEW p \in Procs, FlushSession(p) PROVE IInv'
  <2>1. Serving(p) /\ req[p] \in Request
    BY <1>8, <1>s DEF FlushSession, IInv
  <2> DEFINE r == IF req[p].id = None THEN Idle ELSE [req[p] EXCEPT !.pc = "respond"]
  <2>2. req' = [req EXCEPT ![p] = r]
    BY <1>8 DEF FlushSession
  <2>3. r \in Request \cup {Idle}
          /\ (r # Idle => r.pc = "respond" /\ r.new = req[p].new /\ r.id = req[p].id)
    BY <2>1 DEF Request
  <2>4. /\ sessions' \in [Ids -> Session \cup {None}]
        /\ \A i \in Ids : sessions'[i] \in {sessions[i], None}
    BY <1>8 DEF FlushSession, Deleted, IInv
  <2>5. /\ users' \in [Users -> Roles \cup {None}]
        /\ UNCHANGED << jar, now, drawn >>
    BY <1>8 DEF FlushSession, IInv
  <2> HIDE DEF r
  <2> QED
    BY <2>1, <2>2, <2>3, <2>4, <2>5, RequestStep
<1>9. ASSUME NEW p \in Procs, Respond(p) PROVE IInv'
  <2>1. Serving(p) /\ req[p] \in Request /\ {req[p].id, req[p].new} \subseteq drawn \cup {None}
    BY <1>9, <1>s DEF Respond, IInv, DrawnOK
  <2>2. /\ req' \in [Procs -> Request \cup {Idle}]
        /\ req'[p] = Idle /\ \A q \in Procs \ {p} : req'[q] = req[q]
    BY <1>9 DEF Respond, Finish, IInv
  <2>3. /\ jar' \in [Clients -> Ids \cup {None}]
        /\ \A c \in Clients : jar'[c] \in {jar[c], req[p].new}
    BY <1>9, <2>1 DEF Respond, IInv, Request
  <2>4. ~Serving(p)' /\ req'[p].pc = "idle" /\ \A q \in Procs \ {p} : Serving(q)' <=> Serving(q)
    BY <2>2 DEF Serving, Idle
  <2>5. DrawnOK'
    BY <1>9, <2>1, <2>2, <2>3, <2>4 DEF Respond, IInv, DrawnOK
  <2>6. ASSUME NEW q \in Procs, req'[q].pc = "save" PROVE Fresh(q)'
    <3>1. q # p /\ req'[q] = req[q] /\ Fresh(q)
      BY <2>2, <2>4, <2>6 DEF IInv
    <3>2. req[q].new # req[p].new
      BY <2>1, <3>1 DEF Fresh
    <3> QED
      BY <1>9, <2>2, <2>3, <2>4, <3>1, <3>2 DEF Respond, Fresh
  <2>7. \A q \in Procs : Serving(q)' => RequestOK(q)'
    BY <2>2, <2>4 DEF IInv, RequestOK
  <2> QED
    BY <1>9, <2>2, <2>3, <2>5, <2>6, <2>7 DEF Respond, IInv
<1>10. ASSUME NEW p \in Procs, Abandon(p) PROVE IInv'
  BY <1>10, RequestStep DEF Abandon, Finish, IInv
<1>11. ASSUME NEW u \in Users, NEW role \in Roles \cup {None}, ChangeUser(u, role) PROVE IInv'
  BY <1>11 DEF IInv, ChangeUser, DrawnOK, Fresh, RequestOK, Serving
<1>12. CASE Tick
  BY <1>12 DEF IInv, Tick, DrawnOK, Fresh, RequestOK, Serving, Session
<1>13. CASE Sweep
  BY <1>13 DEF IInv, Sweep, Deleted, DrawnOK, Fresh, RequestOK, Serving
<1>14. CASE SweepFails
  BY <1>14 DEF IInv, SweepFails, DrawnOK, Fresh, RequestOK, Serving
<1>15. CASE UNCHANGED vars
  BY <1>15 DEF IInv, vars, DrawnOK, Fresh, RequestOK, Serving
<1> QED
  BY <1>1, <1>2, <1>3, <1>4, <1>5, <1>6, <1>7, <1>8, <1>9, <1>10, <1>11, <1>12, <1>13, <1>14, <1>15
     DEF Next, Step

-----------------------------------------------------------------------------
(* Stored sessions are well formed, drawn and due within Ttl, for any      *)
(* number of browsers, requests, users and ids.                            *)
THEOREM TypeCorrect == Spec => []TypeOK
<1>1. Spec => []IInv
  BY InitIInv, NextIInv, PTL DEF Spec
<1> QED
  BY <1>1, IInvTypeOK, PTL

(* The only step that stores a session is SaveSession, and the id it       *)
(* stores is fresh.                                                        *)
LEMMA StoredBySave ==
  ASSUME IInv, [Next]_vars, NEW i \in Ids, sessions'[i] # sessions[i], sessions'[i] # None
  PROVE  \E p \in Procs : req[p].pc = "save" /\ req[p].new = i /\ Fresh(p)
<1> USE DEF IInv
<1>1. ASSUME NEW p \in Procs, SaveSession(p) PROVE req[p].new = i /\ Fresh(p) /\ req[p].pc = "save"
  BY <1>1 DEF SaveSession, Saved
<1>2. ASSUME NEW gone \in SUBSET Ids, sessions' = Deleted(gone) PROVE FALSE
  BY <1>2 DEF Deleted
<1>3. ASSUME NEW p \in Procs, CycleId(p) \/ FlushSession(p) PROVE FALSE
  BY <1>3 DEF CycleId, FlushSession, Deleted
<1>4. CASE Sweep
  BY <1>4 DEF Sweep, Deleted
<1>5. \A p \in Procs : Credentials(p) \/ InsertUser(p) \/ LoadSession(p) \/ LookupUser(p) \/ Respond(p)
                         \/ Abandon(p) => UNCHANGED sessions
  BY DEF Credentials, InsertUser, LoadSession, LookupUser, Respond, Abandon
<1>6. /\ \A p \in Procs, c \in Clients, op \in Operations, u \in Users \cup {None} :
           Arrive(p, c, op, u) => UNCHANGED sessions
      /\ \A u \in Users, role \in Roles \cup {None} : ChangeUser(u, role) => UNCHANGED sessions
      /\ Tick \/ SweepFails \/ UNCHANGED vars => UNCHANGED sessions
  BY DEF Arrive, ChangeUser, Tick, SweepFails, vars
<1> QED
  BY <1>1, <1>3, <1>4, <1>5, <1>6 DEF Next, Step

(* A destroyed id that a request still has loaded is not written back: a   *)
(* fresh id is no request's.                                               *)
THEOREM Destroyed == Spec => StaysDestroyed
<1>1. ASSUME IInv, [Next]_vars, NEW i \in Ids, NEW p \in Procs,
             req[p].pc # "idle", req[p].id = i, sessions[i] = None
      PROVE  sessions'[i] = None
  <2>1. SUFFICES ASSUME sessions'[i] # None PROVE FALSE
    OBVIOUS
  <2>2. PICK q \in Procs : req[q].new = i /\ Fresh(q)
    BY <1>1, <2>1, StoredBySave
  <2> QED
    BY <1>1, <2>2, ServingPc DEF Fresh
<1>2. IInv /\ [Next]_vars
        => [\A i \in Ids :
              (\E p \in Procs : req[p].pc # "idle" /\ req[p].id = i) /\ sessions[i] = None
                => sessions'[i] = None]_vars
  BY <1>1
<1> QED
  BY <1>2, InitIInv, NextIInv, PTL DEF Spec, StaysDestroyed

(* A stored session keeps its user and role: what is stored over it would  *)
(* have to be fresh.                                                       *)
THEOREM Owner == Spec => NeverReowned
<1>1. ASSUME IInv, [Next]_vars, NEW i \in Ids, sessions[i] # None, sessions'[i] # None
      PROVE  sessions'[i] = sessions[i]
  BY <1>1, StoredBySave DEF Fresh
<1>2. IInv /\ [Next]_vars
        => [\A i \in Ids : sessions[i] # None /\ sessions'[i] # None
              => << sessions'[i].user, sessions'[i].role >> = << sessions[i].user, sessions[i].role >>]_vars
  BY <1>1
<1> QED
  BY <1>2, InitIInv, NextIInv, PTL DEF Spec, NeverReowned
=============================================================================
