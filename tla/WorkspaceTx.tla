---------------------------- MODULE WorkspaceTx ----------------------------
(***************************************************************************)
(* The requests of Workspace as the transactions backend-rs runs, several  *)
(* at a time, all at REPEATABLE READ.                                      *)
(*                                                                         *)
(* A handler first reads what it needs with plain SELECTs (one snapshot of *)
(* committed rows), decides, and then writes without reading again.        *)
(* External to src/ and modelled from how the code relies on it: InnoDB's  *)
(* row locks, the gap locks of a DELETE on the index it scans, the shared  *)
(* lock on the parent row that a foreign key takes, and the cascades.  A   *)
(* statement gets all its locks at once or waits; a wait may end in a lock *)
(* error, which these handlers answer with a 500.                          *)
(***************************************************************************)
EXTENDS Naturals, Sequences, FiniteSets

CONSTANTS
  Projects, Boards, Cards, Notes, Tags, None, Unborn, Gone,
  Procs,      (* requests served at the same time       *)
  Requests,   (* what clients may ask for               *)
  InitRow,    (* the committed rows at the start        *)
  InitTags

VARIABLES
  row, tags,         (* the committed rows              *)
  newRow, newTags,   (* their newest versions           *)
  locks,             (* {<< tx, key, "S" or "X" >>}     *)
  gaps,              (* {<< tx, index entry >>}         *)
  tx                 (* the request each process serves *)

Atomic == INSTANCE Workspace

table == << row, tags >>
newest == << newRow, newTags >>
vars == << table, newest, locks, gaps, tx >>

(* Absent keys: links is a function of the keys a body has, archived and    *)
(* tags are None when absent.                                               *)
Bodies == UNION {Atomic!Bodies(kinds) : kinds \in SUBSET Atomic!Kinds}

ASSUME RequestsAssumption ==
  \A r \in Requests :
    /\ r.op \in {"create", "patch", "delete"}
    /\ r.row \in Atomic!Rows
    /\ r.op # "delete" => r.row \in Boards \cup Notes /\ r.links \in Bodies
    /\ r.op = "create" => r.tags \in SUBSET Tags
    /\ r.op = "patch" => /\ r.tags \in (SUBSET Tags) \cup {None}
                         /\ r.archived \in BOOLEAN \cup {None}

ASSUME RowsAssumption ==
  /\ None \notin Atomic!Rows
  /\ Projects \cap (Boards \cup Cards \cup Notes) = {}
  /\ Boards \cap (Cards \cup Notes) = {} /\ Cards \cap Notes = {}
  /\ Unborn # Gone /\ {Unborn, Gone} \cap Atomic!Row = {}

ASSUME InitAssumption ==
  /\ InitRow \in [Atomic!Rows -> Atomic!Row \cup {Unborn, Gone}]
  /\ InitTags \in [Notes -> SUBSET Tags]

-----------------------------------------------------------------------------
(* Locks.  A key is a row or the note_tags rows of a note.  The entries     *)
(* whose gaps are locked: << "project", p >> of boards.project_id and       *)
(* << "note", n >> of note_tags.                                            *)

TagsOf(n) == << "tags", n >>

Held(p) == {l[2] : l \in {h \in locks : h[1] = p /\ h[3] = "X"}}

(* A statement: what it locks, where it inserts, the newest rows after it.  *)
Statement(writes, reads, ranges, inserts, rows, tagsOf) ==
  [writes |-> writes, reads |-> reads, gaps |-> ranges, inserts |-> inserts,
   row |-> rows, tags |-> tagsOf]

InTheWay(q, s) ==
  \/ \E k \in s.writes, mode \in {"S", "X"} : << q, k, mode >> \in locks
  \/ \E k \in s.reads : << q, k, "X" >> \in locks
  \/ \E e \in s.inserts : << q, e >> \in gaps

Grantable(p, s) == \A q \in Procs \ {p} : ~InTheWay(q, s)

-----------------------------------------------------------------------------
(* The statements, one per store function. *)

Request(p) == tx[p].request

(* The rows a body makes its row refer to: their foreign keys are checked. *)
Parents(links) == {links[kind] : kind \in DOMAIN links} \ {None}

(* The boards.project_id entry a board's body adds. *)
ProjectEntry(r, links) ==
  IF r \in Boards /\ "project" \in DOMAIN links THEN {<< "project", links["project"] >>} ELSE {}

InsertRow(p) ==
  LET r == Request(p) IN
  Statement({r.row}, Parents(r.links), {}, ProjectEntry(r.row, r.links),
            [newRow EXCEPT ![r.row] = Atomic!Patched(Atomic!Unlinked, r.links, None)], newTags)

(* UPDATE .. WHERE id = ?: no row, no change. *)
ApplyPatch(p) ==
  LET r == Request(p)
      there == Atomic!Live(newRow, r.row)
  IN Statement({r.row}, IF there THEN Parents(r.links) ELSE {}, {},
               IF there THEN ProjectEntry(r.row, r.links) ELSE {},
               IF there
               THEN [newRow EXCEPT ![r.row] = Atomic!Patched(@, r.links, r.archived)]
               ELSE newRow,
               newTags)

(* The note_tags rows of n a scan meets, delete-marked ones included. *)
TagRows(n) == IF tags[n] \cup newTags[n] = {} THEN {} ELSE {TagsOf(n)}

(* Mutant: the scan of note_tags without the lock on its gap. *)
ClearNoteTagsRowsOnly(p) ==
  LET n == Request(p).row IN
  Statement(TagRows(n), {}, {}, {}, newRow, [newTags EXCEPT ![n] = {}])

ClearNoteTags(p) ==
  LET n == Request(p).row IN
  Statement(TagRows(n), {}, {<< "note", n >>}, {}, newRow, [newTags EXCEPT ![n] = {}])

LinkNoteTags(p) ==
  LET r == Request(p) IN
  Statement({TagsOf(r.row)}, {r.row}, {}, {<< "note", r.row >>},
            newRow, [newTags EXCEPT ![r.row] = @ \cup r.tags])

(* Rows and index entries that another transaction is changing are met too, *)
(* so the statement waits for both their old and their new referrers.       *)
DeleteRows(deleted, ranges) ==
  LET there == {r \in deleted : Atomic!Live(newRow, r)}
      met == UNION {Atomic!Cascade(t, there) \cup Atomic!Detached(t, there) : t \in {row, newRow}}
  IN Statement(deleted \cup met \cup UNION {TagRows(n) : n \in Notes \cap met}, {}, ranges, {},
               Atomic!Removed(newRow, there),
               Atomic!TagsRemoved(newTags, Atomic!Cascade(newRow, there)))

BoardsMet(project) == Atomic!BoardsIn(row, project) \cup Atomic!BoardsIn(newRow, project)

DeleteProjectBoards(p) ==
  DeleteRows(BoardsMet(Request(p).row), {<< "project", Request(p).row >>})

DeleteRow(p) == DeleteRows({Request(p).row}, {})

(* The next statement of p. *)
Pending(p) ==
  LET next == Head(tx[p].todo)
  IN CASE next = "insert" -> InsertRow(p)
       [] next = "update" -> ApplyPatch(p)
       [] next = "clear"  -> ClearNoteTags(p)
       [] next = "link"   -> LinkNoteTags(p)
       [] next = "boards" -> DeleteProjectBoards(p)
       [] next = "remove" -> DeleteRow(p)

(* The statements a request runs, in order; those with nothing to write are *)
(* not sent.                                                                *)
Plan(r) ==
  CASE r.op = "create" ->
         IF r.tags = {} THEN << "insert" >> ELSE << "insert", "link" >>
    [] r.op = "patch" ->
         (IF r.links = << >> /\ r.archived = None THEN << >> ELSE << "update" >>)
         \o (IF r.tags = None THEN << >>
             ELSE IF r.tags = {} THEN << "clear" >> ELSE << "clear", "link" >>)
    [] r.op = "delete" ->
         IF r.row \in Projects THEN << "boards", "remove" >> ELSE << "remove" >>

-----------------------------------------------------------------------------
(* What the reads at the start of the transaction decide. *)

Verdict(r) ==
  IF r.op # "create" /\ ~Atomic!Live(row, r.row) THEN 404
  ELSE IF r.op = "delete" THEN
    IF r.row \in Boards /\ ~row[r.row].archived THEN 409 ELSE 200
  ELSE IF r.op = "patch" /\ ~Atomic!SingleLink(row[r.row], r.links) THEN 400
  ELSE IF ~Atomic!TargetsLive(row, r.links) THEN 404
  ELSE 200

(* DatabaseError::code() is the SQLSTATE of an error, not its number. *)
Code(number) == IF number \in {1452, 1062} THEN "23000" ELSE "HY000"

(* insert_board and insert_note look for 1452; every other store function   *)
(* passes the error on.                                                     *)
ForeignKeyAnswer(p) ==
  IF Head(tx[p].todo) = "insert" /\ Code(1452) = "1452" THEN 404 ELSE 500

-----------------------------------------------------------------------------
(* The steps of a request. *)

Idle(answer) == [pc |-> "idle", answer |-> answer]

Init ==
  /\ row = InitRow /\ tags = InitTags
  /\ newRow = row /\ newTags = tags
  /\ locks = {} /\ gaps = {}
  /\ tx = [p \in Procs |-> Idle(None)]

InFlight(r) == \E p \in Procs : tx[p].pc # "idle" /\ Request(p).row = r

(* Bound: each id is created by one request.  DELETE of a project has no    *)
(* reads.                                                                   *)
Begin(p, r) ==
  /\ tx[p].pc = "idle"
  /\ r.op = "create" => row[r.row] = Unborn /\ ~InFlight(r.row)
  /\ tx' = [tx EXCEPT ![p] =
       IF r.op = "delete" /\ r.row \in Projects
       THEN [pc |-> "run", request |-> r, todo |-> Plan(r)]
       ELSE [pc |-> "read", request |-> r, todo |-> Plan(r)]]
  /\ UNCHANGED << table, newest, locks, gaps >>

Release(p) ==
  /\ locks' = {l \in locks : l[1] # p}
  /\ gaps' = {g \in gaps : g[1] # p}

(* The plain SELECTs; a refusal drops the transaction, nothing written. *)
Read(p) ==
  /\ tx[p].pc = "read"
  /\ LET verdict == Verdict(Request(p)) IN
     tx' = [tx EXCEPT ![p] = IF verdict = 200 THEN [@ EXCEPT !.pc = "run"] ELSE Idle(verdict)]
  /\ UNCHANGED << table, newest, locks, gaps >>

(* Mutant: locks released, nothing undone. *)
RollbackLocksOnly(p, answer) ==
  /\ Release(p)
  /\ tx' = [tx EXCEPT ![p] = Idle(answer)]
  /\ UNCHANGED << table, newest >>

Rollback(p, answer) ==
  /\ newRow' = [r \in Atomic!Rows |-> IF r \in Held(p) THEN row[r] ELSE newRow[r]]
  /\ newTags' = [n \in Notes |-> IF TagsOf(n) \in Held(p) THEN tags[n] ELSE newTags[n]]
  /\ Release(p)
  /\ tx' = [tx EXCEPT ![p] = Idle(answer)]
  /\ UNCHANGED table

Running(p) == tx[p].pc = "run" /\ tx[p].todo # << >>

(* A row the statement refers to is gone: error 1452. *)
Refers(p) == \E parent \in Pending(p).reads : ~Atomic!Live(newRow, parent)

(* DELETE of a project that is not there: zero rows, 404. *)
NoProject(p) ==
  /\ Request(p).op = "delete" /\ Request(p).row \in Projects
  /\ Head(tx[p].todo) = "remove" /\ ~Atomic!Live(newRow, Request(p).row)

Execute(p) ==
  LET s == Pending(p) IN
  /\ Running(p) /\ Grantable(p, s)
  /\ ~Refers(p) /\ ~NoProject(p)
  /\ newRow' = s.row /\ newTags' = s.tags
  /\ locks' = locks \cup {<< p, k, "X" >> : k \in s.writes} \cup {<< p, k, "S" >> : k \in s.reads}
  /\ gaps' = gaps \cup {<< p, e >> : e \in s.gaps}
  /\ tx' = [tx EXCEPT ![p].todo = Tail(@)]
  /\ UNCHANGED table

ForeignKeyError(p) ==
  /\ Running(p) /\ Grantable(p, Pending(p)) /\ Refers(p)
  /\ Rollback(p, ForeignKeyAnswer(p))

ProjectNotFound(p) ==
  /\ Running(p) /\ Grantable(p, Pending(p)) /\ NoProject(p)
  /\ Rollback(p, 404)

(* 1213 or 1205 while waiting; no handler here retries. *)
LockError(p) ==
  /\ Running(p) /\ ~Grantable(p, Pending(p))
  /\ Rollback(p, 500)

(* The 30 s timeout drops the handler and with it the transaction. *)
Abandon(p) ==
  /\ tx[p].pc # "idle"
  /\ Rollback(p, 503)

Commit(p) ==
  /\ tx[p].pc = "run" /\ tx[p].todo = << >>
  /\ row' = [r \in Atomic!Rows |-> IF r \in Held(p) THEN newRow[r] ELSE row[r]]
  /\ tags' = [n \in Notes |-> IF TagsOf(n) \in Held(p) THEN newTags[n] ELSE tags[n]]
  /\ Release(p)
  /\ tx' = [tx EXCEPT ![p] = Idle(200)]
  /\ UNCHANGED newest

Next ==
  \E p \in Procs :
    \/ \E r \in Requests : Begin(p, r)
    \/ Read(p) \/ Execute(p) \/ Commit(p)
    \/ ForeignKeyError(p) \/ ProjectNotFound(p) \/ LockError(p) \/ Abandon(p)

Spec == Init /\ [][Next]_vars

-----------------------------------------------------------------------------
(* Newest versions differ from the committed ones only under the writer's   *)
(* lock, and no two transactions hold the same row.                         *)
TypeOK ==
  /\ {row, newRow} \subseteq [Atomic!Rows -> Atomic!Row \cup {Unborn, Gone}]
  /\ {tags, newTags} \subseteq [Notes -> SUBSET Tags]
  /\ \A r \in Atomic!Rows : row[r] # newRow[r] => \E p \in Procs : r \in Held(p)
  /\ \A n \in Notes : tags[n] # newTags[n] => \E p \in Procs : TagsOf(n) \in Held(p)
  /\ \A p, q \in Procs : p # q => Held(p) \cap Held(q) = {}

(* What request r does when nobody else is there. *)
Alone(r) ==
  CASE r.op = "create" /\ r.row \in Boards -> Atomic!CreateBoard(r.row, r.links)
    [] r.op = "create" /\ r.row \in Notes -> Atomic!CreateNote(r.row, r.links, r.tags)
    [] r.op = "patch" /\ r.row \in Boards -> Atomic!PatchBoard(r.row, r.links, r.archived)
    [] r.op = "patch" /\ r.row \in Notes -> Atomic!PatchNote(r.row, r.links, r.tags)
    [] r.op = "delete" /\ r.row \in Projects -> Atomic!DeleteProject(r.row)
    [] r.op = "delete" /\ r.row \in Boards -> Atomic!DeleteBoard(r.row)
    [] r.op = "delete" /\ r.row \in Cards -> Atomic!DeleteCard(r.row)
    [] r.op = "delete" /\ r.row \in Notes -> Atomic!DeleteNote(r.row)

(* A commit does to the committed rows what its request alone would have    *)
(* done, or nothing when its row has gone: a replaced tag set is exactly    *)
(* the one of the last request, a project never leaves a board behind, and  *)
(* no link is made to a row that is being deleted.                          *)
CommitIsRequest ==
  [][\A p \in Procs : Commit(p) => Alone(Request(p)) \/ UNCHANGED table]_vars
=============================================================================
