--------------------------- MODULE NestWorkspace ---------------------------
(***************************************************************************)
(* The NestJS backend around the cards: accounts, projects, boards,        *)
(* labels, checklists, notes and tags, over TypeORM repositories and the   *)
(* foreign keys of the migrations.                                         *)
(*                                                                         *)
(* A handler is an action that makes its checks and loads its entity and   *)
(* leaves the writes it decided on in req; Write performs them, one        *)
(* repository call (or one transaction) at a time, so that handlers        *)
(* overlap.  Rows are tables from ids to records; titles, colours and      *)
(* texts are left out, names are kept where the code compares them.        *)
(* Requests refused by their checks change nothing and are not actions.    *)
(***************************************************************************)
EXTENDS Integers, FiniteSets, SequencesExt

CONSTANTS
  Ids,          (* [table -> the ids AUTO_INCREMENT can still reach]       *)
  Names,        (* names of labels                                         *)
  Emails,       (* e-mails of users                                        *)
  DefaultNames, (* the names seedDefaultLabels gives                       *)
  Stored,       (* the database at the start                               *)
  Requests,     (* the requests the server may be working on at a time     *)
  MaxRequests,  (* bound: the requests of a behaviour                      *)
  None

Tables == {"users", "projects", "boards", "columns", "cards", "labels",
           "cardLabels", "checklists", "items", "tags", "notes"}

ASSUME NestWorkspaceAssumption ==
  /\ DOMAIN Ids = Tables /\ DOMAIN Stored = Tables
  /\ \A t \in Tables : None \notin Ids[t] \cup DOMAIN Stored[t]
  /\ DefaultNames \subseteq Names /\ IsFiniteSet(DefaultNames) /\ DefaultNames # {}

VARIABLES
  db,        (* [Tables -> [ids that have a row -> row]]               *)
  used,      (* [Tables -> ids ever given out]                         *)
  req,       (* [Requests -> what the handler holds]                   *)
  started,
  raced,     (* history: two requests on label names have overlapped   *)
  strayed    (* history: the notes an update was to link to something  *)
             (* that was not its caller's                              *)

vars == << db, used, req, started, raced, strayed >>

-----------------------------------------------------------------------------
(* The migrations' foreign keys: what is left when rows have gone. *)

Only(table, Keep(_)) == [i \in {j \in DOMAIN table : Keep(table[j])} |-> table[i]]

LinkLive(link, table) == link = None \/ link \in DOMAIN table

(* boards.project_id is set to null, a board takes its columns with it. *)
BoardsLeft(d) ==
  LET columns == Only(d.columns, LAMBDA c : c.board \in DOMAIN d.boards)
      boards  == [b \in DOMAIN d.boards |->
                    [d.boards[b] EXCEPT !.project = IF LinkLive(@, d.projects) THEN @ ELSE None]]
  IN [d EXCEPT !.boards = boards, !.columns = columns]

CardsLeft(d) == [d EXCEPT !.cards = Only(@, LAMBDA k : k.column \in DOMAIN d.columns)]

LabelsLeft(d) ==
  [d EXCEPT !.cardLabels = Only(@, LAMBDA x : x.card \in DOMAIN d.cards
                                              /\ x.label \in DOMAIN d.labels)]

ListsLeft(d) ==
  LET lists == Only(d.checklists, LAMBDA h : h.card \in DOMAIN d.cards)
  IN [d EXCEPT !.checklists = lists,
               !.items = Only(@, LAMBDA i : i.checklist \in DOMAIN lists)]

(* Mutant: notes.card_id without its foreign key. *)
NotesLeftNoCardKey(d) ==
  LET notes == Only(d.notes, LAMBDA n : /\ LinkLive(n.board, d.boards)
                                        /\ LinkLive(n.project, d.projects))
  IN [d EXCEPT !.notes = [n \in DOMAIN notes |-> [notes[n] EXCEPT !.tags = @ \cap DOMAIN d.tags]]]

NotesLeft(d) ==
  LET notes == Only(d.notes, LAMBDA n : /\ LinkLive(n.board, d.boards)
                                        /\ LinkLive(n.project, d.projects)
                                        /\ LinkLive(n.card, d.cards))
  IN [d EXCEPT !.notes = [n \in DOMAIN notes |-> [notes[n] EXCEPT !.tags = @ \cap DOMAIN d.tags]]]

Cascaded(d) == NotesLeft(ListsLeft(LabelsLeft(CardsLeft(BoardsLeft(d)))))

(* A row whose parents are missing, or a second user of one e-mail: the    *)
(* statement fails.                                                        *)
Refused(d) ==
  \/ Cascaded(d) # d
  \/ \E u, v \in DOMAIN d.users : u # v /\ d.users[u].email = d.users[v].email

-----------------------------------------------------------------------------
(* TypeORM repositories.  save() of a loaded entity writes all its columns *)
(* and inserts the row again if it is gone; update() and remove() of a row *)
(* that is gone do nothing.                                                *)

Save(t, i, row)       == [op |-> "save", table |-> t, id |-> i, row |-> row]
Insert(t, row)        == [op |-> "insert", table |-> t, id |-> None, row |-> row]
Update(t, i, row)     == [op |-> "update", table |-> t, id |-> i, row |-> row]
Delete(t, i)          == [op |-> "remove", table |-> t, id |-> i, row |-> None]

Patched(old, fields) ==
  [f \in DOMAIN old \cup DOMAIN fields |-> IF f \in DOMAIN fields THEN fields[f] ELSE old[f]]

Put(table, i, row) == [j \in DOMAIN table \cup {i} |-> IF j = i THEN row ELSE table[j]]

Without(table, i) == [j \in DOMAIN table \ {i} |-> table[j]]

Wrote(d, w, i) ==
  CASE w.op = "remove" -> Cascaded([d EXCEPT ![w.table] = Without(@, i)])
    [] w.op = "update" -> [d EXCEPT ![w.table] =
                             IF i \in DOMAIN @ THEN Put(@, i, Patched(@[i], w.row)) ELSE @]
    [] OTHER           -> [d EXCEPT ![w.table] = Put(@, i, w.row)]

-----------------------------------------------------------------------------
Idle == [at |-> "idle"]

NameRequest(q) == q # Idle /\ q.names

Free(r) == req[r] = Idle /\ started < MaxRequests

(* The SessionGuard has let u in; the checks hold; writes are to be done.  *)
Take(r, u, at, writes, names) ==
  /\ started' = started + 1
  /\ req' = [req EXCEPT ![r] = [at |-> at, user |-> u, writes |-> writes, names |-> names]]
  /\ raced' = (raced \/ (names /\ \E o \in Requests \ {r} : NameRequest(req[o])))
  /\ UNCHANGED << db, used >>

Begin(r, u, at, writes, names) == Take(r, u, at, writes, names) /\ UNCHANGED strayed

Handle(r, u, writes) == Begin(r, u, "write", writes, FALSE)

(* The next write of r; a statement that fails ends the request with 500.  *)
(* An inserted id stands for "new" in the writes after it.                 *)
Write(r) ==
  /\ req[r].at = "write"
  /\ LET w == Head(req[r].writes)
     IN \E i \in IF w.op = "insert" THEN Ids[w.table] \ used[w.table] ELSE {w.id} :
          LET after == Wrote(db, w, i)
              rest  == [n \in 1 .. Len(req[r].writes) - 1 |->
                          LET v == req[r].writes[n + 1]
                          IN IF w.table = "boards" /\ v.table = "columns"
                             THEN [v EXCEPT !.row.board = i] ELSE v]
          IN /\ w.op = "insert" => \A j \in Ids[w.table] \ used[w.table] : i <= j
             /\ used' = [used EXCEPT ![w.table] = @ \cup {i}]
             /\ db' = IF Refused(after) THEN db ELSE after
             /\ req' = [req EXCEPT ![r] =
                          IF Refused(after) THEN Idle
                          ELSE IF rest # << >> THEN [@ EXCEPT !.writes = rest]
                          ELSE IF w.table = "users" /\ w.row.role = "user"
                               THEN [@ EXCEPT !.at = "seed", !.user = i, !.names = TRUE]
                          ELSE Idle]
  /\ raced' = (raced \/ (req'[r] # Idle /\ req'[r].at = "seed"
                          /\ \E o \in Requests \ {r} : NameRequest(req[o])))
  /\ UNCHANGED << started, strayed >>

Owned(t, u) == {i \in DOMAIN db[t] : db[t][i].user = u}

BoardOfCard(d, k) == d.columns[d.cards[k].column].board

OwnColumns(u) == {c \in DOMAIN db.columns : db.boards[db.columns[c].board].user = u}

OwnCards(u) == {k \in DOMAIN db.cards : db.boards[BoardOfCard(db, k)].user = u}

OwnLists(u) == {h \in DOMAIN db.checklists : db.checklists[h].card \in OwnCards(u)}

-----------------------------------------------------------------------------
(* AuthService, LabelsService.seedDefaultLabels and create-admin           *)

Register(r) ==
  \E email \in Emails :
    /\ \A u \in DOMAIN db.users : db.users[u].email # email
    /\ Begin(r, None, "write", << Insert("users", [email |-> email, role |-> "user"]) >>, FALSE)

CreateAdmin(r) ==
  \E email \in Emails :
    /\ \A u \in DOMAIN db.users : db.users[u].role # "admin"
    /\ Begin(r, None, "write", << Insert("users", [email |-> email, role |-> "admin"]) >>, FALSE)

SeedDefaultLabels(r) ==
  /\ req[r].at = "seed"
  /\ LET u == req[r].user
         seeds == SetToSeq(DefaultNames)
     IN req' = [req EXCEPT ![r] =
                  IF Owned("labels", u) # {} THEN Idle
                  ELSE [@ EXCEPT !.at = "write",
                                 !.writes = [n \in DOMAIN seeds |->
                                               Insert("labels", [user |-> u, name |-> seeds[n]])]]]
  /\ UNCHANGED << db, used, started, raced, strayed >>

ListLabels(r, u) ==
  /\ u \in DOMAIN db.users
  /\ Owned("labels", u) = {}
  /\ Begin(r, u, "seed", << >>, TRUE)

-----------------------------------------------------------------------------
(* ProjectsService *)

CreateProject(r, u) == u \in DOMAIN db.users /\ Handle(r, u, << Insert("projects", [user |-> u]) >>)

UpdateProject(r, u) ==
  \E p \in Owned("projects", u) : Handle(r, u, << Save("projects", p, db.projects[p]) >>)

RemoveProject(r, u) ==
  \E p \in Owned("projects", u) : Handle(r, u, << Delete("projects", p) >>)

-----------------------------------------------------------------------------
(* BoardsService *)

(* The default columns are saved after the board, outside a transaction;   *)
(* one stands for the three.                                               *)
CreateBoard(r, u) ==
  /\ u \in DOMAIN db.users
  /\ \E p \in Owned("projects", u) \cup {None} :
       Handle(r, u, << Insert("boards", [user |-> u, project |-> p, archived |-> FALSE]),
                       Insert("columns", [board |-> None]) >>)

UpdateBoard(r, u) ==
  \E b \in Owned("boards", u), p \in Ids.projects \cup {None} :
    /\ p = None \/ p \in Owned("projects", u)
    /\ Handle(r, u, << Save("boards", b, [db.boards[b] EXCEPT !.project = p]) >>)

RemoveBoard(r, u) ==
  \E b \in Owned("boards", u) : Handle(r, u, << Delete("boards", b) >>)

Archive(r, u) ==
  \E b \in Owned("boards", u) :
    /\ ~db.boards[b].archived
    /\ Handle(r, u, << Save("boards", b, [db.boards[b] EXCEPT !.archived = TRUE]) >>)

Restore(r, u) ==
  \E b \in Owned("boards", u) :
    /\ db.boards[b].archived
    /\ Handle(r, u, << Save("boards", b, [db.boards[b] EXCEPT !.archived = FALSE]) >>)

PermanentDelete(r, u) ==
  \E b \in Owned("boards", u) :
    /\ db.boards[b].archived
    /\ Handle(r, u, << Delete("boards", b) >>)

-----------------------------------------------------------------------------
(* The cards, for what hangs on them (their positions are NestCards). *)

CreateCard(r, u) ==
  \E c \in OwnColumns(u) : Handle(r, u, << Insert("cards", [column |-> c]) >>)

MoveCard(r, u) ==
  \E k \in OwnCards(u), c \in OwnColumns(u) :
    Handle(r, u, << Update("cards", k, [column |-> c]) >>)

RemoveCard(r, u) == \E k \in OwnCards(u) : Handle(r, u, << Delete("cards", k) >>)

-----------------------------------------------------------------------------
(* LabelsService and the card labels of CardsService *)

NameFree(u, name, but) ==
  \A l \in Owned("labels", u) : db.labels[l].name = name => l = but

CreateLabel(r, u) ==
  \E name \in Names :
    /\ u \in DOMAIN db.users
    /\ NameFree(u, name, None)
    /\ Begin(r, u, "write", << Insert("labels", [user |-> u, name |-> name]) >>, TRUE)

(* Mutant: a rename does not look for a namesake. *)
UpdateLabelUnchecked(r, u) ==
  \E l \in Owned("labels", u), name \in Names :
    /\ u \in DOMAIN db.users
    /\ Begin(r, u, "write", << Save("labels", l, [user |-> u, name |-> name]) >>, TRUE)

UpdateLabel(r, u) ==
  \E l \in Owned("labels", u), name \in Names :
    /\ u \in DOMAIN db.users
    /\ NameFree(u, name, l)
    /\ Begin(r, u, "write", << Save("labels", l, [user |-> u, name |-> name]) >>, TRUE)

RemoveLabel(r, u) ==
  \E l \in Owned("labels", u) : Handle(r, u, << Delete("labels", l) >>)

Pair(k, l) == [card |-> k, label |-> l]

(* Mutant: the label's owner is not checked. *)
AssignLabelUnchecked(r, u) ==
  \E k \in OwnCards(u), l \in DOMAIN db.labels :
    /\ << k, l >> \notin DOMAIN db.cardLabels
    /\ Handle(r, u, << Save("cardLabels", << k, l >>, Pair(k, l)) >>)

AssignLabel(r, u) ==
  \E k \in OwnCards(u), l \in Owned("labels", u) :
    /\ << k, l >> \notin DOMAIN db.cardLabels
    /\ Handle(r, u, << Save("cardLabels", << k, l >>, Pair(k, l)) >>)

UnassignLabel(r, u) ==
  \E k \in OwnCards(u), l \in Owned("labels", u) :
    /\ << k, l >> \in DOMAIN db.cardLabels
    /\ Handle(r, u, << Delete("cardLabels", << k, l >>) >>)

-----------------------------------------------------------------------------
(* ChecklistsService *)

CreateChecklist(r, u) ==
  \E k \in OwnCards(u) : Handle(r, u, << Insert("checklists", [card |-> k]) >>)

UpdateChecklist(r, u) ==
  \E h \in OwnLists(u) : Handle(r, u, << Update("checklists", h, db.checklists[h]) >>)

RemoveChecklist(r, u) ==
  \E h \in OwnLists(u) : Handle(r, u, << Delete("checklists", h) >>)

CreateItem(r, u) ==
  \E h \in OwnLists(u) :
    Handle(r, u, << Insert("items", [checklist |-> h, done |-> FALSE]) >>)

UpdateItem(r, u) ==
  \E i \in DOMAIN db.items, done \in BOOLEAN :
    /\ db.items[i].checklist \in OwnLists(u)
    /\ Handle(r, u, << Update("items", i, [done |-> done]) >>)

RemoveItem(r, u) ==
  \E i \in DOMAIN db.items :
    /\ db.items[i].checklist \in OwnLists(u)
    /\ Handle(r, u, << Delete("items", i) >>)

-----------------------------------------------------------------------------
(* TagsService: update() changes the name without looking for a namesake,  *)
(* so names of tags are not kept.                                          *)

CreateTag(r, u) == u \in DOMAIN db.users /\ Handle(r, u, << Insert("tags", [user |-> u]) >>)

UpdateTag(r, u) ==
  \E t \in Owned("tags", u) : Handle(r, u, << Update("tags", t, [user |-> u]) >>)

RemoveTag(r, u) == \E t \in Owned("tags", u) : Handle(r, u, << Delete("tags", t) >>)

-----------------------------------------------------------------------------
(* NotesService *)

Named(t) == Ids[t] \cup DOMAIN db[t] \cup {None}

Links == [board : Named("boards"), project : Named("projects"), card : Named("cards")]

(* What create asks of a link; it may set several of the three. *)
OwnLink(link, u) ==
  /\ link.board = None \/ link.board \in Owned("boards", u)
  /\ link.project = None \/ link.project \in Owned("projects", u)
  /\ link.card = None \/ link.card \in OwnCards(u)

NoteRow(link, u, tags) ==
  [board |-> link.board, project |-> link.project, card |-> link.card, user |-> u, tags |-> tags]

(* findById: the first link that is set decides who may open the note. *)
MayOpen(d, n, u) ==
  LET note == d.notes[n]
  IN IF note.board # None THEN note.board \in DOMAIN d.boards /\ d.boards[note.board].user = u
     ELSE IF note.project # None
          THEN note.project \in DOMAIN d.projects /\ d.projects[note.project].user = u
     ELSE IF note.card # None
          THEN note.card \in DOMAIN d.cards /\ d.boards[BoardOfCard(d, note.card)].user = u
     ELSE note.user = u

(* findAll *)
Listed(u) == Owned("notes", u)

CreateNote(r, u) ==
  \E link \in Links, tags \in SUBSET Owned("tags", u) :
    /\ u \in DOMAIN db.users
    /\ OwnLink(link, u)
    /\ Handle(r, u, << Insert("notes", NoteRow(link, u, tags)) >>)

(* The links are stored as sent, whosever they are and however many; tags  *)
(* left out of the request stay what they were.  The entity was loaded     *)
(* with its board: save() takes board_id from that relation, not from the  *)
(* field the handler assigned, when there is one.                          *)
UpdateNote(r, u) ==
  \E n \in DOMAIN db.notes :
    LET note == db.notes[n]
    IN \E sent \in Links, tags \in (SUBSET Owned("tags", u)) \cup {note.tags} :
         LET link == [sent EXCEPT !.board = IF note.board # None THEN note.board ELSE @]
         IN /\ MayOpen(db, n, u)
            /\ Take(r, u, "write", << Save("notes", n, NoteRow(link, note.user, tags)) >>, FALSE)
            /\ strayed' = IF OwnLink(link, u) THEN strayed ELSE strayed \cup {n}

RemoveNote(r, u) ==
  \E n \in DOMAIN db.notes : MayOpen(db, n, u) /\ Handle(r, u, << Delete("notes", n) >>)

-----------------------------------------------------------------------------
(* What is said of a database below, and assumed of the one at the start.  *)

(* All that note's links and tags refer to is u's. *)
NoteOf(d, note, u) ==
  /\ note.board \in DOMAIN d.boards => d.boards[note.board].user = u
  /\ note.project \in DOMAIN d.projects => d.projects[note.project].user = u
  /\ note.card \in DOMAIN d.cards => d.boards[BoardOfCard(d, note.card)].user = u
  /\ \A t \in note.tags : d.tags[t].user = u

OneOwnerIn(d, but) ==
  /\ \A x \in DOMAIN d.cardLabels :
       d.boards[BoardOfCard(d, d.cardLabels[x].card)].user
         = d.labels[d.cardLabels[x].label].user
  /\ \A n \in DOMAIN d.notes \ but : NoteOf(d, d.notes[n], d.notes[n].user)
  /\ \A b \in DOMAIN d.boards :
       d.boards[b].project # None => d.projects[d.boards[b].project].user = d.boards[b].user

NamesApart(d) == \A l, m \in DOMAIN d.labels : d.labels[l] = d.labels[m] => l = m

ASSUME StoredAssumption ==
  /\ ~Refused(Stored) /\ OneOwnerIn(Stored, {}) /\ NamesApart(Stored)
  /\ \A b \in DOMAIN Stored.boards :
       DOMAIN Stored.boards[b] = {"user", "project", "archived"}
  /\ \A n \in DOMAIN Stored.notes :
       DOMAIN Stored.notes[n] = {"board", "project", "card", "user", "tags"}

Init ==
  /\ db = Stored
  /\ used = [t \in Tables |-> DOMAIN Stored[t]]
  /\ req = [r \in Requests |-> Idle]
  /\ started = 0
  /\ raced = FALSE
  /\ strayed = {}

ProjectsController(r, u) == CreateProject(r, u) \/ UpdateProject(r, u) \/ RemoveProject(r, u)

BoardsController(r, u) ==
  \/ CreateBoard(r, u) \/ UpdateBoard(r, u) \/ RemoveBoard(r, u)
  \/ Archive(r, u) \/ Restore(r, u) \/ PermanentDelete(r, u)

CardsController(r, u) ==
  \/ CreateCard(r, u) \/ MoveCard(r, u) \/ RemoveCard(r, u)
  \/ AssignLabel(r, u) \/ UnassignLabel(r, u)

LabelsController(r, u) ==
  ListLabels(r, u) \/ CreateLabel(r, u) \/ UpdateLabel(r, u) \/ RemoveLabel(r, u)

ChecklistsController(r, u) ==
  \/ CreateChecklist(r, u) \/ UpdateChecklist(r, u) \/ RemoveChecklist(r, u)
  \/ CreateItem(r, u) \/ UpdateItem(r, u) \/ RemoveItem(r, u)

TagsController(r, u) == CreateTag(r, u) \/ UpdateTag(r, u) \/ RemoveTag(r, u)

NotesController(r, u) == CreateNote(r, u) \/ UpdateNote(r, u) \/ RemoveNote(r, u)

Accounts(r) == Register(r) \/ CreateAdmin(r)

Controllers(r, u) ==
  \/ ProjectsController(r, u) \/ BoardsController(r, u) \/ CardsController(r, u)
  \/ LabelsController(r, u) \/ ChecklistsController(r, u)
  \/ TagsController(r, u) \/ NotesController(r, u)

Next ==
  \/ \E r \in Requests, u \in Ids.users : Free(r) /\ Controllers(r, u)
  \/ \E r \in Requests : Free(r) /\ Accounts(r)
  \/ \E r \in Requests : SeedDefaultLabels(r) \/ Write(r)

Spec == Init /\ [][Next]_vars

-----------------------------------------------------------------------------
(* What belongs together has one owner, whatever moves, removals, cascades *)
(* and stale saves come between a handler's checks and its save: a card    *)
(* carries labels of the user whose board it is on (assignLabel), a board  *)
(* is in a project of its own user, and a note has the links and the tags  *)
(* of the user who lists it.  The last fails of notes that an update was   *)
(* to link to something not its caller's, which update lets pass; they are *)
(* left out.  For the rest, update checks the tags against the caller,     *)
(* whom the link let in, not against note.user_id.                         *)
OneOwner == OneOwnerIn(db, strayed)

(* findAll lists a note by its user_id, findById lets in whoever owns what *)
(* the note is linked to: unless an update was to link the note to         *)
(* something not its caller's, the two never part, through relinking to    *)
(* any number of own things, moves of the linked card, cascades and stale  *)
(* saves, so every other note that is listed opens.                        *)
ListedNotesOpen ==
  \A u \in DOMAIN db.users : \A n \in Listed(u) \ strayed : MayOpen(db, n, u)

(* Two labels of a user share a name only if two requests on label names   *)
(* overlapped: create, rename and seeding each look for a namesake first,  *)
(* and no index backs them.                                                *)
NamesClashOnlyByRace == raced \/ NamesApart(db)
=============================================================================
