------------------------------ MODULE Workspace ------------------------------
(***************************************************************************)
(* The tree of rows a user owns, one request at a time: projects, boards   *)
(* (in a project or not), cards (in a board) and notes (linked to at most  *)
(* one of these, or general).                                              *)
(*                                                                         *)
(* A row another user owns is, for every handler, a row that is not there  *)
(* (404), so the model has one user.  A column stands between a card and   *)
(* its board; what matters here is that it goes with the board.  Requests  *)
(* that end in a 4xx change nothing and are not actions.  WorkspaceTx has  *)
(* the same requests as interleaved transactions.                          *)
(***************************************************************************)
EXTENDS Naturals, FiniteSets

CONSTANTS
  Projects, Boards, Cards, Notes,  (* ids; AUTO_INCREMENT, used once        *)
  Tags,
  None,                            (* NULL                                  *)
  Unborn, Gone                     (* not inserted yet; deleted             *)

Rows == Projects \cup Boards \cup Cards \cup Notes

Row == [project : Projects \cup {None}, board : Boards \cup {None},
        card : Cards \cup {None}, archived : BOOLEAN]

ASSUME RowsAssumption ==
  /\ None \notin Rows
  /\ Projects \cap (Boards \cup Cards \cup Notes) = {}
  /\ Boards \cap (Cards \cup Notes) = {}
  /\ Cards \cap Notes = {}
  /\ Unborn # Gone /\ {Unborn, Gone} \cap Row = {}

VARIABLES
  row,    (* row[r]: Unborn, Gone or the row's foreign keys and is_archived *)
  tags    (* tags[n]: the note_tags rows of note n                          *)

vars == << row, tags >>

Kinds == {"project", "board", "card"}
Unlinked == [project |-> None, board |-> None, card |-> None, archived |-> FALSE]

Live(store, r) == r \in Rows /\ store[r] \notin {Unborn, Gone}

-----------------------------------------------------------------------------
(* What DELETE does to the rows that refer to the deleted ones. *)

(* Mutant: only the direct references cascade. *)
CascadeOnce(store, deleted) ==
  deleted \cup {r \in Cards \cup Notes :
                  Live(store, r) /\ \E kind \in Kinds : store[r][kind] \in deleted}

(* ON DELETE CASCADE from boards to cards, and from all to notes. *)
Cascade(store, deleted) ==
  LET cards == {k \in Cards : Live(store, k) /\ store[k].board \in deleted}
      notes == {n \in Notes : /\ Live(store, n)
                              /\ \E kind \in Kinds : store[n][kind] \in deleted \cup cards}
  IN deleted \cup cards \cup notes

(* The boards whose project_id ON DELETE SET NULL clears. *)
Detached(store, deleted) ==
  {b \in Boards \ deleted : Live(store, b) /\ store[b].project \in deleted}

Removed(store, deleted) ==
  [r \in Rows |->
     IF r \in Cascade(store, deleted) THEN Gone
     ELSE IF r \in Detached(store, deleted) THEN [store[r] EXCEPT !.project = None]
     ELSE store[r]]

(* Mutant: note_tags without its ON DELETE CASCADE. *)
TagsKept(tagsOf, gone) == tagsOf

TagsRemoved(tagsOf, gone) == [n \in Notes |-> IF n \in gone THEN {} ELSE tagsOf[n]]

BoardsIn(store, p) == {b \in Boards : Live(store, b) /\ store[b].project = p}

-----------------------------------------------------------------------------
(* The row a PATCH writes.  A key of the body replaces a foreign key (null  *)
(* detaches), an absent one leaves it; None stands for an absent is_archived *)
(* or tag_ids.                                                              *)
Patched(old, links, archived) ==
  [f \in DOMAIN old |-> IF f \in DOMAIN links THEN links[f]
                        ELSE IF f = "archived" /\ archived # None THEN archived
                        ELSE old[f]]

(* Mutant: only the links of the body are counted. *)
SingleLinkOfBody(old, links) ==
  Cardinality({kind \in DOMAIN links : links[kind] # None}) <= 1

(* The merged link set, stored row plus body. *)
SingleLink(old, links) ==
  Cardinality({kind \in Kinds : Patched(old, links, None)[kind] # None}) <= 1

(* Every row the body links to is there. *)
TargetsLive(store, links) == \A kind \in DOMAIN links : links[kind] = None \/ Live(store, links[kind])

-----------------------------------------------------------------------------
Init ==
  /\ row = [r \in Rows |-> Unborn]
  /\ tags = [n \in Notes |-> {}]

(* A new row and its links, all to rows that are there; never archived. *)
Insert(r, links) ==
  /\ row[r] = Unborn
  /\ TargetsLive(row, links)
  /\ row' = [row EXCEPT ![r] = Patched(Unlinked, links, None)]

CreateProject(p) == Insert(p, << >>) /\ UNCHANGED tags

CreateBoard(b, links) == Insert(b, links) /\ UNCHANGED tags

CreateCard(k, links) == Insert(k, links) /\ UNCHANGED tags

CreateNote(n, links, new) ==
  /\ SingleLink(Unlinked, links)
  /\ Insert(n, links)
  /\ tags' = [tags EXCEPT ![n] = new]

(* PATCH /cards/{id} with a column of the user, on whichever board it is.   *)
MoveCard(k, links) ==
  /\ Live(row, k)
  /\ TargetsLive(row, links)
  /\ row' = [row EXCEPT ![k] = Patched(@, links, None)]
  /\ UNCHANGED tags

(* PATCH /boards/{id}: archive, restore, move to a project or out of it. *)
PatchBoard(b, links, archived) ==
  /\ Live(row, b)
  /\ TargetsLive(row, links)
  /\ row' = [row EXCEPT ![b] = Patched(@, links, archived)]
  /\ UNCHANGED tags

(* PATCH /notes/{id}: relink, and replace the tags when the body has any.   *)
PatchNote(n, links, replacement) ==
  /\ Live(row, n)
  /\ SingleLink(row[n], links)
  /\ TargetsLive(row, links)
  /\ row' = [row EXCEPT ![n] = Patched(@, links, None)]
  /\ tags' = IF replacement = None THEN tags ELSE [tags EXCEPT ![n] = replacement]

Erase(r) ==
  /\ Live(row, r)
  /\ row' = Removed(row, {r})
  /\ tags' = TagsRemoved(tags, Cascade(row, {r}))

(* An active board is a 409. *)
DeleteBoard(b) == Live(row, b) /\ row[b].archived /\ Erase(b)

DeleteCard(k) == Erase(k)

DeleteNote(n) == Erase(n)

(* Mutant: the project alone, as the foreign key alone would have it. *)
DeleteProjectRow(p) == Erase(p)

(* DELETE /projects/{id}: its boards, archived or not, then the project. *)
DeleteProject(p) ==
  /\ Live(row, p)
  /\ LET boards == BoardsIn(row, p)
         left == Removed(row, boards)
     IN /\ row' = Removed(left, {p})
        /\ tags' = TagsRemoved(tags, Cascade(row, boards) \cup Cascade(left, {p}))

(* The keys a body may carry: any for a note, project_id for a board; a     *)
(* card is created in a board and moved to one.                             *)
Target == [project |-> Projects, board |-> Boards, card |-> Cards]

Bodies(kinds) ==
  {f \in [kinds -> Rows \cup {None}] : \A kind \in kinds : f[kind] \in Target[kind] \cup {None}}

BoardBodies == UNION {Bodies(kinds) : kinds \in SUBSET {"project"}}
NoteBodies == UNION {Bodies(kinds) : kinds \in SUBSET Kinds}
CardBodies == {f \in Bodies({"board"}) : f["board"] # None}

Next ==
  \/ \E p \in Projects : CreateProject(p) \/ DeleteProject(p)
  \/ \E b \in Boards, links \in BoardBodies :
       \/ CreateBoard(b, links)
       \/ \E archived \in BOOLEAN \cup {None} : PatchBoard(b, links, archived)
  \/ \E k \in Cards, links \in CardBodies : CreateCard(k, links) \/ MoveCard(k, links)
  \/ \E n \in Notes, links \in NoteBodies :
       \/ \E new \in SUBSET Tags : CreateNote(n, links, new)
       \/ \E new \in (SUBSET Tags) \cup {None} : PatchNote(n, links, new)
  \/ \E b \in Boards : DeleteBoard(b)
  \/ \E k \in Cards : DeleteCard(k)
  \/ \E n \in Notes : DeleteNote(n)

Spec == Init /\ [][Next]_vars

-----------------------------------------------------------------------------
(* Rows keep their shape, and a note that is not there has no tags. *)
TypeOK ==
  /\ row \in [Rows -> Row \cup {Unborn, Gone}]
  /\ tags \in [Notes -> SUBSET Tags]
  /\ \A n \in Notes : ~Live(row, n) => tags[n] = {}

(* A note is linked to at most one row ("At most one FK may be set",        *)
(* notes/store.rs), through any chain of creates, relinks and cascades.     *)
OneLink ==
  \A n \in Notes : Live(row, n) => Cardinality({kind \in Kinds : row[n][kind] # None}) <= 1

(* A link leads to a row that is there: deleting a board, a project or a    *)
(* card takes along everything that would dangle, two levels down too.      *)
LinksLive ==
  \A r \in Rows : Live(row, r) => TargetsLive(row, [kind \in Kinds |-> row[r][kind]])

(* A project takes its boards with it: the SET NULL of boards.project_id    *)
(* never turns a board of a deleted project into a board without one        *)
(* (delete_project_boards).                                                 *)
BoardsGoWithProject ==
  [][\A b \in Boards, p \in Projects :
       Live(row, b) /\ row[b].project = p /\ ~Live(row', p) => ~Live(row', b)]_vars
=============================================================================
