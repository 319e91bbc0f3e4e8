------------------------ MODULE NestWorkspaceProofs ------------------------
(***************************************************************************)
(* One owner for what belongs together, notes that open for whom they are  *)
(* listed, and label names that clash only by a race: for any users, ids,  *)
(* rows at the start, and any number of requests at a time.                *)
(*                                                                         *)
(* Rows come and go between a handler's checks and its save, and a save    *)
(* may bring one back, so no statement about the rows that are there is    *)
(* inductive.  What lasts is whose an id is: there is a set of claims      *)
(* << table, id, user >>, at most one user to an id, that every row and    *)
(* every write still to be done agrees with (Agree).  The claims only      *)
(* grow, by the ids given out.  A note that an update was to link to       *)
(* something not its caller's is claimed by nobody (Stray), and need not   *)
(* agree with anything.                                                    *)
(***************************************************************************)
EXTENDS NestWorkspace, FiniteSetTheorems, TLAPS

OwnedTables == {"projects", "boards", "columns", "cards", "labels", "tags"}

(* What a row of u's refers to is u's. *)
Refers(own, u, t, row) ==
  /\ t \in {"projects", "boards", "labels", "tags", "notes"} => row.user = u
  /\ t = "boards" =>
       /\ DOMAIN row = {"user", "project", "archived"}
       /\ row.project # None => << "projects", row.project, u >> \in own
  /\ t = "columns" => << "boards", row.board, u >> \in own
  /\ t = "cards" => << "columns", row.column, u >> \in own
  /\ t = "cardLabels" =>
       << "cards", row.card, u >> \in own /\ << "labels", row.label, u >> \in own
  /\ t = "notes" =>
       /\ DOMAIN row = {"board", "project", "card", "user", "tags"}
       /\ row.board # None => << "boards", row.board, u >> \in own
       /\ row.project # None => << "projects", row.project, u >> \in own
       /\ row.card # None => << "cards", row.card, u >> \in own
       /\ \A tag \in row.tags : << "tags", tag, u >> \in own

Stray(own, n) == << "strayed", n, None >> \in own

NoteFields == {"board", "project", "card", "user", "tags"}

RowAgrees(own, t, i, row) ==
  \/ \E u : (t \in OwnedTables => << t, i, u >> \in own) /\ Refers(own, u, t, row)
  \/ t = "notes" /\ Stray(own, i) /\ DOMAIN row = NoteFields

RowsAgree(own, d) ==
  /\ DOMAIN d = Tables
  /\ \A t \in Tables : \A i \in DOMAIN d[t] : RowAgrees(own, t, i, d[t][i])

WriteAgrees(own, u, w) ==
  /\ w = [op |-> w.op, table |-> w.table, id |-> w.id, row |-> w.row]
  /\ w.table \in Tables /\ w.op \in {"save", "insert", "update", "remove"}
  /\ \/ w.op = "remove" \/ Refers(own, u, w.table, w.row)
     \/ w.table = "notes" /\ w.op = "save" /\ Stray(own, w.id) /\ DOMAIN w.row = NoteFields
  /\ w.op # "insert" /\ w.table \in OwnedTables => << w.table, w.id, u >> \in own
  /\ w.table = "columns" => w.op = "insert" /\ DOMAIN w.row = {"board"}
  /\ w.op = "update" => /\ w.table \in {"cards", "checklists", "items", "tags"}
                        /\ w.table = "cards" => "column" \in DOMAIN w.row
                        /\ w.table = "tags" => "user" \in DOMAIN w.row

(* A board is inserted before its columns, which do not know its id yet. *)
WritesAgree(own, u, writes) ==
  /\ writes = [n \in 1 .. Len(writes) |-> writes[n]] /\ Len(writes) \in Nat \ {0}
  /\ \A n \in 1 .. Len(writes) :
       \/ WriteAgrees(own, u, writes[n])
       \/ /\ n > 1 /\ writes[1].table = "boards" /\ writes[1].op = "insert"
          /\ writes[n] = Insert("columns", [board |-> None])

RequestAgrees(own, q) ==
  \/ q = Idle
  \/ /\ q = [at |-> q.at, user |-> q.user, writes |-> q.writes, names |-> q.names]
     /\ q.at \in {"seed", "write"}
     /\ q.at = "write" => WritesAgree(own, q.user, q.writes)

Claims(own) ==
  /\ \A t, i, u, v : << t, i, u >> \in own /\ << t, i, v >> \in own => u = v
  /\ \A t, i, u : << t, i, u >> \in own =>
       \/ t \in Tables /\ i \in used[t] /\ i # None
       \/ t = "strayed" /\ i \in strayed /\ u = None

Agree(own) ==
  /\ Claims(own) /\ DOMAIN used = Tables
  /\ RowsAgree(own, db) /\ Cascaded(db) = db
  /\ DOMAIN req = Requests /\ \A r \in Requests : RequestAgrees(own, req[r])

(* A label about to be written has the name of no other label, in the      *)
(* table or about to be written, and is written by a name request.         *)
LabelWrite(w) == w.table = "labels" /\ w.op # "remove"

NamesFit(d, names, writes) ==
  \A n \in 1 .. Len(writes) : LabelWrite(writes[n]) =>
    /\ names
    /\ \A l \in DOMAIN d.labels : d.labels[l] = writes[n].row
                                    => writes[n].op # "insert" /\ l = writes[n].id
    /\ \A k \in 1 .. Len(writes) : LabelWrite(writes[k]) /\ k # n => writes[k].row # writes[n].row

NamesGuarded ==
  \/ raced
  \/ /\ NamesApart(db)
     /\ \A r, o \in Requests : NameRequest(req[r]) /\ NameRequest(req[o]) => r = o
     /\ \A r \in Requests : req[r].at = "seed" => req[r].names
     /\ \A r \in Requests : req[r].at = "write" => NamesFit(db, req[r].names, req[r].writes)

IInv == (\E own : Agree(own)) /\ NamesGuarded

-----------------------------------------------------------------------------
(* What the foreign keys leave. *)

LEMMA CascadedTables ==
  ASSUME NEW d, DOMAIN d = Tables
  PROVE  LET e == Cascaded(d) IN
         /\ DOMAIN e = Tables
         /\ \A t \in {"users", "projects", "labels", "tags"} : e[t] = d[t]
         /\ DOMAIN e.boards = DOMAIN d.boards
         /\ \A b \in DOMAIN d.boards :
              e.boards[b] = [d.boards[b] EXCEPT !.project =
                               IF LinkLive(d.boards[b].project, d.projects)
                               THEN d.boards[b].project ELSE None]
         /\ DOMAIN e.columns = {c \in DOMAIN d.columns : d.columns[c].board \in DOMAIN d.boards}
         /\ DOMAIN e.cards = {k \in DOMAIN d.cards : d.cards[k].column \in DOMAIN e.columns}
         /\ DOMAIN e.cardLabels = {x \in DOMAIN d.cardLabels :
                                     /\ d.cardLabels[x].card \in DOMAIN e.cards
                                     /\ d.cardLabels[x].label \in DOMAIN d.labels}
         /\ DOMAIN e.checklists \subseteq DOMAIN d.checklists
         /\ DOMAIN e.items \subseteq DOMAIN d.items
         /\ \A t \in {"columns", "cards", "cardLabels", "checklists", "items"} :
              \A i \in DOMAIN e[t] : e[t][i] = d[t][i]
         /\ DOMAIN e.notes = {n \in DOMAIN d.notes : /\ LinkLive(d.notes[n].board, d.boards)
                                                     /\ LinkLive(d.notes[n].project, d.projects)
                                                     /\ LinkLive(d.notes[n].card, e.cards)}
         /\ \A n \in DOMAIN e.notes :
              e.notes[n] = [d.notes[n] EXCEPT !.tags = d.notes[n].tags \cap DOMAIN d.tags]
<1> DEFINE e1 == BoardsLeft(d)
           e2 == CardsLeft(e1)
           e3 == LabelsLeft(e2)
           e4 == ListsLeft(e3)
           e5 == NotesLeft(e4)
<1>0. Cascaded(d) = e5
  BY DEF Cascaded
<1>1. /\ DOMAIN e1 = Tables
      /\ \A t \in Tables \ {"boards", "columns"} : e1[t] = d[t]
      /\ e1.boards = [b \in DOMAIN d.boards |->
                        [d.boards[b] EXCEPT !.project =
                           IF LinkLive(d.boards[b].project, d.projects)
                           THEN d.boards[b].project ELSE None]]
      /\ DOMAIN e1.columns = {c \in DOMAIN d.columns : d.columns[c].board \in DOMAIN d.boards}
      /\ \A i \in DOMAIN e1.columns : e1.columns[i] = d.columns[i]
  <2> DEFINE columns == [c \in {j \in DOMAIN d.columns : d.columns[j].board \in DOMAIN d.boards}
                          |-> d.columns[c]]
             boards == [b \in DOMAIN d.boards |->
                          [d.boards[b] EXCEPT !.project =
                             IF LinkLive(d.boards[b].project, d.projects)
                             THEN d.boards[b].project ELSE None]]
  <2>1. e1 = [d EXCEPT !.boards = boards, !.columns = columns]
    BY DEF BoardsLeft, Only
  <2>2. /\ DOMAIN columns = {c \in DOMAIN d.columns : d.columns[c].board \in DOMAIN d.boards}
        /\ \A c \in DOMAIN columns : columns[c] = d.columns[c]
    OBVIOUS
  <2> HIDE DEF columns, e1
  <2>3. /\ DOMAIN e1 = Tables /\ e1.boards = boards /\ e1.columns = columns
        /\ \A t \in Tables \ {"boards", "columns"} : e1[t] = d[t]
    <3> HIDE DEF boards
    <3> QED
      BY <2>1 DEF Tables
  <2> QED
    BY <2>2, <2>3
<1> HIDE DEF e1
<1>2. /\ DOMAIN e2 = Tables
      /\ \A t \in Tables \ {"cards"} : e2[t] = e1[t]
      /\ DOMAIN e2.cards = {k \in DOMAIN e1.cards : e1.cards[k].column \in DOMAIN e1.columns}
      /\ \A i \in DOMAIN e2.cards : e2.cards[i] = e1.cards[i]
  <2>1. e2 = [e1 EXCEPT !.cards =
                [i \in {j \in DOMAIN e1.cards : e1.cards[j].column \in DOMAIN e1.columns}
                   |-> e1.cards[i]]]
    BY DEF CardsLeft, Only
  <2> HIDE DEF e2
  <2> QED
    BY <1>1, <2>1 DEF Tables
<1> HIDE DEF e2
<1>3. /\ DOMAIN e3 = Tables
      /\ \A t \in Tables \ {"cardLabels"} : e3[t] = e2[t]
      /\ DOMAIN e3.cardLabels = {x \in DOMAIN e2.cardLabels :
                                   /\ e2.cardLabels[x].card \in DOMAIN e2.cards
                                   /\ e2.cardLabels[x].label \in DOMAIN e2.labels}
      /\ \A i \in DOMAIN e3.cardLabels : e3.cardLabels[i] = e2.cardLabels[i]
  BY <1>2 DEF LabelsLeft, Only, Tables
<1> HIDE DEF e3
<1>4. /\ DOMAIN e4 = Tables
      /\ \A t \in Tables \ {"checklists", "items"} : e4[t] = e3[t]
      /\ DOMAIN e4.checklists \subseteq DOMAIN e3.checklists
      /\ DOMAIN e4.items \subseteq DOMAIN e3.items
      /\ \A i \in DOMAIN e4.checklists : e4.checklists[i] = e3.checklists[i]
      /\ \A i \in DOMAIN e4.items : e4.items[i] = e3.items[i]
  BY <1>3 DEF ListsLeft, Only, Tables
<1> HIDE DEF e4
<1>5. /\ DOMAIN e5 = Tables
      /\ \A t \in Tables \ {"notes"} : e5[t] = e4[t]
      /\ DOMAIN e5.notes = {n \in DOMAIN e4.notes : /\ LinkLive(e4.notes[n].board, e4.boards)
                                                    /\ LinkLive(e4.notes[n].project, e4.projects)
                                                    /\ LinkLive(e4.notes[n].card, e4.cards)}
      /\ \A n \in DOMAIN e5.notes :
           e5.notes[n] = [e4.notes[n] EXCEPT !.tags = e4.notes[n].tags \cap DOMAIN e4.tags]
  BY <1>4 DEF NotesLeft, Only, Tables
<1> HIDE DEF e5
<1>6. /\ e5.users = d.users /\ e5.projects = d.projects /\ e5.labels = d.labels
      /\ e5.tags = d.tags /\ e5.boards = e1.boards /\ e5.columns = e1.columns
      /\ e5.cards = e2.cards /\ e1.cards = d.cards
      /\ e5.cardLabels = e3.cardLabels /\ e2.cardLabels = d.cardLabels
      /\ e2.labels = d.labels /\ e2.cards = e4.cards
      /\ e5.checklists = e4.checklists /\ e3.checklists = d.checklists
      /\ e5.items = e4.items /\ e3.items = d.items
      /\ e4.notes = d.notes /\ e4.boards = e1.boards /\ e4.projects = d.projects
      /\ e4.tags = d.tags
  BY <1>1, <1>2, <1>3, <1>4, <1>5 DEF Tables
<1>7. DOMAIN e5.notes = {n \in DOMAIN d.notes : /\ LinkLive(d.notes[n].board, d.boards)
                                                /\ LinkLive(d.notes[n].project, d.projects)
                                                /\ LinkLive(d.notes[n].card, e5.cards)}
  BY <1>1, <1>5, <1>6 DEF LinkLive
<1> DEFINE e == Cascaded(d)
<1>8. e = e5
  BY <1>0
<1> HIDE DEF e
<1>9. /\ DOMAIN e = Tables
      /\ \A t \in {"users", "projects", "labels", "tags"} : e[t] = d[t]
      /\ DOMAIN e.boards = DOMAIN d.boards
      /\ \A b \in DOMAIN d.boards :
           e.boards[b] = [d.boards[b] EXCEPT !.project =
                            IF LinkLive(d.boards[b].project, d.projects)
                            THEN d.boards[b].project ELSE None]
  BY <1>1, <1>5, <1>6, <1>8
<1>10. /\ DOMAIN e.columns = {c \in DOMAIN d.columns : d.columns[c].board \in DOMAIN d.boards}
       /\ DOMAIN e.cards = {k \in DOMAIN d.cards : d.cards[k].column \in DOMAIN e.columns}
       /\ DOMAIN e.cardLabels = {x \in DOMAIN d.cardLabels :
                                   /\ d.cardLabels[x].card \in DOMAIN e.cards
                                   /\ d.cardLabels[x].label \in DOMAIN d.labels}
  BY <1>1, <1>2, <1>3, <1>6, <1>8
<1>11. /\ DOMAIN e.checklists \subseteq DOMAIN d.checklists
       /\ DOMAIN e.items \subseteq DOMAIN d.items
       /\ \A t \in {"columns", "cards", "cardLabels", "checklists", "items"} :
            \A i \in DOMAIN e[t] : e[t][i] = d[t][i]
  <2>1. /\ \A i \in DOMAIN e.columns : e.columns[i] = d.columns[i]
        /\ \A i \in DOMAIN e.cards : e.cards[i] = d.cards[i]
    BY <1>1, <1>2, <1>6, <1>8
  <2>2. \A i \in DOMAIN e.cardLabels : e.cardLabels[i] = d.cardLabels[i]
    BY <1>3, <1>6, <1>8
  <2>3. /\ \A i \in DOMAIN e.checklists : e.checklists[i] = d.checklists[i]
        /\ \A i \in DOMAIN e.items : e.items[i] = d.items[i]
    BY <1>4, <1>6, <1>8
  <2> QED
    BY <1>4, <1>6, <1>8, <2>1, <2>2, <2>3
<1>12. /\ DOMAIN e.notes = {n \in DOMAIN d.notes : /\ LinkLive(d.notes[n].board, d.boards)
                                                    /\ LinkLive(d.notes[n].project, d.projects)
                                                    /\ LinkLive(d.notes[n].card, e.cards)}
       /\ \A n \in DOMAIN e.notes :
            e.notes[n] = [d.notes[n] EXCEPT !.tags = d.notes[n].tags \cap DOMAIN d.tags]
  BY <1>5, <1>6, <1>7, <1>8
<1> QED
  BY <1>9, <1>10, <1>11, <1>12 DEF e

(* What the rows of each table agree with. *)
RowsFit(own, d) ==
  /\ \A t \in {"projects", "labels", "tags"} : \A i \in DOMAIN d[t] :
       << t, i, d[t][i].user >> \in own
  /\ \A b \in DOMAIN d.boards : /\ << "boards", b, d.boards[b].user >> \in own
                               /\ Refers(own, d.boards[b].user, "boards", d.boards[b])
  /\ \A c \in DOMAIN d.columns : \E u : /\ << "columns", c, u >> \in own
                                      /\ << "boards", d.columns[c].board, u >> \in own
  /\ \A k \in DOMAIN d.cards : \E u : /\ << "cards", k, u >> \in own
                                    /\ << "columns", d.cards[k].column, u >> \in own
  /\ \A x \in DOMAIN d.cardLabels :
       \E u : /\ << "cards", d.cardLabels[x].card, u >> \in own
              /\ << "labels", d.cardLabels[x].label, u >> \in own
  /\ \A n \in DOMAIN d.notes :
       /\ DOMAIN d.notes[n] = NoteFields
       /\ Stray(own, n) \/ Refers(own, d.notes[n].user, "notes", d.notes[n])

LEMMA RowFacts ==
  ASSUME NEW own, NEW d, RowsAgree(own, d)
  PROVE  RowsFit(own, d)
<1>1. \A t \in Tables : \A i \in DOMAIN d[t] : RowAgrees(own, t, i, d[t][i])
  BY DEF RowsAgree
<1>2. \A t \in {"projects", "labels", "tags"} : \A i \in DOMAIN d[t] :
        << t, i, d[t][i].user >> \in own
  BY <1>1 DEF RowAgrees, Refers, OwnedTables, Tables
<1>3. ASSUME NEW b \in DOMAIN d.boards
      PROVE  /\ << "boards", b, d.boards[b].user >> \in own
             /\ Refers(own, d.boards[b].user, "boards", d.boards[b])
  <2>1. PICK u : << "boards", b, u >> \in own /\ Refers(own, u, "boards", d.boards[b])
    BY <1>1 DEF RowAgrees, OwnedTables, Tables
  <2>2. d.boards[b].user = u
    BY <2>1 DEF Refers
  <2> QED
    BY <2>1, <2>2
<1>4. ASSUME NEW c \in DOMAIN d.columns
      PROVE  \E u : << "columns", c, u >> \in own /\ << "boards", d.columns[c].board, u >> \in own
  <2>1. RowAgrees(own, "columns", c, d.columns[c])
    BY <1>1 DEF Tables
  <2> QED
    BY <2>1 DEF RowAgrees, Refers, OwnedTables
<1>5. ASSUME NEW k \in DOMAIN d.cards
      PROVE  \E u : << "cards", k, u >> \in own /\ << "columns", d.cards[k].column, u >> \in own
  <2>1. RowAgrees(own, "cards", k, d.cards[k])
    BY <1>1 DEF Tables
  <2> QED
    BY <2>1 DEF RowAgrees, Refers, OwnedTables
<1>6. ASSUME NEW x \in DOMAIN d.cardLabels
      PROVE  \E u : /\ << "cards", d.cardLabels[x].card, u >> \in own
                    /\ << "labels", d.cardLabels[x].label, u >> \in own
  <2>1. RowAgrees(own, "cardLabels", x, d.cardLabels[x])
    BY <1>1 DEF Tables
  <2> QED
    BY <2>1 DEF RowAgrees, Refers
<1>7. ASSUME NEW n \in DOMAIN d.notes
      PROVE  /\ DOMAIN d.notes[n] = NoteFields
             /\ Stray(own, n) \/ Refers(own, d.notes[n].user, "notes", d.notes[n])
  <2>1. RowAgrees(own, "notes", n, d.notes[n])
    BY <1>1 DEF Tables
  <2>2. CASE \E u : Refers(own, u, "notes", d.notes[n])
    <3>1. PICK u : Refers(own, u, "notes", d.notes[n])
      BY <2>2
    <3>2. d.notes[n].user = u /\ DOMAIN d.notes[n] = NoteFields
      BY <3>1 DEF Refers, NoteFields
    <3> QED
      BY <3>1, <3>2
  <2>3. CASE Stray(own, n) /\ DOMAIN d.notes[n] = NoteFields
    BY <2>3
  <2> QED
    BY <2>1, <2>2, <2>3 DEF RowAgrees
<1> QED
  BY <1>2, <1>3, <1>4, <1>5, <1>6, <1>7 DEF RowsFit

(* Nothing refers to a row that is not there. *)
Linked(d) ==
  /\ \A b \in DOMAIN d.boards : LinkLive(d.boards[b].project, d.projects)
  /\ \A c \in DOMAIN d.columns : d.columns[c].board \in DOMAIN d.boards
  /\ \A k \in DOMAIN d.cards : d.cards[k].column \in DOMAIN d.columns
  /\ \A x \in DOMAIN d.cardLabels : /\ d.cardLabels[x].card \in DOMAIN d.cards
                                   /\ d.cardLabels[x].label \in DOMAIN d.labels
  /\ \A n \in DOMAIN d.notes : /\ LinkLive(d.notes[n].board, d.boards)
                              /\ LinkLive(d.notes[n].project, d.projects)
                              /\ LinkLive(d.notes[n].card, d.cards)
                              /\ d.notes[n].tags \subseteq DOMAIN d.tags

LEMMA ClosedLinked ==
  ASSUME NEW d, DOMAIN d = Tables, Cascaded(d) = d,
         \A b \in DOMAIN d.boards : "project" \in DOMAIN d.boards[b],
         \A n \in DOMAIN d.notes : "tags" \in DOMAIN d.notes[n]
  PROVE  Linked(d)
<1>4. \A b \in DOMAIN d.boards :
        d.boards[b] = [d.boards[b] EXCEPT !.project =
                         IF LinkLive(d.boards[b].project, d.projects)
                         THEN d.boards[b].project ELSE None]
  BY CascadedTables
<1>5. \A b \in DOMAIN d.boards : LinkLive(d.boards[b].project, d.projects)
  BY <1>4 DEF LinkLive
<1>6. /\ DOMAIN d.columns = {c \in DOMAIN d.columns : d.columns[c].board \in DOMAIN d.boards}
      /\ DOMAIN d.cards = {k \in DOMAIN d.cards : d.cards[k].column \in DOMAIN d.columns}
      /\ DOMAIN d.cardLabels = {x \in DOMAIN d.cardLabels :
                                  /\ d.cardLabels[x].card \in DOMAIN d.cards
                                  /\ d.cardLabels[x].label \in DOMAIN d.labels}
      /\ DOMAIN d.notes = {n \in DOMAIN d.notes : /\ LinkLive(d.notes[n].board, d.boards)
                                                  /\ LinkLive(d.notes[n].project, d.projects)
                                                  /\ LinkLive(d.notes[n].card, d.cards)}
  BY CascadedTables
<1>7. \A n \in DOMAIN d.notes :
        d.notes[n] = [d.notes[n] EXCEPT !.tags = d.notes[n].tags \cap DOMAIN d.tags]
  BY CascadedTables
<1>8. \A n \in DOMAIN d.notes : d.notes[n].tags = d.notes[n].tags \cap DOMAIN d.tags
  BY <1>7
<1> QED
  BY <1>5, <1>6, <1>8 DEF Linked

LEMMA ClosedRows ==
  ASSUME NEW own, NEW d, RowsAgree(own, d), Cascaded(d) = d
  PROVE  Linked(d)
<1>0. RowsFit(own, d)
  BY RowFacts
<1>1. ASSUME NEW b \in DOMAIN d.boards PROVE "project" \in DOMAIN d.boards[b]
  <2>1. Refers(own, d.boards[b].user, "boards", d.boards[b])
    BY <1>0 DEF RowsFit
  <2> QED
    BY <2>1 DEF Refers
<1>2. ASSUME NEW n \in DOMAIN d.notes PROVE "tags" \in DOMAIN d.notes[n]
  BY <1>0 DEF RowsFit, NoteFields
<1>3. DOMAIN d = Tables
  BY DEF RowsAgree
<1> QED
  BY <1>1, <1>2, <1>3, ClosedLinked

LEMMA CascadeAgrees ==
  ASSUME NEW own, NEW d, RowsAgree(own, d)
  PROVE  RowsAgree(own, Cascaded(d))
<1> DEFINE e == Cascaded(d)
<1>1. DOMAIN d = Tables
  BY DEF RowsAgree
<1>2. /\ DOMAIN e = Tables
      /\ \A t \in Tables \ {"boards", "notes"} : \A i \in DOMAIN e[t] :
           i \in DOMAIN d[t] /\ e[t][i] = d[t][i]
  BY <1>1, CascadedTables DEF Tables
<1>3. \A b \in DOMAIN e.boards :
        /\ b \in DOMAIN d.boards
        /\ \E p \in {d.boards[b].project, None} :
             e.boards[b] = [d.boards[b] EXCEPT !.project = p]
  <2>1. DOMAIN e.boards = DOMAIN d.boards
    BY <1>1, CascadedTables
  <2>2. \A b \in DOMAIN d.boards :
          e.boards[b] = [d.boards[b] EXCEPT !.project =
                           IF LinkLive(d.boards[b].project, d.projects)
                           THEN d.boards[b].project ELSE None]
    BY <1>1, CascadedTables
  <2> HIDE DEF e
  <2> QED
    BY <2>1, <2>2
<1>4. \A n \in DOMAIN e.notes :
        /\ n \in DOMAIN d.notes
        /\ e.notes[n] = [d.notes[n] EXCEPT !.tags = d.notes[n].tags \cap DOMAIN d.tags]
  BY <1>1, CascadedTables
<1> HIDE DEF e
<1>5. ASSUME NEW b \in DOMAIN e.boards
      PROVE  RowAgrees(own, "boards", b, e.boards[b])
  <2>1. PICK u : /\ << "boards", b, u >> \in own
                 /\ Refers(own, u, "boards", d.boards[b])
    BY <1>3, RowFacts DEF RowsFit
  <2>2. Refers(own, u, "boards", e.boards[b])
    BY <1>3, <2>1 DEF Refers
  <2> QED
    BY <2>1, <2>2 DEF RowAgrees
<1>6. ASSUME NEW n \in DOMAIN e.notes
      PROVE  RowAgrees(own, "notes", n, e.notes[n])
  <2>0. RowsFit(own, d)
    BY RowFacts
  <2>1. n \in DOMAIN d.notes /\ DOMAIN d.notes[n] = NoteFields
    BY <1>4, <2>0 DEF RowsFit
  <2>2. CASE Stray(own, n)
    <3>1. DOMAIN e.notes[n] = NoteFields
      BY <1>4, <2>1
    <3> QED
      BY <2>2, <3>1 DEF RowAgrees
  <2>3. CASE ~Stray(own, n)
    <3>1. PICK u : Refers(own, u, "notes", d.notes[n])
      BY <2>0, <2>1, <2>3 DEF RowsFit
    <3>2. Refers(own, u, "notes", e.notes[n])
      BY <1>4, <3>1 DEF Refers
    <3> QED
      BY <3>2 DEF RowAgrees, OwnedTables
  <2> QED
    BY <2>2, <2>3
<1>7. ASSUME NEW t \in Tables \ {"boards", "notes"}, NEW i \in DOMAIN e[t]
      PROVE  RowAgrees(own, t, i, e[t][i])
  BY <1>2 DEF RowsAgree
<1> QED
  BY <1>2, <1>5, <1>6, <1>7 DEF RowsAgree, e

(* Claims only help. *)
LEMMA MoreClaims ==
  ASSUME NEW own, NEW more, own \subseteq more
  PROVE  /\ \A u, t, row : Refers(own, u, t, row) => Refers(more, u, t, row)
         /\ \A d : RowsAgree(own, d) => RowsAgree(more, d)
         /\ \A u, w : WriteAgrees(own, u, w) => WriteAgrees(more, u, w)
         /\ \A q : RequestAgrees(own, q) => RequestAgrees(more, q)
<1>1. \A u, t, row : Refers(own, u, t, row) => Refers(more, u, t, row)
  BY DEF Refers
<1>2. \A t, i, row : RowAgrees(own, t, i, row) => RowAgrees(more, t, i, row)
  BY <1>1 DEF RowAgrees, Stray
<1>3. \A u, w : WriteAgrees(own, u, w) => WriteAgrees(more, u, w)
  BY <1>1 DEF WriteAgrees, Stray
<1>4. \A u, writes : WritesAgree(own, u, writes) => WritesAgree(more, u, writes)
  BY <1>3 DEF WritesAgree
<1> QED
  BY <1>1, <1>2, <1>3, <1>4 DEF RowsAgree, RequestAgrees

(* Whose the rows are. *)
Known(own) ==
  /\ \A t, i, u, v : << t, i, u >> \in own /\ << t, i, v >> \in own => u = v
  /\ RowsFit(own, db) /\ Linked(db)
  /\ \A t \in {"projects", "boards", "labels", "tags"} : \A i \in DOMAIN db[t] :
       << t, i, db[t][i].user >> \in own
  /\ \A c \in DOMAIN db.columns : << "columns", c, db.boards[db.columns[c].board].user >> \in own
  /\ \A k \in DOMAIN db.cards : << "cards", k, db.boards[BoardOfCard(db, k)].user >> \in own

LEMMA AgreeKnown ==
  ASSUME NEW own, Agree(own)
  PROVE  Known(own)
<1>1. /\ \A t, i, u, v : << t, i, u >> \in own /\ << t, i, v >> \in own => u = v
      /\ RowsFit(own, db) /\ Linked(db)
  BY RowFacts, ClosedRows DEF Agree, Claims
<1>2. \A t \in {"projects", "boards", "labels", "tags"} : \A i \in DOMAIN db[t] :
        << t, i, db[t][i].user >> \in own
  BY <1>1 DEF RowsFit
<1>3. ASSUME NEW c \in DOMAIN db.columns
      PROVE  << "columns", c, db.boards[db.columns[c].board].user >> \in own
  <2>1. PICK u : << "columns", c, u >> \in own /\ << "boards", db.columns[c].board, u >> \in own
    BY <1>1 DEF RowsFit
  <2>2. db.columns[c].board \in DOMAIN db.boards
    BY <1>1 DEF Linked
  <2>3. u = db.boards[db.columns[c].board].user
    BY <1>1, <1>2, <2>1, <2>2
  <2> QED
    BY <2>1, <2>3
<1>4. ASSUME NEW k \in DOMAIN db.cards
      PROVE  << "cards", k, db.boards[BoardOfCard(db, k)].user >> \in own
  <2>1. PICK u : << "cards", k, u >> \in own /\ << "columns", db.cards[k].column, u >> \in own
    BY <1>1 DEF RowsFit
  <2>2. << "columns", db.cards[k].column, db.boards[BoardOfCard(db, k)].user >> \in own
    BY <1>1, <1>3 DEF Linked, BoardOfCard
  <2>3. u = db.boards[BoardOfCard(db, k)].user
    BY <1>1, <2>1, <2>2
  <2> QED
    BY <2>1, <2>3
<1> QED
  BY <1>1, <1>2, <1>3, <1>4 DEF Known

(* What a note is linked to and tagged with is there, and its user's if    *)
(* the note has not strayed.                                               *)
LEMMA NoteLinks ==
  ASSUME NEW own, Agree(own), NEW n \in DOMAIN db.notes
  PROVE  LET note == db.notes[n] IN
         /\ LinkLive(note.board, db.boards) /\ LinkLive(note.project, db.projects)
         /\ LinkLive(note.card, db.cards) /\ note.tags \subseteq DOMAIN db.tags
         /\ ~Stray(own, n) =>
              /\ Refers(own, note.user, "notes", note)
              /\ NoteOf(db, note, note.user)
<1> DEFINE note == db.notes[n]
<1>1. Known(own)
  BY AgreeKnown
<1>2. /\ LinkLive(note.board, db.boards) /\ LinkLive(note.project, db.projects)
      /\ LinkLive(note.card, db.cards) /\ note.tags \subseteq DOMAIN db.tags
  BY <1>1 DEF Known, Linked
<1>3. ASSUME ~Stray(own, n)
      PROVE  Refers(own, note.user, "notes", note) /\ NoteOf(db, note, note.user)
  <2>1. Refers(own, note.user, "notes", note)
    BY <1>1, <1>3 DEF Known, RowsFit
  <2>2. /\ note.board # None => << "boards", note.board, note.user >> \in own
        /\ note.project # None => << "projects", note.project, note.user >> \in own
        /\ note.card # None => << "cards", note.card, note.user >> \in own
        /\ \A t \in note.tags : << "tags", t, note.user >> \in own
    BY <2>1 DEF Refers
  <2>3. /\ note.board \in DOMAIN db.boards =>
             << "boards", note.board, db.boards[note.board].user >> \in own
        /\ note.project \in DOMAIN db.projects =>
             << "projects", note.project, db.projects[note.project].user >> \in own
        /\ note.card \in DOMAIN db.cards =>
             << "cards", note.card, db.boards[BoardOfCard(db, note.card)].user >> \in own
        /\ \A t \in note.tags : << "tags", t, db.tags[t].user >> \in own
    BY <1>1, <1>2 DEF Known
  <2>4. \A t, i, u, v : << t, i, u >> \in own /\ << t, i, v >> \in own => u = v
    BY <1>1 DEF Known
  <2>5. None \notin DOMAIN db.boards /\ None \notin DOMAIN db.projects /\ None \notin DOMAIN db.cards
    <3>1. /\ \A t \in {"boards", "projects"} : \A i \in DOMAIN db[t] : << t, i, db[t][i].user >> \in own
          /\ \A k \in DOMAIN db.cards : << "cards", k, db.boards[BoardOfCard(db, k)].user >> \in own
      BY <1>1 DEF Known
    <3>2. \A t, i, u : << t, i, u >> \in own => i # None \/ t = "strayed"
      BY DEF Agree, Claims
    <3> QED
      BY <3>1, <3>2
  <2>7. /\ note.board \in DOMAIN db.boards => db.boards[note.board].user = note.user
        /\ note.project \in DOMAIN db.projects => db.projects[note.project].user = note.user
    BY <2>2, <2>3, <2>4, <2>5
  <2>8. note.card \in DOMAIN db.cards => db.boards[BoardOfCard(db, note.card)].user = note.user
    BY <2>2, <2>3, <2>4, <2>5
  <2>9. \A t \in note.tags : db.tags[t].user = note.user
    BY <2>2, <2>3, <2>4
  <2>6. NoteOf(db, note, note.user)
    BY <2>7, <2>8, <2>9 DEF NoteOf
  <2> QED
    BY <2>1, <2>6
<1> QED
  BY <1>2, <1>3

(* Properties of the rows, from claims that agree. *)
LEMMA AgreeSafe ==
  ASSUME NEW own, Agree(own)
  PROVE  OneOwner /\ \A n \in DOMAIN db.notes \ strayed : MayOpen(db, n, db.notes[n].user)
<1>1. Known(own)
  BY AgreeKnown
<1>2. \A t, i, u, v : << t, i, u >> \in own /\ << t, i, v >> \in own => u = v
  BY <1>1 DEF Known
<1>3. ASSUME NEW x \in DOMAIN db.cardLabels
      PROVE  db.boards[BoardOfCard(db, db.cardLabels[x].card)].user
               = db.labels[db.cardLabels[x].label].user
  <2>1. PICK u : /\ << "cards", db.cardLabels[x].card, u >> \in own
                 /\ << "labels", db.cardLabels[x].label, u >> \in own
    BY <1>1 DEF Known, RowsFit
  <2>2. /\ db.cardLabels[x].card \in DOMAIN db.cards
        /\ db.cardLabels[x].label \in DOMAIN db.labels
    BY <1>1 DEF Known, Linked
  <2>3. /\ << "cards", db.cardLabels[x].card,
              db.boards[BoardOfCard(db, db.cardLabels[x].card)].user >> \in own
        /\ << "labels", db.cardLabels[x].label, db.labels[db.cardLabels[x].label].user >> \in own
    BY <1>1, <2>2 DEF Known
  <2> QED
    BY <1>2, <2>1, <2>3
<1>8. \A n : Stray(own, n) => n \in strayed
  BY DEF Agree, Claims, Stray, Tables
<1>4. ASSUME NEW n \in DOMAIN db.notes \ strayed
      PROVE  NoteOf(db, db.notes[n], db.notes[n].user) /\ MayOpen(db, n, db.notes[n].user)
  <2> DEFINE note == db.notes[n]
  <2>1. /\ LinkLive(note.board, db.boards) /\ LinkLive(note.project, db.projects)
        /\ LinkLive(note.card, db.cards) /\ NoteOf(db, note, note.user)
    BY <1>4, <1>8, NoteLinks
  <2> QED
    BY <2>1 DEF NoteOf, MayOpen, LinkLive
<1>5. ASSUME NEW b \in DOMAIN db.boards, db.boards[b].project # None
      PROVE  db.projects[db.boards[b].project].user = db.boards[b].user
  <2>1. db.boards[b].project \in DOMAIN db.projects
    BY <1>1, <1>5 DEF Known, Linked, LinkLive
  <2>2. Refers(own, db.boards[b].user, "boards", db.boards[b])
    BY <1>1 DEF Known, RowsFit
  <2>3. << "projects", db.boards[b].project, db.boards[b].user >> \in own
    BY <1>5, <2>2 DEF Refers
  <2>4. << "projects", db.boards[b].project, db.projects[db.boards[b].project].user >> \in own
    BY <1>1, <2>1 DEF Known
  <2> QED
    BY <1>2, <2>3, <2>4
<1>6. OneOwner
  BY <1>3, <1>4, <1>5 DEF OneOwner, OneOwnerIn
<1> QED
  BY <1>4, <1>6

(* What a handler has found to be u's, is. *)
Owns(own, u) ==
  /\ \A t \in {"projects", "boards", "labels", "tags"} : \A i \in Owned(t, u) :
       << t, i, u >> \in own /\ db[t][i].user = u
  /\ \A c \in OwnColumns(u) : << "columns", c, u >> \in own
  /\ \A k \in OwnCards(u) : << "cards", k, u >> \in own
  /\ \A n \in DOMAIN db.notes :
       MayOpen(db, n, u) => Stray(own, n) \/ db.notes[n].user = u

LEMMA AgreeOwns ==
  ASSUME NEW own, Agree(own), NEW u
  PROVE  Owns(own, u)
<1>1. Known(own)
  BY AgreeKnown
<1>2. ASSUME NEW n \in DOMAIN db.notes, MayOpen(db, n, u), ~Stray(own, n)
      PROVE  db.notes[n].user = u
  BY <1>2, NoteLinks DEF MayOpen, NoteOf
<1>3. \A t \in {"projects", "boards", "labels", "tags"} : \A i \in Owned(t, u) :
        << t, i, u >> \in own /\ db[t][i].user = u
  BY <1>1 DEF Known, Owned
<1>4. \A c \in OwnColumns(u) : << "columns", c, u >> \in own
  BY <1>1 DEF Known, OwnColumns
<1>5. \A k \in OwnCards(u) : << "cards", k, u >> \in own
  BY <1>1 DEF Known, OwnCards
<1> QED
  BY <1>2, <1>3, <1>4, <1>5 DEF Owns

-----------------------------------------------------------------------------
(* Sequences given by their elements. *)

LEMMA LenOf ==
  ASSUME NEW k \in Nat, NEW s, s = [n \in 1 .. k |-> s[n]]
  PROVE  Len(s) = k /\ (k = 0 => s = << >>) /\ (k > 0 => Head(s) = s[1])
<1>1. s \in Seq({s[n] : n \in 1 .. k})
  OBVIOUS
<1> QED
  BY <1>1

(* The board a column is inserted for gets its id. *)
LEMMA ColumnOf ==
  ASSUME NEW own, NEW u, NEW b, << "boards", b, u >> \in own, NEW v, v.table = "columns",
         WriteAgrees(own, u, v) \/ v = Insert("columns", [board |-> None]),
         NEW x, x = [v EXCEPT !.row.board = b]
  PROVE  WriteAgrees(own, u, x)
<1>1. v = [op |-> v.op, table |-> v.table, id |-> v.id, row |-> v.row]
  BY DEF WriteAgrees, Insert
<1>2. /\ x.op = v.op /\ x.table = v.table /\ x.id = v.id /\ x.row = [v.row EXCEPT !.board = b]
      /\ x = [op |-> x.op, table |-> x.table, id |-> x.id, row |-> x.row]
  BY <1>1
<1>3. v.op = "insert" /\ DOMAIN v.row = {"board"}
  BY DEF WriteAgrees, Insert
<1>4. DOMAIN x.row = {"board"} /\ x.row.board = b
  BY <1>2, <1>3
<1>5. Refers(own, u, "columns", x.row)
  BY <1>4 DEF Refers
<1> QED
  BY <1>2, <1>3, <1>4, <1>5 DEF WriteAgrees, Tables

(* A statement leaves rows that agree. *)
LEMMA WroteAgrees ==
  ASSUME NEW own, RowsAgree(own, db), NEW u, NEW w, WriteAgrees(own, u, w), NEW i,
         w.op # "insert" => i = w.id,
         w.table \in OwnedTables => << w.table, i, u >> \in own
  PROVE  RowsAgree(own, Wrote(db, w, i))
<1>1. w.table \in Tables /\ w.op \in {"save", "insert", "update", "remove"}
  BY DEF WriteAgrees
<1>2. CASE w.op = "remove"
  <2>1. RowsAgree(own, [db EXCEPT ![w.table] = Without(db[w.table], i)])
    BY <1>1 DEF RowsAgree, Without
  <2> QED
    BY <1>2, <2>1, CascadeAgrees DEF Wrote
<1>3. CASE w.op = "update"
  <2>1. Wrote(db, w, i) = [db EXCEPT ![w.table] =
                             IF i \in DOMAIN db[w.table]
                             THEN Put(db[w.table], i, Patched(db[w.table][i], w.row))
                             ELSE db[w.table]]
    BY <1>3 DEF Wrote
  <2>2. CASE i \in DOMAIN db[w.table]
    <3> DEFINE row == Patched(db[w.table][i], w.row)
    <3>1. /\ w.table \in {"cards", "checklists", "items", "tags"}
          /\ w.table = "cards" => "column" \in DOMAIN w.row
          /\ w.table = "tags" => "user" \in DOMAIN w.row
          /\ Refers(own, u, w.table, w.row)
      BY <1>3 DEF WriteAgrees
    <3>2. \A f \in DOMAIN w.row : row[f] = w.row[f]
      BY DEF Patched
    <3> HIDE DEF row
    <3>4. ASSUME w.table = "cards" PROVE Refers(own, u, "cards", row)
      BY <3>1, <3>2, <3>4 DEF Refers
    <3>5. ASSUME w.table = "tags" PROVE Refers(own, u, "tags", row)
      BY <3>1, <3>2, <3>5 DEF Refers
    <3>6. Refers(own, u, "checklists", row) /\ Refers(own, u, "items", row)
      BY DEF Refers
    <3>7. Refers(own, u, w.table, row)
      BY <3>1, <3>4, <3>5, <3>6
    <3>3. RowAgrees(own, w.table, i, row)
      BY <3>7 DEF RowAgrees
    <3>8. Wrote(db, w, i) = [db EXCEPT ![w.table] = Put(db[w.table], i, row)]
      BY <2>1, <2>2 DEF row
    <3> QED
      BY <1>1, <3>3, <3>8 DEF RowsAgree, Put
  <2>3. CASE i \notin DOMAIN db[w.table]
    BY <2>1, <2>3 DEF RowsAgree
  <2> QED
    BY <2>2, <2>3
<1>4. CASE w.op \in {"save", "insert"}
  <2>1. Wrote(db, w, i) = [db EXCEPT ![w.table] = Put(db[w.table], i, w.row)]
    BY <1>4 DEF Wrote
  <2>2. RowAgrees(own, w.table, i, w.row)
    <3>1. CASE Refers(own, u, w.table, w.row)
      BY <3>1 DEF RowAgrees
    <3>2. CASE w.table = "notes" /\ w.op = "save" /\ Stray(own, w.id) /\ DOMAIN w.row = NoteFields
      BY <3>2 DEF RowAgrees
    <3> QED
      BY <1>4, <3>1, <3>2 DEF WriteAgrees
  <2> QED
    BY <1>1, <2>1, <2>2 DEF RowsAgree, Put
<1> QED
  BY <1>1, <1>2, <1>3, <1>4

-----------------------------------------------------------------------------
(* The steps keep the claims. *)

RestOf(writes, w, i) ==
  [n \in 1 .. Len(writes) - 1 |->
     IF w.table = "boards" /\ writes[n + 1].table = "columns"
     THEN [writes[n + 1] EXCEPT !.row.board = i] ELSE writes[n + 1]]

(* Request r performs its first write w, on row i. *)
Performs(own, r, w, i) ==
  LET q == req[r] IN
  /\ q = [at |-> "write", user |-> q.user, writes |-> q.writes, names |-> q.names]
  /\ WritesAgree(own, q.user, q.writes)
  /\ w = q.writes[1] /\ WriteAgrees(own, q.user, w)
  /\ i \in IF w.op = "insert" THEN Ids[w.table] \ used[w.table] ELSE {w.id}
  /\ used' = [used EXCEPT ![w.table] = @ \cup {i}]
  /\ db' = IF Refused(Wrote(db, w, i)) THEN db ELSE Wrote(db, w, i)
  /\ req' = [req EXCEPT ![r] =
               IF Refused(Wrote(db, w, i)) THEN Idle
               ELSE IF RestOf(q.writes, w, i) # << >>
                    THEN [q EXCEPT !.writes = RestOf(q.writes, w, i)]
               ELSE IF w.table = "users" /\ w.row.role = "user"
                    THEN [q EXCEPT !.at = "seed", !.user = i, !.names = TRUE]
               ELSE Idle]

LEMMA WriteStep ==
  ASSUME NEW own, Agree(own), NEW r \in Requests, Write(r)
  PROVE  \E w, i : Performs(own, r, w, i)
<1> DEFINE q == req[r]
           w == Head(q.writes)
<1>1. /\ q # Idle /\ q.at = "write" /\ RequestAgrees(own, q)
  <2>1. q.at = "write"
    BY DEF Write
  <2>2. RequestAgrees(own, q)
    BY DEF Agree
  <2> QED
    BY <2>1, <2>2 DEF Idle
<1>2. /\ q = [at |-> "write", user |-> q.user, writes |-> q.writes, names |-> q.names]
      /\ WritesAgree(own, q.user, q.writes)
  BY <1>1 DEF RequestAgrees
<1>3. /\ q.writes = [n \in 1 .. Len(q.writes) |-> q.writes[n]] /\ Len(q.writes) \in Nat \ {0}
      /\ WriteAgrees(own, q.user, q.writes[1])
  BY <1>2 DEF WritesAgree
<1>4. w = q.writes[1] /\ WriteAgrees(own, q.user, w)
  BY <1>3, LenOf
<1>5. PICK i \in IF w.op = "insert" THEN Ids[w.table] \ used[w.table] ELSE {w.id} :
        /\ used' = [used EXCEPT ![w.table] = @ \cup {i}]
        /\ db' = IF Refused(Wrote(db, w, i)) THEN db ELSE Wrote(db, w, i)
        /\ req' = [req EXCEPT ![r] =
                     IF Refused(Wrote(db, w, i)) THEN Idle
                     ELSE IF RestOf(q.writes, w, i) # << >>
                          THEN [q EXCEPT !.writes = RestOf(q.writes, w, i)]
                     ELSE IF w.table = "users" /\ w.row.role = "user"
                          THEN [q EXCEPT !.at = "seed", !.user = i, !.names = TRUE]
                     ELSE Idle]
  BY DEF Write, RestOf
<1>6. Performs(own, r, w, i)
  BY <1>2, <1>4, <1>5 DEF Performs
<1> QED
  BY <1>6

LEMMA WriteAgree ==
  ASSUME NEW own, Agree(own), NEW r \in Requests, Write(r)
  PROVE  \E more : Agree(more)'
<1> DEFINE q == req[r]
           u == q.user
<1>0. PICK w, i : Performs(own, r, w, i)
  BY WriteStep
<1>2. /\ q = [at |-> "write", user |-> q.user, writes |-> q.writes, names |-> q.names]
      /\ WritesAgree(own, q.user, q.writes)
  BY <1>0 DEF Performs
<1>3. q.writes = [n \in 1 .. Len(q.writes) |-> q.writes[n]] /\ Len(q.writes) \in Nat \ {0}
  BY <1>2 DEF WritesAgree
<1>4. q.writes[1] = w
  BY <1>0 DEF Performs
<1>15. WriteAgrees(own, u, w)
  BY <1>0 DEF Performs
<1>5. /\ i \in IF w.op = "insert" THEN Ids[w.table] \ used[w.table] ELSE {w.id}
      /\ used' = [used EXCEPT ![w.table] = @ \cup {i}]
      /\ db' = IF Refused(Wrote(db, w, i)) THEN db ELSE Wrote(db, w, i)
      /\ req' = [req EXCEPT ![r] =
                   IF Refused(Wrote(db, w, i)) THEN Idle
                   ELSE IF RestOf(q.writes, w, i) # << >>
                        THEN [q EXCEPT !.writes = RestOf(q.writes, w, i)]
                   ELSE IF w.table = "users" /\ w.row.role = "user"
                        THEN [q EXCEPT !.at = "seed", !.user = i, !.names = TRUE]
                   ELSE Idle]
  BY <1>0 DEF Performs
<1>14. PICK more : more = own \cup (IF w.op = "insert" THEN {<< w.table, i, u >>} ELSE {})
  OBVIOUS
<1>6. w.table \in Tables /\ (w.op # "insert" => i = w.id)
  BY <1>5, <1>15 DEF WriteAgrees
<1> HIDE DEF q, u
<1>7. own \subseteq more /\ (w.table \in OwnedTables => << w.table, i, u >> \in more)
  BY <1>6, <1>14, <1>15 DEF WriteAgrees
<1>8. Claims(more)' /\ DOMAIN used' = Tables
  <2>1. Claims(own) /\ DOMAIN used = Tables /\ strayed' = strayed
    BY DEF Agree, Write
  <2>2. /\ \A t \in Tables : used[t] \subseteq used'[t]
        /\ i \in used'[w.table] /\ DOMAIN used' = Tables
    BY <1>5, <1>6, <2>1
  <2>3. w.op = "insert" => i \notin used[w.table] /\ i # None
    BY <1>5, <1>6, NestWorkspaceAssumption
  <2>4. ASSUME NEW t, NEW j, NEW v, << t, j, v >> \in more
        PROVE  \/ << t, j, v >> \in own
               \/ w.op = "insert" /\ << t, j, v >> = << w.table, i, u >>
    <3>1. CASE w.op = "insert"
      BY <1>14, <2>4, <3>1
    <3>2. CASE w.op # "insert"
      BY <1>14, <2>4, <3>2
    <3> QED
      BY <3>1, <3>2
  <2>5. \A t, j, v, x : << t, j, v >> \in more /\ << t, j, x >> \in more => v = x
    BY <1>6, <2>1, <2>3, <2>4 DEF Claims, Tables
  <2>6. \A t, j, v : << t, j, v >> \in more =>
          \/ t \in Tables /\ j \in used'[t] /\ j # None
          \/ t = "strayed" /\ j \in strayed' /\ v = None
    BY <1>6, <2>1, <2>2, <2>3, <2>4 DEF Claims
  <2> QED
    BY <2>2, <2>5, <2>6 DEF Claims
<1>9. RowsAgree(more, db') /\ Cascaded(db') = db'
  <2>1. RowsAgree(more, db) /\ WriteAgrees(more, u, w) /\ Cascaded(db) = db
    BY <1>7, <1>15, MoreClaims DEF Agree
  <2>2. RowsAgree(more, Wrote(db, w, i))
    BY <1>6, <1>7, <2>1, WroteAgrees
  <2> QED
    BY <1>5, <2>1, <2>2 DEF Refused
<1>10. RestOf(q.writes, w, i) # << >> => WritesAgree(more, u, RestOf(q.writes, w, i))
  <2> DEFINE s == q.writes
             rest == RestOf(s, w, i)
             k == Len(s) - 1
  <2>1. /\ k \in Nat /\ rest = [n \in 1 .. k |-> rest[n]]
        /\ \A n \in 1 .. k : rest[n] = IF w.table = "boards" /\ s[n + 1].table = "columns"
                                      THEN [s[n + 1] EXCEPT !.row.board = i] ELSE s[n + 1]
    BY <1>3 DEF RestOf
  <2>2. ASSUME NEW n \in 1 .. k
        PROVE  \/ WriteAgrees(more, u, s[n + 1])
               \/ w.table = "boards" /\ s[n + 1] = Insert("columns", [board |-> None])
    <3>1. n + 1 \in 1 .. Len(s)
      BY <1>3
    <3>2. \/ WriteAgrees(own, u, s[n + 1])
          \/ w.table = "boards" /\ s[n + 1] = Insert("columns", [board |-> None])
      BY <1>2, <1>4, <3>1 DEF WritesAgree, u
    <3>3. \A v : WriteAgrees(own, u, v) => WriteAgrees(more, u, v)
      BY <1>7, MoreClaims
    <3> QED
      BY <3>2, <3>3
  <2> HIDE DEF s, rest, k
  <2>3. ASSUME NEW n \in 1 .. k
        PROVE  WriteAgrees(more, u, rest[n])
    <3>1. CASE w.table = "boards" /\ s[n + 1].table = "columns"
      <4>1. << "boards", i, u >> \in more
        BY <1>7, <3>1 DEF OwnedTables
      <4> QED
        BY <2>1, <2>2, <3>1, <4>1, ColumnOf
    <3>2. CASE ~(w.table = "boards" /\ s[n + 1].table = "columns")
      BY <2>1, <2>2, <3>2 DEF Insert
    <3> QED
      BY <3>1, <3>2
  <2>4. Len(rest) = k /\ (k = 0 => rest = << >>)
    BY <2>1, LenOf
  <2>5. rest # << >> => WritesAgree(more, u, rest)
    BY <2>1, <2>3, <2>4 DEF WritesAgree
  <2> QED
    BY <2>5 DEF rest, s
<1>11. /\ DOMAIN req' = Requests
       /\ \A o \in Requests : RequestAgrees(more, req'[o])
  <2>1. /\ DOMAIN req = Requests
        /\ \A o \in Requests : RequestAgrees(more, req[o])
    BY <1>7, MoreClaims DEF Agree
  <2>2. RequestAgrees(more, Idle)
    BY DEF RequestAgrees
  <2>3. RestOf(q.writes, w, i) # << >>
          => RequestAgrees(more, [q EXCEPT !.writes = RestOf(q.writes, w, i)])
    <3> DEFINE rest == RestOf(q.writes, w, i)
               x == [q EXCEPT !.writes = rest]
    <3> HIDE DEF rest
    <3>1. /\ x = [at |-> x.at, user |-> x.user, writes |-> x.writes, names |-> x.names]
          /\ x.at = "write" /\ x.user = u /\ x.writes = rest
      BY <1>2 DEF u
    <3> HIDE DEF x
    <3>2. rest # << >> => RequestAgrees(more, x)
      BY <1>10, <3>1 DEF RequestAgrees, rest
    <3> QED
      BY <3>2 DEF rest, x
  <2>4. RequestAgrees(more, [q EXCEPT !.at = "seed", !.user = i, !.names = TRUE])
    <3> DEFINE x == [q EXCEPT !.at = "seed", !.user = i, !.names = TRUE]
    <3>1. /\ x = [at |-> x.at, user |-> x.user, writes |-> x.writes, names |-> x.names]
          /\ x.at = "seed"
      <4>1. DOMAIN q = {"at", "user", "writes", "names"}
        BY <1>2
      <4>2. x = [f \in {"at", "user", "writes", "names"} |-> x[f]]
        BY <4>1
      <4>3. x.at = "seed"
        BY <4>1
      <4> HIDE DEF x
      <4> QED
        BY <4>2, <4>3
    <3> HIDE DEF x
    <3>2. RequestAgrees(more, x)
      BY <3>1 DEF RequestAgrees
    <3> QED
      BY <3>2 DEF x
  <2> QED
    BY <1>5, <2>1, <2>2, <2>3, <2>4
<1> QED
  BY <1>8, <1>9, <1>11 DEF Agree

-----------------------------------------------------------------------------
(* What the handlers leave to be written. *)

(* The claims, with the notes that stray in this step. *)
Since(own) == own \cup {<< "strayed", n, None >> : n \in strayed'}

(* Request r begins for u and leaves writes that agree and fit. *)
Sent(own, r) ==
  \E u, at, writes, names :
    /\ Take(r, u, at, writes, names) /\ at \in {"seed", "write"}
    /\ strayed \subseteq strayed'
    /\ at = "seed" => names
    /\ at = "write" => (WritesAgree(Since(own), u, writes) /\ NamesFit(db, names, writes))

LEMMA SinceAgrees ==
  ASSUME NEW own
  PROVE  /\ \A u, w : WriteAgrees(own, u, w) => WriteAgrees(Since(own), u, w)
         /\ \A u, writes : WritesAgree(own, u, writes) => WritesAgree(Since(own), u, writes)
<1>1. PICK more : more = Since(own)
  OBVIOUS
<1>2. own \subseteq more
  BY <1>1 DEF Since
<1>3. \A u, w : WriteAgrees(own, u, w) => WriteAgrees(more, u, w)
  BY <1>2, MoreClaims
<1>4. \A u, writes : WritesAgree(own, u, writes) => WritesAgree(more, u, writes)
  BY <1>3 DEF WritesAgree
<1> QED
  BY <1>1, <1>3, <1>4

LEMMA OneTaken ==
  ASSUME NEW own, NEW r, NEW u, NEW w, NEW names, Take(r, u, "write", << w >>, names),
         strayed \subseteq strayed', WriteAgrees(Since(own), u, w),
         LabelWrite(w) => /\ names
                          /\ \A l \in DOMAIN db.labels : db.labels[l] = w.row
                                                           => w.op # "insert" /\ l = w.id
  PROVE  Sent(own, r)
<1>1. WritesAgree(Since(own), u, << w >>)
  BY DEF WritesAgree
<1>2. NamesFit(db, names, << w >>)
  BY DEF NamesFit
<1> QED
  BY <1>1, <1>2 DEF Sent

LEMMA OneWrite ==
  ASSUME NEW own, NEW r, NEW u, NEW w, NEW names, Begin(r, u, "write", << w >>, names),
         WriteAgrees(own, u, w),
         LabelWrite(w) => /\ names
                          /\ \A l \in DOMAIN db.labels : db.labels[l] = w.row
                                                           => w.op # "insert" /\ l = w.id
  PROVE  Sent(own, r)
<1>1. WriteAgrees(Since(own), u, w)
  BY SinceAgrees
<1>2. Take(r, u, "write", << w >>, names) /\ strayed \subseteq strayed'
  BY DEF Begin
<1> QED
  BY <1>1, <1>2, OneTaken

LEMMA OneHandled ==
  ASSUME NEW own, NEW r, NEW u, NEW w, Handle(r, u, << w >>),
         WriteAgrees(own, u, w), w.table # "labels" \/ w.op = "remove"
  PROVE  Sent(own, r)
BY OneWrite DEF Handle, LabelWrite

(* The writes that need only the claim on their row. *)
LEMMA Deleted ==
  ASSUME NEW own, NEW u, NEW t \in Tables \ {"columns"}, NEW i,
         t \in OwnedTables => << t, i, u >> \in own
  PROVE  WriteAgrees(own, u, Delete(t, i))
BY DEF WriteAgrees, Delete

LEMMA ProjectsSent ==
  ASSUME NEW own, Agree(own), NEW r, NEW u, ProjectsController(r, u)
  PROVE  Sent(own, r)
<1>1. Owns(own, u)
  BY AgreeOwns
<1>2. CASE CreateProject(r, u)
  <2>1. WriteAgrees(own, u, Insert("projects", [user |-> u]))
    BY DEF WriteAgrees, Insert, Refers, Tables
  <2> QED
    BY <1>2, <2>1, OneHandled DEF CreateProject, Insert
<1>3. CASE UpdateProject(r, u)
  <2>1. PICK p \in Owned("projects", u) :
          Handle(r, u, << Save("projects", p, db.projects[p]) >>)
    BY <1>3 DEF UpdateProject
  <2>2. WriteAgrees(own, u, Save("projects", p, db.projects[p]))
    BY <1>1 DEF Owns, WriteAgrees, Save, Refers, Tables
  <2> QED
    BY <2>1, <2>2, OneHandled DEF Save
<1>4. CASE RemoveProject(r, u)
  <2>1. PICK p \in Owned("projects", u) : Handle(r, u, << Delete("projects", p) >>)
    BY <1>4 DEF RemoveProject
  <2>2. WriteAgrees(own, u, Delete("projects", p))
    BY <1>1, Deleted DEF Owns, Tables
  <2> QED
    BY <2>1, <2>2, OneHandled DEF Delete
<1> QED
  BY <1>2, <1>3, <1>4 DEF ProjectsController

(* A board as it is, or as a handler changes it. *)
LEMMA OwnBoard ==
  ASSUME NEW own, Agree(own), NEW u, NEW b \in Owned("boards", u)
  PROVE  /\ << "boards", b, u >> \in own
         /\ DOMAIN db.boards[b] = {"user", "project", "archived"} /\ db.boards[b].user = u
         /\ db.boards[b].project # None => << "projects", db.boards[b].project, u >> \in own
<1>1. << "boards", b, u >> \in own /\ db.boards[b].user = u /\ b \in DOMAIN db.boards
  BY AgreeOwns DEF Owns, Owned
<1>2. Refers(own, db.boards[b].user, "boards", db.boards[b])
  BY <1>1, AgreeKnown DEF Known, RowsFit
<1> QED
  BY <1>1, <1>2 DEF Refers

LEMMA BoardSaved ==
  ASSUME NEW own, Agree(own), NEW r, NEW u, NEW b \in Owned("boards", u), NEW row,
         Handle(r, u, << Save("boards", b, row) >>),
         \/ \E p : /\ row = [db.boards[b] EXCEPT !.project = p]
                   /\ p # None => << "projects", p, u >> \in own
         \/ \E archived : row = [db.boards[b] EXCEPT !.archived = archived]
  PROVE  Sent(own, r)
<1>1. /\ DOMAIN row = {"user", "project", "archived"} /\ row.user = u
      /\ row.project # None => << "projects", row.project, u >> \in own
  <2>1. /\ DOMAIN db.boards[b] = {"user", "project", "archived"} /\ db.boards[b].user = u
        /\ db.boards[b].project # None => << "projects", db.boards[b].project, u >> \in own
    BY OwnBoard
  <2>2. ASSUME NEW p, row = [db.boards[b] EXCEPT !.project = p],
               p # None => << "projects", p, u >> \in own
        PROVE  /\ DOMAIN row = {"user", "project", "archived"} /\ row.user = u
               /\ row.project # None => << "projects", row.project, u >> \in own
    BY <2>1, <2>2
  <2>3. ASSUME NEW archived, row = [db.boards[b] EXCEPT !.archived = archived]
        PROVE  /\ DOMAIN row = {"user", "project", "archived"} /\ row.user = u
               /\ row.project # None => << "projects", row.project, u >> \in own
    BY <2>1, <2>3
  <2> QED
    BY <2>2, <2>3
<1>2. Refers(own, u, "boards", row)
  BY <1>1 DEF Refers
<1>3. WriteAgrees(own, u, Save("boards", b, row))
  BY <1>2, OwnBoard DEF WriteAgrees, Save, Tables
<1> QED
  BY <1>3, OneHandled DEF Save

LEMMA BoardsSent ==
  ASSUME NEW own, Agree(own), NEW r, NEW u, BoardsController(r, u)
  PROVE  Sent(own, r)
<1>1. Owns(own, u)
  BY AgreeOwns
<1>2. CASE CreateBoard(r, u)
  <2>1. PICK p \in Owned("projects", u) \cup {None} :
          Handle(r, u, << Insert("boards", [user |-> u, project |-> p, archived |-> FALSE]),
                          Insert("columns", [board |-> None]) >>)
    BY <1>2 DEF CreateBoard
  <2> DEFINE row == [user |-> u, project |-> p, archived |-> FALSE]
             writes == << Insert("boards", row), Insert("columns", [board |-> None]) >>
  <2>2. DOMAIN row = {"user", "project", "archived"} /\ row.user = u /\ row.project = p
    OBVIOUS
  <2> HIDE DEF row
  <2>3. Refers(own, u, "boards", row)
    BY <1>1, <2>2 DEF Owns, Refers
  <2>4. WriteAgrees(own, u, Insert("boards", row))
    BY <2>3 DEF WriteAgrees, Insert, Tables
  <2>5. WritesAgree(own, u, writes)
    BY <2>4 DEF WritesAgree, Insert
  <2>6. NamesFit(db, FALSE, writes)
    BY DEF NamesFit, LabelWrite, Insert
  <2> QED
    BY <2>1, <2>5, <2>6, SinceAgrees DEF Handle, Begin, Sent, row
<1>3. CASE UpdateBoard(r, u)
  <2>1. PICK b \in Owned("boards", u), p \in Ids.projects \cup {None} :
          /\ p = None \/ p \in Owned("projects", u)
          /\ Handle(r, u, << Save("boards", b, [db.boards[b] EXCEPT !.project = p]) >>)
    BY <1>3 DEF UpdateBoard
  <2>2. p # None => << "projects", p, u >> \in own
    BY <1>1, <2>1 DEF Owns
  <2> QED
    BY <2>1, <2>2, BoardSaved
<1>4. CASE RemoveBoard(r, u) \/ PermanentDelete(r, u)
  <2>1. PICK b \in Owned("boards", u) : Handle(r, u, << Delete("boards", b) >>)
    BY <1>4 DEF RemoveBoard, PermanentDelete
  <2>2. WriteAgrees(own, u, Delete("boards", b))
    BY <1>1, Deleted DEF Owns, Tables
  <2> QED
    BY <2>1, <2>2, OneHandled DEF Delete
<1>5. CASE Archive(r, u) \/ Restore(r, u)
  <2>1. PICK b \in Owned("boards", u), archived \in BOOLEAN :
          Handle(r, u, << Save("boards", b, [db.boards[b] EXCEPT !.archived = archived]) >>)
    BY <1>5 DEF Archive, Restore
  <2> QED
    BY <2>1, BoardSaved
<1> QED
  BY <1>2, <1>3, <1>4, <1>5 DEF BoardsController

LEMMA CardsSent ==
  ASSUME NEW own, Agree(own), NEW r, NEW u, CardsController(r, u)
  PROVE  Sent(own, r)
<1>1. Owns(own, u)
  BY AgreeOwns
<1>2. CASE CreateCard(r, u)
  <2>1. PICK c \in OwnColumns(u) : Handle(r, u, << Insert("cards", [column |-> c]) >>)
    BY <1>2 DEF CreateCard
  <2>2. WriteAgrees(own, u, Insert("cards", [column |-> c]))
    BY <1>1 DEF Owns, WriteAgrees, Insert, Refers, Tables
  <2> QED
    BY <2>1, <2>2, OneHandled DEF Insert
<1>3. CASE MoveCard(r, u)
  <2>1. PICK k \in OwnCards(u), c \in OwnColumns(u) :
          Handle(r, u, << Update("cards", k, [column |-> c]) >>)
    BY <1>3 DEF MoveCard
  <2>2. WriteAgrees(own, u, Update("cards", k, [column |-> c]))
    BY <1>1 DEF Owns, WriteAgrees, Update, Refers, Tables
  <2> QED
    BY <2>1, <2>2, OneHandled DEF Update
<1>4. CASE RemoveCard(r, u)
  <2>1. PICK k \in OwnCards(u) : Handle(r, u, << Delete("cards", k) >>)
    BY <1>4 DEF RemoveCard
  <2>2. WriteAgrees(own, u, Delete("cards", k))
    BY <1>1, Deleted DEF Owns, Tables
  <2> QED
    BY <2>1, <2>2, OneHandled DEF Delete
<1>5. CASE AssignLabel(r, u)
  <2>1. PICK k \in OwnCards(u), l \in Owned("labels", u) :
          Handle(r, u, << Save("cardLabels", << k, l >>, Pair(k, l)) >>)
    BY <1>5 DEF AssignLabel
  <2>2. WriteAgrees(own, u, Save("cardLabels", << k, l >>, Pair(k, l)))
    BY <1>1 DEF Owns, WriteAgrees, Save, Pair, Refers, Tables, OwnedTables
  <2> QED
    BY <2>1, <2>2, OneHandled DEF Save
<1>6. CASE UnassignLabel(r, u)
  <2>1. PICK k \in OwnCards(u), l \in Owned("labels", u) :
          Handle(r, u, << Delete("cardLabels", << k, l >>) >>)
    BY <1>6 DEF UnassignLabel
  <2>2. WriteAgrees(own, u, Delete("cardLabels", << k, l >>))
    BY Deleted DEF Tables, OwnedTables
  <2> QED
    BY <2>1, <2>2, OneHandled DEF Delete
<1> QED
  BY <1>2, <1>3, <1>4, <1>5, <1>6 DEF CardsController

LEMMA LabelsSent ==
  ASSUME NEW own, Agree(own), NEW r, NEW u, LabelsController(r, u)
  PROVE  Sent(own, r)
<1>1. Owns(own, u)
  BY AgreeOwns
<1>2. CASE ListLabels(r, u)
  <2>1. Begin(r, u, "seed", << >>, TRUE)
    BY <1>2 DEF ListLabels
  <2>2. "seed" \in {"seed", "write"} /\ "seed" # "write"
    OBVIOUS
  <2>3. \E v, at, writes, names : /\ Take(r, v, at, writes, names) /\ names
                                 /\ at \in {"seed", "write"} /\ at # "write"
                                 /\ strayed \subseteq strayed'
    BY <2>1, <2>2 DEF Begin
  <2> QED
    BY <2>3 DEF Sent
<1>3. CASE CreateLabel(r, u)
  <2>1. PICK name \in Names :
          /\ NameFree(u, name, None)
          /\ Begin(r, u, "write", << Insert("labels", [user |-> u, name |-> name]) >>, TRUE)
    BY <1>3 DEF CreateLabel
  <2> DEFINE row == [user |-> u, name |-> name]
  <2>2. \A l \in DOMAIN db.labels : db.labels[l] # row
    <3>1. \A l \in DOMAIN db.labels : l # None
      <4>1. \A l \in DOMAIN db.labels : << "labels", l, db.labels[l].user >> \in own
        BY AgreeKnown DEF Known
      <4>2. \A t, i, v : << t, i, v >> \in own => i # None \/ t = "strayed"
        BY DEF Agree, Claims
      <4> QED
        BY <4>1, <4>2
    <3> QED
      BY <2>1, <3>1 DEF NameFree, Owned
  <2>3. WriteAgrees(own, u, Insert("labels", row))
    BY DEF WriteAgrees, Insert, Refers, Tables
  <2> QED
    BY <2>1, <2>2, <2>3, OneWrite DEF Insert
<1>4. CASE UpdateLabel(r, u)
  <2>1. PICK l \in Owned("labels", u), name \in Names :
          /\ NameFree(u, name, l)
          /\ Begin(r, u, "write", << Save("labels", l, [user |-> u, name |-> name]) >>, TRUE)
    BY <1>4 DEF UpdateLabel
  <2> DEFINE row == [user |-> u, name |-> name]
  <2>2. \A m \in DOMAIN db.labels : db.labels[m] = row => m = l
    BY <2>1 DEF NameFree, Owned
  <2>3. WriteAgrees(own, u, Save("labels", l, row))
    BY <1>1 DEF Owns, WriteAgrees, Save, Refers, Tables
  <2> QED
    BY <2>1, <2>2, <2>3, OneWrite DEF Save
<1>5. CASE RemoveLabel(r, u)
  <2>1. PICK l \in Owned("labels", u) : Handle(r, u, << Delete("labels", l) >>)
    BY <1>5 DEF RemoveLabel
  <2>2. WriteAgrees(own, u, Delete("labels", l))
    BY <1>1, Deleted DEF Owns, Tables
  <2> QED
    BY <2>1, <2>2, OneHandled DEF Delete
<1> QED
  BY <1>2, <1>3, <1>4, <1>5 DEF LabelsController

LEMMA ChecklistsSent ==
  ASSUME NEW own, Agree(own), NEW r, NEW u, ChecklistsController(r, u)
  PROVE  Sent(own, r)
<1>1. \A t \in {"checklists", "items"} : \A i, row :
        /\ WriteAgrees(own, u, Insert(t, row)) /\ WriteAgrees(own, u, Update(t, i, row))
        /\ WriteAgrees(own, u, Delete(t, i))
  BY DEF WriteAgrees, Insert, Update, Delete, Refers, Tables, OwnedTables
<1>2. /\ \A t, row : t \in {"checklists", "items"} /\ Handle(r, u, << Insert(t, row) >>)
                      => Sent(own, r)
      /\ \A t, i, row : t \in {"checklists", "items"} /\ Handle(r, u, << Update(t, i, row) >>)
                         => Sent(own, r)
      /\ \A t, i : t \in {"checklists", "items"} /\ Handle(r, u, << Delete(t, i) >>)
                    => Sent(own, r)
  BY <1>1, OneHandled DEF Insert, Update, Delete
<1>3. CASE CreateChecklist(r, u) \/ CreateItem(r, u)
  BY <1>2, <1>3 DEF CreateChecklist, CreateItem
<1>4. CASE UpdateChecklist(r, u) \/ UpdateItem(r, u)
  BY <1>2, <1>4 DEF UpdateChecklist, UpdateItem
<1>5. CASE RemoveChecklist(r, u) \/ RemoveItem(r, u)
  BY <1>2, <1>5 DEF RemoveChecklist, RemoveItem
<1> QED
  BY <1>3, <1>4, <1>5 DEF ChecklistsController

LEMMA TagsSent ==
  ASSUME NEW own, Agree(own), NEW r, NEW u, TagsController(r, u)
  PROVE  Sent(own, r)
<1>1. Owns(own, u)
  BY AgreeOwns
<1>2. CASE CreateTag(r, u)
  <2>1. WriteAgrees(own, u, Insert("tags", [user |-> u]))
    BY DEF WriteAgrees, Insert, Refers, Tables
  <2> QED
    BY <1>2, <2>1, OneHandled DEF CreateTag, Insert
<1>3. CASE UpdateTag(r, u)
  <2>1. PICK t \in Owned("tags", u) : Handle(r, u, << Update("tags", t, [user |-> u]) >>)
    BY <1>3 DEF UpdateTag
  <2>2. WriteAgrees(own, u, Update("tags", t, [user |-> u]))
    BY <1>1 DEF Owns, WriteAgrees, Update, Refers, Tables
  <2> QED
    BY <2>1, <2>2, OneHandled DEF Update
<1>4. CASE RemoveTag(r, u)
  <2>1. PICK t \in Owned("tags", u) : Handle(r, u, << Delete("tags", t) >>)
    BY <1>4 DEF RemoveTag
  <2>2. WriteAgrees(own, u, Delete("tags", t))
    BY <1>1, Deleted DEF Owns, Tables
  <2> QED
    BY <2>1, <2>2, OneHandled DEF Delete
<1> QED
  BY <1>2, <1>3, <1>4 DEF TagsController

(* A note of u's, linked to and tagged with what is u's. *)
LEMMA NoteWritten ==
  ASSUME NEW own, NEW u, NEW link, NEW tags,
         link.board # None => << "boards", link.board, u >> \in own,
         link.project # None => << "projects", link.project, u >> \in own,
         link.card # None => << "cards", link.card, u >> \in own,
         \A tag \in tags : << "tags", tag, u >> \in own
  PROVE  /\ WriteAgrees(own, u, Insert("notes", NoteRow(link, u, tags)))
         /\ \A n : WriteAgrees(own, u, Save("notes", n, NoteRow(link, u, tags)))
<1> DEFINE row == NoteRow(link, u, tags)
<1>1. /\ DOMAIN row = {"board", "project", "card", "user", "tags"}
      /\ row.board = link.board /\ row.project = link.project /\ row.card = link.card
      /\ row.user = u /\ row.tags = tags
  BY DEF NoteRow
<1> HIDE DEF row
<1>2. Refers(own, u, "notes", row)
  BY <1>1 DEF Refers
<1>3. /\ WriteAgrees(own, u, Insert("notes", row))
      /\ \A n : WriteAgrees(own, u, Save("notes", n, row))
  BY <1>2 DEF WriteAgrees, Insert, Save, Tables, OwnedTables
<1> QED
  BY <1>3 DEF row

(* A note that has strayed may be saved with anything. *)
LEMMA StrayWritten ==
  ASSUME NEW own, NEW u, NEW n, Stray(own, n), NEW link, NEW user, NEW tags
  PROVE  WriteAgrees(own, u, Save("notes", n, NoteRow(link, user, tags)))
<1>1. DOMAIN NoteRow(link, user, tags) = NoteFields
  BY DEF NoteRow, NoteFields
<1> QED
  BY <1>1 DEF WriteAgrees, Save, Tables, OwnedTables

LEMMA NotesSent ==
  ASSUME NEW own, Agree(own), NEW r, NEW u, NotesController(r, u)
  PROVE  Sent(own, r)
<1>1. Owns(own, u)
  BY AgreeOwns
<1>2. ASSUME NEW link, OwnLink(link, u)
      PROVE  /\ link.board # None => << "boards", link.board, u >> \in own
             /\ link.project # None => << "projects", link.project, u >> \in own
             /\ link.card # None => << "cards", link.card, u >> \in own
  BY <1>1, <1>2 DEF Owns, OwnLink
<1>3. \A t \in Owned("tags", u) : << "tags", t, u >> \in own
  BY <1>1 DEF Owns
<1>4. CASE CreateNote(r, u)
  <2>1. PICK link \in Links, tags \in SUBSET Owned("tags", u) :
          /\ OwnLink(link, u)
          /\ Handle(r, u, << Insert("notes", NoteRow(link, u, tags)) >>)
    BY <1>4 DEF CreateNote
  <2>2. WriteAgrees(own, u, Insert("notes", NoteRow(link, u, tags)))
    BY <1>2, <1>3, <2>1, NoteWritten
  <2> QED
    BY <2>1, <2>2, OneHandled DEF Insert
<1>5. CASE UpdateNote(r, u)
  <2>1. PICK n, link, tags :
          /\ n \in DOMAIN db.notes
          /\ tags \in (SUBSET Owned("tags", u)) \cup {db.notes[n].tags}
          /\ MayOpen(db, n, u)
          /\ Take(r, u, "write",
                  << Save("notes", n, NoteRow(link, db.notes[n].user, tags)) >>, FALSE)
          /\ strayed' = IF OwnLink(link, u) THEN strayed ELSE strayed \cup {n}
    BY <1>5 DEF UpdateNote
  <2> DEFINE w == Save("notes", n, NoteRow(link, db.notes[n].user, tags))
  <2>2. ASSUME OwnLink(link, u), ~Stray(own, n)
        PROVE  WriteAgrees(Since(own), u, w)
    <3>1. db.notes[n].user = u
      BY <1>1, <2>1, <2>2 DEF Owns
    <3>2. Refers(own, u, "notes", db.notes[n])
      BY <2>1, <2>2, <3>1, NoteLinks
    <3>3. \A t \in tags : << "tags", t, u >> \in own
      BY <1>3, <2>1, <3>2 DEF Refers
    <3>4. WriteAgrees(own, u, w)
      BY <1>2, <2>2, <3>1, <3>3, NoteWritten
    <3> QED
      BY <3>4, SinceAgrees
  <2>3. ASSUME ~OwnLink(link, u) \/ Stray(own, n)
        PROVE  WriteAgrees(Since(own), u, w)
    <3>1. PICK more : more = Since(own)
      OBVIOUS
    <3>2. Stray(more, n)
      BY <2>1, <2>3, <3>1 DEF Since, Stray
    <3>3. WriteAgrees(more, u, w)
      BY <3>2, StrayWritten
    <3> QED
      BY <3>1, <3>3
  <2>4. WriteAgrees(Since(own), u, w)
    BY <2>2, <2>3
  <2>5. strayed \subseteq strayed' /\ ~LabelWrite(w)
    BY <2>1 DEF LabelWrite, Save
  <2> QED
    BY <2>1, <2>4, <2>5, OneTaken
<1>6. CASE RemoveNote(r, u)
  <2>1. PICK n \in DOMAIN db.notes : Handle(r, u, << Delete("notes", n) >>)
    BY <1>6 DEF RemoveNote
  <2>2. WriteAgrees(own, u, Delete("notes", n))
    BY Deleted DEF Tables, OwnedTables
  <2> QED
    BY <2>1, <2>2, OneHandled DEF Delete
<1> QED
  BY <1>4, <1>5, <1>6 DEF NotesController

LEMMA AccountsSent ==
  ASSUME NEW own, NEW r, Register(r) \/ CreateAdmin(r)
  PROVE  Sent(own, r)
<1>1. PICK row : Begin(r, None, "write", << Insert("users", row) >>, FALSE)
  BY DEF Register, CreateAdmin
<1>2. WriteAgrees(own, None, Insert("users", row))
  BY DEF WriteAgrees, Insert, Refers, Tables
<1> QED
  BY <1>1, <1>2, OneWrite DEF LabelWrite, Insert

-----------------------------------------------------------------------------
(* The steps of a handler, and the seeding of labels. *)

LEMMA SentAgree ==
  ASSUME NEW own, Agree(own), NEW r \in Requests, Sent(own, r)
  PROVE  \E more : Agree(more)'
<1>1. PICK u, at, writes, names :
        /\ Take(r, u, at, writes, names) /\ at \in {"seed", "write"}
        /\ strayed \subseteq strayed'
        /\ at = "write" => WritesAgree(Since(own), u, writes)
  BY DEF Sent
<1>6. PICK more : more = Since(own)
  OBVIOUS
<1>7. own \subseteq more
  BY <1>6 DEF Since
<1> DEFINE q == [at |-> at, user |-> u, writes |-> writes, names |-> names]
<1>2. req' = [req EXCEPT ![r] = q] /\ UNCHANGED << db, used >>
  BY <1>1 DEF Take
<1>3. RequestAgrees(more, q)
  BY <1>1, <1>6 DEF RequestAgrees
<1> HIDE DEF q
<1>4. Claims(more)'
  <2>1. \A t, i, v : << t, i, v >> \in more
                       => \/ << t, i, v >> \in own
                          \/ t = "strayed" /\ i \in strayed' /\ v = None
    BY <1>6 DEF Since
  <2>2. "strayed" \notin Tables
    BY DEF Tables
  <2>3. Claims(own)
    BY DEF Agree
  <2>4. \A t, i, v, x : << t, i, v >> \in more /\ << t, i, x >> \in more => v = x
    BY <2>1, <2>2, <2>3 DEF Claims
  <2>5. \A t, i, v : << t, i, v >> \in more =>
          \/ t \in Tables /\ i \in used'[t] /\ i # None
          \/ t = "strayed" /\ i \in strayed' /\ v = None
    BY <1>1, <1>2, <2>1, <2>3 DEF Claims
  <2> QED
    BY <2>4, <2>5 DEF Claims
<1>5. DOMAIN req' = Requests /\ \A o \in Requests : RequestAgrees(more, req'[o])
  <2>1. DOMAIN req = Requests /\ \A o \in Requests : RequestAgrees(more, req[o])
    BY <1>7, MoreClaims DEF Agree
  <2> QED
    BY <1>2, <1>3, <2>1
<1>8. RowsAgree(more, db)
  BY <1>7, MoreClaims DEF Agree
<1>9. Agree(more)'
  BY <1>2, <1>4, <1>5, <1>8 DEF Agree
<1> QED
  BY <1>9

LEMMA Seeds ==
  LET seeds == SetToSeq(DefaultNames) IN
  /\ seeds = [n \in 1 .. Len(seeds) |-> seeds[n]] /\ Len(seeds) \in Nat \ {0}
  /\ DOMAIN seeds = 1 .. Len(seeds)
  /\ \A m, n \in 1 .. Len(seeds) : seeds[m] = seeds[n] => m = n
<1> DEFINE k == Cardinality(DefaultNames)
           seeds == SetToSeq(DefaultNames)
<1>1. k \in Nat \ {0}
  BY FS_CardinalityType, FS_EmptySet, NestWorkspaceAssumption
<1>2. \E f \in [1 .. k -> DefaultNames] : IsInjective(f)
  <2>1. ExistsBijection(1 .. k, DefaultNames)
    BY FS_CardinalityType, NestWorkspaceAssumption
  <2> QED
    BY <2>1 DEF ExistsBijection, Bijection, Injection, IsInjective
<1>3. seeds \in [1 .. k -> DefaultNames] /\ IsInjective(seeds)
  BY <1>2 DEF SetToSeq
<1>4. Len(seeds) = k
  BY <1>1, <1>3
<1> QED
  BY <1>1, <1>3, <1>4 DEF IsInjective

LEMMA SeedAgree ==
  ASSUME NEW own, Agree(own), NEW r \in Requests, SeedDefaultLabels(r)
  PROVE  /\ Agree(own)'
         /\ \/ req' = [req EXCEPT ![r] = Idle]
            \/ \E writes : /\ req' = [req EXCEPT ![r] = [@ EXCEPT !.at = "write", !.writes = writes]]
                           /\ \A n \in 1 .. Len(writes) :
                                /\ writes[n].op = "insert"
                                /\ \A l \in DOMAIN db.labels : db.labels[l] # writes[n].row
                                /\ \A m \in 1 .. Len(writes) :
                                     writes[m].row = writes[n].row => m = n
<1> DEFINE q == req[r]
           u == q.user
           seeds == SetToSeq(DefaultNames)
           writes == [n \in DOMAIN seeds |-> Insert("labels", [user |-> u, name |-> seeds[n]])]
<1>1. /\ q.at = "seed" /\ RequestAgrees(own, q) /\ UNCHANGED << db, used, strayed >>
      /\ req' = [req EXCEPT ![r] = IF Owned("labels", u) # {} THEN Idle
                                   ELSE [q EXCEPT !.at = "write", !.writes = writes]]
  BY DEF SeedDefaultLabels, Agree
<1>2. q = [at |-> "seed", user |-> q.user, writes |-> q.writes, names |-> q.names]
  BY <1>1 DEF RequestAgrees, Idle
<1>3. /\ DOMAIN writes = 1 .. Len(seeds) /\ Len(seeds) \in Nat \ {0}
      /\ \A n \in 1 .. Len(seeds) : writes[n] = Insert("labels", [user |-> u, name |-> seeds[n]])
  BY Seeds
<1> HIDE DEF q, u, seeds
<1>4. Len(writes) = Len(seeds) /\ writes = [n \in 1 .. Len(writes) |-> writes[n]]
  <2> HIDE DEF writes
  <2>1. writes = [n \in 1 .. Len(seeds) |-> writes[n]]
    BY <1>3 DEF writes
  <2> QED
    BY <1>3, <2>1, LenOf
<1> HIDE DEF writes
<1>5. WritesAgree(own, u, writes)
  <2>1. ASSUME NEW n \in 1 .. Len(writes)
        PROVE  WriteAgrees(own, u, writes[n])
    BY <1>3, <1>4 DEF WriteAgrees, Insert, Refers, Tables
  <2> QED
    BY <1>3, <1>4, <2>1 DEF WritesAgree
<1> DEFINE x == [q EXCEPT !.at = "write", !.writes = writes]
<1>6. RequestAgrees(own, x)
  <2>1. /\ x = [at |-> x.at, user |-> x.user, writes |-> x.writes, names |-> x.names]
        /\ x.at = "write" /\ x.user = u /\ x.writes = writes
    <3>1. DOMAIN q = {"at", "user", "writes", "names"}
      BY <1>2
    <3>2. x = [f \in {"at", "user", "writes", "names"} |-> x[f]]
      BY <3>1
    <3>3. x.at = "write" /\ x.user = u /\ x.writes = writes
      BY <3>1 DEF u
    <3> HIDE DEF x
    <3> QED
      BY <3>2, <3>3
  <2> HIDE DEF x
  <2> QED
    BY <1>5, <2>1 DEF RequestAgrees
<1>7. RequestAgrees(own, Idle)
  BY DEF RequestAgrees
<1> HIDE DEF x
<1>8. DOMAIN req' = Requests /\ \A o \in Requests : RequestAgrees(own, req'[o])
  BY <1>1, <1>6, <1>7 DEF Agree, x
<1>9. Agree(own)'
  BY <1>1, <1>8 DEF Agree, Claims
<1>10. ASSUME Owned("labels", u) = {}, NEW n \in 1 .. Len(writes)
       PROVE  /\ writes[n].op = "insert"
              /\ \A l \in DOMAIN db.labels : db.labels[l] # writes[n].row
              /\ \A m \in 1 .. Len(writes) : writes[m].row = writes[n].row => m = n
  <2>1. \A m \in 1 .. Len(writes) :
          writes[m].op = "insert" /\ writes[m].row = [user |-> u, name |-> seeds[m]]
    BY <1>3, <1>4 DEF Insert
  <2>2. \A l \in DOMAIN db.labels : db.labels[l].user # u
    BY <1>10 DEF Owned
  <2>3. \A m \in 1 .. Len(writes) : seeds[m] = seeds[n] => m = n
    BY <1>4, Seeds DEF seeds
  <2>4. \A name : [user |-> u, name |-> name].user = u /\ [user |-> u, name |-> name].name = name
    OBVIOUS
  <2>6. writes[n].op = "insert" /\ \A l \in DOMAIN db.labels : db.labels[l] # writes[n].row
    <3>1. ASSUME NEW l \in DOMAIN db.labels, db.labels[l] = writes[n].row
          PROVE  FALSE
      <4>1. db.labels[l] = [user |-> u, name |-> seeds[n]]
        BY <2>1, <3>1
      <4>2. db.labels[l].user = u
        BY <2>4, <4>1
      <4> QED
        BY <2>2, <4>2
    <3> QED
      BY <2>1, <3>1
  <2>7. ASSUME NEW m \in 1 .. Len(writes), writes[m].row = writes[n].row
        PROVE  m = n
    <3>1. [user |-> u, name |-> seeds[m]] = [user |-> u, name |-> seeds[n]]
      BY <2>1, <2>7
    <3>2. seeds[m] = seeds[n]
      BY <3>1
    <3> QED
      BY <2>3, <3>2
  <2> QED
    BY <2>6, <2>7
<1> QED
  BY <1>1, <1>9, <1>10 DEF q

-----------------------------------------------------------------------------
(* The steps keep label names apart, unless two name requests overlap. *)

LEMMA LabelsAfter ==
  ASSUME NEW own, RowsAgree(own, db), NEW u, NEW w, WriteAgrees(own, u, w), NEW i
  PROVE  LET after == Wrote(db, w, i) IN
         /\ LabelWrite(w) =>
              /\ DOMAIN after.labels = DOMAIN db.labels \cup {i} /\ after.labels[i] = w.row
              /\ \A l \in DOMAIN db.labels : l # i => after.labels[l] = db.labels[l]
         /\ ~LabelWrite(w) => /\ DOMAIN after.labels \subseteq DOMAIN db.labels
                              /\ \A l \in DOMAIN after.labels : after.labels[l] = db.labels[l]
<1> DEFINE after == Wrote(db, w, i)
<1>1. DOMAIN db = Tables /\ w.table \in Tables
      /\ w.op \in {"save", "insert", "update", "remove"}
      /\ (w.op = "update" => w.table # "labels")
  BY DEF RowsAgree, WriteAgrees
<1>2. CASE w.op = "remove"
  <2> DEFINE left == [db EXCEPT ![w.table] = Without(db[w.table], i)]
  <2>1. after = Cascaded(left)
    BY <1>2 DEF Wrote
  <2>2. /\ DOMAIN left = Tables /\ DOMAIN left.labels \subseteq DOMAIN db.labels
        /\ \A l \in DOMAIN left.labels : left.labels[l] = db.labels[l]
    BY <1>1 DEF Without, Tables
  <2> HIDE DEF left, after
  <2>3. after.labels = left.labels
    BY <2>1, <2>2, CascadedTables
  <2> QED
    BY <1>2, <2>2, <2>3 DEF LabelWrite, after
<1>3. CASE w.op # "remove" /\ w.table # "labels"
  <2>1. after.labels = db.labels
    BY <1>1, <1>3 DEF Wrote, Tables
  <2> QED
    BY <1>3, <2>1 DEF LabelWrite
<1>4. CASE w.op # "remove" /\ w.table = "labels"
  <2>1. after = [db EXCEPT !.labels = Put(db.labels, i, w.row)]
    BY <1>1, <1>4 DEF Wrote
  <2>2. after.labels = Put(db.labels, i, w.row)
    BY <1>1, <2>1 DEF Tables
  <2> QED
    BY <1>4, <2>2 DEF LabelWrite, Put
<1> QED
  BY <1>2, <1>3, <1>4

LEMMA SentNames ==
  ASSUME NEW own, Agree(own), NamesGuarded, NEW r \in Requests, Sent(own, r)
  PROVE  NamesGuarded'
<1>1. PICK u, at, writes, names :
        /\ Take(r, u, at, writes, names) /\ at \in {"seed", "write"}
        /\ at = "seed" => names
        /\ at = "write" => NamesFit(db, names, writes)
  BY DEF Sent
<1> DEFINE q == [at |-> at, user |-> u, writes |-> writes, names |-> names]
<1>2. /\ req' = [req EXCEPT ![r] = q] /\ db' = db
      /\ raced' = (raced \/ (names /\ \E o \in Requests \ {r} : NameRequest(req[o])))
  BY <1>1 DEF Take
<1>3. q.at = at /\ q.writes = writes /\ q.names = names
  OBVIOUS
<1> HIDE DEF q
<1>4. /\ DOMAIN req = Requests /\ req'[r] = q
      /\ \A o \in Requests \ {r} : req'[o] = req[o]
  BY <1>2 DEF Agree
<1>5. CASE raced'
  BY <1>5 DEF NamesGuarded
<1>6. CASE ~raced'
  <2>1. /\ ~raced /\ (names => \A o \in Requests \ {r} : ~NameRequest(req[o]))
    BY <1>2, <1>6
  <2>2. \A o, p \in Requests : NameRequest(req'[o]) /\ NameRequest(req'[p]) => o = p
    BY <1>3, <1>4, <2>1 DEF NamesGuarded, NameRequest
  <2>3. \A o \in Requests : req'[o].at = "seed" => req'[o].names
    BY <1>1, <1>3, <1>4, <2>1 DEF NamesGuarded
  <2>4. \A o \in Requests : req'[o].at = "write" => NamesFit(db', req'[o].names, req'[o].writes)
    BY <1>1, <1>2, <1>3, <1>4, <2>1 DEF NamesGuarded
  <2>5. NamesApart(db')
    BY <1>2, <2>1 DEF NamesGuarded
  <2> QED
    BY <2>2, <2>3, <2>4, <2>5 DEF NamesGuarded, NameRequest
<1> QED
  BY <1>5, <1>6

LEMMA SeedNames ==
  ASSUME NEW own, Agree(own), NamesGuarded, NEW r \in Requests, SeedDefaultLabels(r)
  PROVE  NamesGuarded'
<1>1. /\ DOMAIN req = Requests /\ UNCHANGED << db, raced >> /\ req[r].at = "seed"
  BY DEF Agree, SeedDefaultLabels
<1>2. CASE req' = [req EXCEPT ![r] = Idle]
  BY <1>1, <1>2 DEF NamesGuarded, NameRequest, Idle
<1>3. ASSUME NEW writes,
             req' = [req EXCEPT ![r] = [req[r] EXCEPT !.at = "write", !.writes = writes]],
             \A n \in 1 .. Len(writes) :
               /\ writes[n].op = "insert"
               /\ \A l \in DOMAIN db.labels : db.labels[l] # writes[n].row
               /\ \A m \in 1 .. Len(writes) : writes[m].row = writes[n].row => m = n
      PROVE  NamesGuarded'
  <2> DEFINE x == [req[r] EXCEPT !.at = "write", !.writes = writes]
  <2>1. /\ req'[r] = x /\ \A o \in Requests \ {r} : req'[o] = req[o]
    BY <1>1, <1>3
  <2>2. DOMAIN req[r] = {"at", "user", "writes", "names"}
    <3>1. RequestAgrees(own, req[r])
      BY DEF Agree
    <3> QED
      BY <1>1, <3>1 DEF RequestAgrees, Idle
  <2>3. x.at = "write" /\ x.writes = writes /\ x.names = req[r].names
    BY <2>2
  <2> HIDE DEF x
  <2>4. CASE ~raced
    <3>1. req[r].names /\ NameRequest(req[r])
      BY <1>1, <2>4 DEF NamesGuarded, NameRequest, Idle
    <3>2. NamesFit(db, x.names, x.writes)
      BY <1>3, <2>3, <3>1 DEF NamesFit
    <3>3. \A o, p \in Requests : NameRequest(req'[o]) /\ NameRequest(req'[p]) => o = p
      BY <2>1, <2>4, <3>1 DEF NamesGuarded, NameRequest
    <3>4. \A o \in Requests : req'[o].at = "seed" => req'[o].names
      BY <2>1, <2>3, <2>4 DEF NamesGuarded
    <3>5. \A o \in Requests : req'[o].at = "write" => NamesFit(db', req'[o].names, req'[o].writes)
      BY <1>1, <2>1, <2>4, <3>2 DEF NamesGuarded
    <3>6. NamesApart(db')
      BY <1>1, <2>4 DEF NamesGuarded
    <3> QED
      BY <3>3, <3>4, <3>5, <3>6 DEF NamesGuarded, NameRequest
  <2>5. CASE raced
    BY <1>1, <2>5 DEF NamesGuarded
  <2> QED
    BY <2>4, <2>5
<1> QED
  BY <1>2, <1>3, SeedAgree

LEMMA WriteNames ==
  ASSUME NEW own, Agree(own), NamesGuarded, NEW r \in Requests, Write(r)
  PROVE  NamesGuarded'
<1> DEFINE q == req[r]
           s == q.writes
<1>1. PICK w, i : Performs(own, r, w, i)
  BY WriteStep
<1> DEFINE after == Wrote(db, w, i)
           rest == RestOf(s, w, i)
<1>2. /\ WritesAgree(own, q.user, s) /\ w = s[1] /\ WriteAgrees(own, q.user, w)
      /\ q.at = "write" /\ q # Idle /\ DOMAIN q = {"at", "user", "writes", "names"}
      /\ w.op # "insert" => i = w.id
  BY <1>1 DEF Performs, WriteAgrees, Idle
<1>3. /\ db' \in {db, after} /\ DOMAIN req = Requests
      /\ req' = [req EXCEPT ![r] = req'[r]]
      /\ \A o \in Requests \ {r} : req'[o] = req[o]
      /\ db' = after \/ req'[r] = Idle
  BY <1>1 DEF Performs, Agree
<1>4. \/ req'[r] = Idle
      \/ req'[r] = [q EXCEPT !.writes = rest]
      \/ req'[r] = [q EXCEPT !.at = "seed", !.user = i, !.names = TRUE]
  BY <1>1, <1>3 DEF Performs
<1>5. /\ Len(s) \in Nat \ {0} /\ Len(rest) = Len(s) - 1
      /\ \A n \in 1 .. Len(rest) :
           /\ n + 1 \in 1 .. Len(s)
           /\ LabelWrite(rest[n]) => rest[n] = s[n + 1]
  <2>1. Len(s) \in Nat \ {0}
    BY <1>2 DEF WritesAgree
  <2>2. /\ rest = [n \in 1 .. Len(s) - 1 |-> rest[n]]
        /\ \A n \in 1 .. Len(s) - 1 :
             rest[n] = IF w.table = "boards" /\ s[n + 1].table = "columns"
                       THEN [s[n + 1] EXCEPT !.row.board = i] ELSE s[n + 1]
    BY <2>1 DEF RestOf
  <2> HIDE DEF rest, s
  <2>3. Len(rest) = Len(s) - 1
    BY <2>1, <2>2, LenOf
  <2>4. ASSUME NEW n \in 1 .. Len(s) - 1
        PROVE  n + 1 \in 1 .. Len(s) /\ (LabelWrite(rest[n]) => rest[n] = s[n + 1])
    <3>1. n + 1 \in 1 .. Len(s)
      BY <2>1
    <3>2. s[n + 1] = [op |-> s[n + 1].op, table |-> s[n + 1].table,
                      id |-> s[n + 1].id, row |-> s[n + 1].row]
      <4>1. \/ WriteAgrees(own, q.user, s[n + 1])
            \/ s[n + 1] = Insert("columns", [board |-> None])
        BY <1>2, <3>1 DEF WritesAgree
      <4>2. CASE WriteAgrees(own, q.user, s[n + 1])
        BY <4>2 DEF WriteAgrees
      <4>3. CASE s[n + 1] = Insert("columns", [board |-> None])
        BY <4>3 DEF Insert
      <4> QED
        BY <4>1, <4>2, <4>3
    <3>3. CASE w.table = "boards" /\ s[n + 1].table = "columns"
      BY <2>2, <3>1, <3>2, <3>3 DEF LabelWrite
    <3>4. CASE ~(w.table = "boards" /\ s[n + 1].table = "columns")
      BY <2>2, <3>1, <3>4
    <3> QED
      BY <3>3, <3>4
  <2> QED
    BY <2>1, <2>3, <2>4
<1> HIDE DEF rest
<1>6. CASE raced'
  BY <1>6 DEF NamesGuarded
<1>7. CASE ~raced'
  <2>1. ~raced /\ (req'[r] # Idle /\ req'[r].at = "seed" =>
                     \A o \in Requests \ {r} : ~NameRequest(req[o]))
    BY <1>7 DEF Write
  <2>2. /\ NamesApart(db)
        /\ \A o, p \in Requests : NameRequest(req[o]) /\ NameRequest(req[p]) => o = p
        /\ \A o \in Requests : req[o].at = "seed" => req[o].names
        /\ \A o \in Requests : req[o].at = "write" => NamesFit(db, req[o].names, req[o].writes)
    BY <2>1 DEF NamesGuarded
  <2>3. NamesFit(db, q.names, s)
    BY <1>2, <2>2
  <2>4. /\ LabelWrite(w) =>
             /\ DOMAIN after.labels = DOMAIN db.labels \cup {i} /\ after.labels[i] = w.row
             /\ \A l \in DOMAIN db.labels : l # i => after.labels[l] = db.labels[l]
        /\ ~LabelWrite(w) => /\ DOMAIN after.labels \subseteq DOMAIN db.labels
                             /\ \A l \in DOMAIN after.labels : after.labels[l] = db.labels[l]
    BY <1>2, LabelsAfter DEF Agree
  <2> HIDE DEF after
  <2>5. LabelWrite(w) => /\ q.names
                         /\ \A l \in DOMAIN db.labels : db.labels[l] = w.row => l = i
    BY <1>2, <1>5, <2>3 DEF NamesFit
  <2>6. NamesApart(after)
    BY <2>2, <2>4, <2>5 DEF NamesApart
  <2>7. NamesApart(db')
    BY <1>3, <2>2, <2>6
  <2>8. /\ req'[r] = [q EXCEPT !.writes = rest] =>
             req'[r].at = "write" /\ req'[r].names = q.names /\ req'[r].writes = rest
        /\ req'[r] = [q EXCEPT !.at = "seed", !.user = i, !.names = TRUE] =>
             req'[r].at = "seed" /\ req'[r].names /\ req'[r] # Idle
    BY <1>2 DEF Idle
  <2>9. \A o, p \in Requests : NameRequest(req'[o]) /\ NameRequest(req'[p]) => o = p
    <3>1. NameRequest(req'[r]) => NameRequest(q) \/ \A o \in Requests \ {r} : ~NameRequest(req[o])
      BY <1>2, <1>4, <2>1, <2>8 DEF NameRequest
    <3> QED
      BY <1>3, <2>2, <3>1
  <2>10. \A o \in Requests : req'[o].at = "seed" => req'[o].names
    BY <1>3, <1>4, <2>2, <2>8 DEF Idle
  <2>11. ASSUME NEW o \in Requests \ {r}, req[o].at = "write"
         PROVE  NamesFit(db', req[o].names, req[o].writes)
    <3>1. NamesFit(db, req[o].names, req[o].writes)
      BY <2>2, <2>11
    <3>2. CASE LabelWrite(w)
      <4>1. ~NameRequest(req[o])
        BY <1>2, <2>2, <2>5, <3>2 DEF NameRequest
      <4>2. ~req[o].names
        BY <2>11, <4>1 DEF NameRequest, Idle
      <4> QED
        BY <3>1, <4>2 DEF NamesFit
    <3>3. CASE ~LabelWrite(w)
      <4>1. /\ DOMAIN db'.labels \subseteq DOMAIN db.labels
            /\ \A l \in DOMAIN db'.labels : db'.labels[l] = db.labels[l]
        BY <1>3, <2>4, <3>3
      <4> QED
        BY <3>1, <4>1 DEF NamesFit
    <3> QED
      BY <3>2, <3>3
  <2>12. NamesFit(after, q.names, rest)
    <3> SUFFICES ASSUME NEW n \in 1 .. Len(rest), LabelWrite(rest[n])
                 PROVE  /\ q.names
                        /\ \A l \in DOMAIN after.labels : after.labels[l] = rest[n].row
                              => rest[n].op # "insert" /\ l = rest[n].id
                        /\ \A k \in 1 .. Len(rest) :
                             LabelWrite(rest[k]) /\ k # n => rest[k].row # rest[n].row
      BY DEF NamesFit
    <3>1. n + 1 \in 1 .. Len(s) /\ rest[n] = s[n + 1] /\ LabelWrite(s[n + 1])
      BY <1>5
    <3>2. /\ q.names
          /\ \A l \in DOMAIN db.labels : db.labels[l] = s[n + 1].row
                                         => s[n + 1].op # "insert" /\ l = s[n + 1].id
          /\ \A k \in 1 .. Len(s) : LabelWrite(s[k]) /\ k # n + 1 => s[k].row # s[n + 1].row
      BY <2>3, <3>1 DEF NamesFit
    <3>3. ASSUME NEW l \in DOMAIN after.labels, after.labels[l] = rest[n].row
          PROVE  rest[n].op # "insert" /\ l = rest[n].id
      <4>1. LabelWrite(w) => w.row # s[n + 1].row
        BY <1>2, <1>5, <3>1, <3>2
      <4>2. l \in DOMAIN db.labels /\ db.labels[l] = s[n + 1].row
        BY <2>4, <3>1, <3>3, <4>1
      <4> QED
        BY <3>1, <3>2, <4>2
    <3>4. ASSUME NEW k \in 1 .. Len(rest), LabelWrite(rest[k]), k # n
          PROVE  rest[k].row # rest[n].row
      <4>1. k + 1 \in 1 .. Len(s) /\ rest[k] = s[k + 1] /\ LabelWrite(s[k + 1])
        BY <1>5, <3>4
      <4> QED
        BY <3>1, <3>2, <3>4, <4>1
    <3> QED
      BY <3>2, <3>3, <3>4
  <2>13. \A o \in Requests : req'[o].at = "write" => NamesFit(db', req'[o].names, req'[o].writes)
    BY <1>3, <1>4, <2>8, <2>11, <2>12 DEF Idle
  <2> QED
    BY <2>7, <2>9, <2>10, <2>13 DEF NamesGuarded, NameRequest
<1> QED
  BY <1>6, <1>7

-----------------------------------------------------------------------------
LEMMA NextInv == IInv /\ [Next]_vars => IInv'
<1> SUFFICES ASSUME NEW own, Agree(own), NamesGuarded, [Next]_vars
             PROVE  (\E more : Agree(more)') /\ NamesGuarded'
  BY DEF IInv
<1>1. CASE UNCHANGED vars
  BY <1>1 DEF vars, Agree, Claims, NamesGuarded, NameRequest
<1>2. ASSUME NEW r \in Requests, NEW u, Controllers(r, u)
      PROVE  Sent(own, r)
  BY <1>2, ProjectsSent, BoardsSent, CardsSent, LabelsSent, ChecklistsSent, TagsSent, NotesSent
     DEF Controllers
<1>6. ASSUME NEW r \in Requests, Accounts(r)
      PROVE  Sent(own, r)
  BY <1>6, AccountsSent DEF Accounts
<1>3. ASSUME NEW r \in Requests, Sent(own, r)
      PROVE  (\E more : Agree(more)') /\ NamesGuarded'
  BY <1>3, SentAgree, SentNames
<1>4. ASSUME NEW r \in Requests, SeedDefaultLabels(r)
      PROVE  Agree(own)' /\ NamesGuarded'
  BY <1>4, SeedAgree, SeedNames
<1>5. ASSUME NEW r \in Requests, Write(r)
      PROVE  (\E more : Agree(more)') /\ NamesGuarded'
  BY <1>5, WriteAgree, WriteNames
<1> QED
  BY <1>1, <1>2, <1>3, <1>4, <1>5, <1>6 DEF Next

-----------------------------------------------------------------------------
(* The database at the start. *)

OwnerIn(d, t, i) ==
  CASE t = "columns" -> d.boards[d.columns[i].board].user
    [] t = "cards"   -> d.boards[BoardOfCard(d, i)].user
    [] OTHER         -> d[t][i].user

LEMMA InitInv == Init => IInv
<1> SUFFICES ASSUME Init PROVE IInv
  OBVIOUS
<1> DEFINE d == Stored
<1>1. /\ db = d /\ used = [t \in Tables |-> DOMAIN d[t]] /\ req = [r \in Requests |-> Idle]
  BY DEF Init
<1>2. DOMAIN d = Tables /\ Cascaded(d) = d
  BY NestWorkspaceAssumption, StoredAssumption DEF Refused
<1>3. PICK own : own = UNION {{<< t, i, OwnerIn(d, t, i) >> : i \in DOMAIN d[t]} : t \in OwnedTables}
  OBVIOUS
<1>4. \A t, i, u : << t, i, u >> \in own
                   <=> t \in OwnedTables /\ i \in DOMAIN d[t] /\ u = OwnerIn(d, t, i)
  BY <1>3
<1>5. Claims(own)
  BY <1>1, <1>4, NestWorkspaceAssumption DEF Claims, OwnedTables, Tables
<1>8. Linked(d) /\ OneOwnerIn(d, {})
  BY <1>2, ClosedLinked, StoredAssumption
<1>9. \A i \in DOMAIN d.columns : << "columns", i, d.boards[d.columns[i].board].user >> \in own
  BY <1>4 DEF OwnerIn, OwnedTables
<1>10. \A i \in DOMAIN d.cards : << "cards", i, d.boards[BoardOfCard(d, i)].user >> \in own
  BY <1>4 DEF OwnerIn, OwnedTables
<1>11. \A t \in {"projects", "boards", "labels", "tags"} : \A i \in DOMAIN d[t] :
         << t, i, d[t][i].user >> \in own
  BY <1>4 DEF OwnerIn, OwnedTables
<1>12. ASSUME NEW t \in {"projects", "labels", "tags"}, NEW i \in DOMAIN d[t]
       PROVE  RowAgrees(own, t, i, d[t][i])
  <2>1. Refers(own, d[t][i].user, t, d[t][i])
    BY DEF Refers
  <2> QED
    BY <1>11, <2>1 DEF RowAgrees
<1>13. ASSUME NEW b \in DOMAIN d.boards
       PROVE  RowAgrees(own, "boards", b, d.boards[b])
  <2>1. /\ DOMAIN d.boards[b] = {"user", "project", "archived"}
        /\ LinkLive(d.boards[b].project, d.projects)
        /\ d.boards[b].project # None => d.projects[d.boards[b].project].user = d.boards[b].user
    BY <1>8, StoredAssumption DEF Linked, OneOwnerIn
  <2>2. d.boards[b].project # None => << "projects", d.boards[b].project, d.boards[b].user >> \in own
    BY <1>11, <2>1 DEF LinkLive
  <2>3. Refers(own, d.boards[b].user, "boards", d.boards[b])
    BY <2>1, <2>2 DEF Refers
  <2> QED
    BY <1>11, <2>3 DEF RowAgrees
<1>14. ASSUME NEW c \in DOMAIN d.columns
       PROVE  RowAgrees(own, "columns", c, d.columns[c])
  <2> DEFINE u == d.boards[d.columns[c].board].user
  <2>1. << "boards", d.columns[c].board, u >> \in own
    BY <1>8, <1>11 DEF Linked
  <2>2. << "columns", c, u >> \in own
    BY <1>9
  <2> HIDE DEF u
  <2>3. Refers(own, u, "columns", d.columns[c])
    BY <2>1 DEF Refers
  <2> QED
    BY <2>2, <2>3 DEF RowAgrees
<1>15. ASSUME NEW k \in DOMAIN d.cards
       PROVE  RowAgrees(own, "cards", k, d.cards[k])
  <2> DEFINE u == d.boards[BoardOfCard(d, k)].user
  <2>1. << "columns", d.cards[k].column, u >> \in own
    BY <1>8, <1>9 DEF Linked, BoardOfCard
  <2>2. << "cards", k, u >> \in own
    BY <1>10
  <2> HIDE DEF u
  <2>3. Refers(own, u, "cards", d.cards[k])
    BY <2>1 DEF Refers
  <2> QED
    BY <2>2, <2>3 DEF RowAgrees
<1>16. ASSUME NEW x \in DOMAIN d.cardLabels
       PROVE  RowAgrees(own, "cardLabels", x, d.cardLabels[x])
  <2> DEFINE u == d.labels[d.cardLabels[x].label].user
  <2>1. /\ d.cardLabels[x].card \in DOMAIN d.cards /\ d.cardLabels[x].label \in DOMAIN d.labels
        /\ d.boards[BoardOfCard(d, d.cardLabels[x].card)].user = u
    BY <1>8 DEF Linked, OneOwnerIn
  <2>2. << "cards", d.cardLabels[x].card, u >> \in own /\ << "labels", d.cardLabels[x].label, u >> \in own
    <3>1. << "labels", d.cardLabels[x].label, u >> \in own
      BY <1>11, <2>1
    <3>2. << "cards", d.cardLabels[x].card, d.boards[BoardOfCard(d, d.cardLabels[x].card)].user >> \in own
      BY <1>10, <2>1
    <3> QED
      BY <2>1, <3>1, <3>2
  <2> HIDE DEF u
  <2>3. Refers(own, u, "cardLabels", d.cardLabels[x])
    BY <2>2 DEF Refers
  <2> QED
    BY <2>3 DEF RowAgrees, OwnedTables
<1>17. ASSUME NEW n \in DOMAIN d.notes
       PROVE  RowAgrees(own, "notes", n, d.notes[n])
  <2> DEFINE note == d.notes[n]
             u == note.user
  <2>1. /\ LinkLive(note.board, d.boards) /\ LinkLive(note.project, d.projects)
        /\ LinkLive(note.card, d.cards) /\ note.tags \subseteq DOMAIN d.tags
        /\ NoteOf(d, note, u)
    BY <1>8 DEF Linked, OneOwnerIn
  <2>2. DOMAIN note = {"board", "project", "card", "user", "tags"}
    BY StoredAssumption
  <2>3. \A tag \in note.tags : << "tags", tag, u >> \in own
    <3>1. \A tag \in DOMAIN d.tags : << "tags", tag, d.tags[tag].user >> \in own
      BY <1>11
    <3> QED
      BY <2>1, <3>1 DEF NoteOf
  <2>4. /\ note.board # None => note.board \in DOMAIN d.boards /\ d.boards[note.board].user = u
        /\ note.project # None => note.project \in DOMAIN d.projects /\ d.projects[note.project].user = u
        /\ note.card # None => note.card \in DOMAIN d.cards /\ d.boards[BoardOfCard(d, note.card)].user = u
    BY <2>1 DEF NoteOf, LinkLive
  <2>5. note.board # None => << "boards", note.board, u >> \in own
    <3>1. \A b \in DOMAIN d.boards : << "boards", b, d.boards[b].user >> \in own
      BY <1>11
    <3> QED
      BY <2>4, <3>1
  <2>6. note.project # None => << "projects", note.project, u >> \in own
    <3>1. \A p \in DOMAIN d.projects : << "projects", p, d.projects[p].user >> \in own
      BY <1>11
    <3> QED
      BY <2>4, <3>1
  <2>7. note.card # None => << "cards", note.card, u >> \in own
    BY <1>10, <2>4
  <2>8. Refers(own, u, "notes", note)
    BY <2>2, <2>3, <2>5, <2>6, <2>7 DEF Refers
  <2> QED
    BY <2>8 DEF RowAgrees, OwnedTables
<1>18. ASSUME NEW t \in {"users", "checklists", "items"}, NEW i \in DOMAIN d[t]
       PROVE  RowAgrees(own, t, i, d[t][i])
  BY DEF RowAgrees, Refers, OwnedTables
<1>6. RowsAgree(own, d)
  BY <1>2, <1>12, <1>13, <1>14, <1>15, <1>16, <1>17, <1>18 DEF RowsAgree, Tables
<1>7. NamesGuarded
  BY <1>1, StoredAssumption DEF NamesGuarded, NameRequest, Idle
<1> QED
  BY <1>1, <1>2, <1>5, <1>6, <1>7 DEF IInv, Agree, RequestAgrees

(* Nothing but its owner's hangs on a card or a board, or on a note that   *)
(* no update was to link to something not its caller's: the checks of      *)
(* cards, notes and boards.service.ts hold until the save, though what     *)
(* they read may be gone by then, or saved again.                          *)
THEOREM OneOwnerAlways == Spec => []OneOwner
<1>1. IInv => OneOwner
  BY AgreeSafe DEF IInv
<1> QED
  BY <1>1, InitInv, NextInv, PTL DEF Spec

(* Every note that findAll of notes.service.ts lists, findById opens,      *)
(* unless an update was to link it to something not its caller's.          *)
THEOREM ListedNotesAlwaysOpen == Spec => []ListedNotesOpen
<1>1. IInv => ListedNotesOpen
  BY AgreeSafe DEF IInv, ListedNotesOpen, Listed, Owned
<1> QED
  BY <1>1, InitInv, NextInv, PTL DEF Spec

(* Without two overlapping requests on label names, the looks for a        *)
(* namesake in labels.service.ts keep the labels of a user apart.          *)
THEOREM NamesApartUnlessRaced == Spec => []NamesClashOnlyByRace
<1>1. IInv => NamesClashOnlyByRace
  BY DEF IInv, NamesGuarded, NamesClashOnlyByRace
<1> QED
  BY <1>1, InitInv, NextInv, PTL DEF Spec
=============================================================================
