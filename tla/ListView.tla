------------------------------ MODULE ListView ------------------------------
(***************************************************************************)
(* The board as a flat list: titles are edited in their rows, one editor   *)
(* at a time, and cards are added in a dialog.  Enter and the blur that    *)
(* follows it both commit an edit, and React renders updateCard.isPending  *)
(* only some time after the first: titleCommitGuard covers that.           *)
(* Both writes go through mutations of which only the last call still has  *)
(* its callbacks (a useMutation observes one mutation at a time), and a    *)
(* success refetches the columns.                                          *)
(*                                                                         *)
(* A title is the number of the edit it was typed in, 0 before any.        *)
(***************************************************************************)
EXTENDS Integers, FiniteSets

CONSTANTS
  ListCards,       (* ids the server gives out                       *)
  NoCard,
  MaxEdits,        (* bound: title editors the user opens            *)
  MaxCreates,      (* bound: cards the user adds                     *)
  MaxListErrors    (* bound: requests, answers and fetches that fail *)

VARIABLES
  titles,       (* the cards in the database and their titles                   *)
  listRows,     (* the same in the query cache ['columns']                      *)
  rowsFetch,    (* the running fetch: [at, rows]                                    *)
  editingCard, editTitle, commitGuard,
  titleEdits,   (* editors opened so far                                        *)
  titleSaves,   (* the PATCHes under way: [edit, card, title, at]               *)
  shownSaving,  (* updateCard.isPending as rendered                             *)
  lastEdit,     (* the edit whose PATCH updateCard observes                     *)
  savedEdits, failedEdits, toldEdits,     (* history: edits by their outcome    *)
  addDialog,    (* showAddDialog with a title typed                             *)
  creates,      (* the POSTs under way: [id, at]                                *)
  added, shownCreating,
  listErrors,
  rowsBehind    (* history: a fetch or the answer of a write was lost           *)

editVars == << editingCard, editTitle, commitGuard, titleEdits, titleSaves, shownSaving, lastEdit,
               savedEdits, failedEdits, toldEdits >>
addVars  == << addDialog, creates, added, shownCreating >>
rowVars  == << titles, listRows, rowsFetch, rowsBehind >>
listViewVars == << editVars, addVars, rowVars, listErrors >>

NoRowsFetch == [at |-> "none"]
Errs == listErrors < MaxListErrors /\ listErrors' = listErrors + 1

(* invalidateQueries(['columns']): a running fetch is cancelled, a new one *)
(* starts.                                                                 *)
FetchRows == rowsFetch' = [at |-> "asked"] /\ rowsBehind' = FALSE

-----------------------------------------------------------------------------
(* Editing a title. *)

RenderSaving ==
  /\ shownSaving' = (titleSaves # {}) /\ shownSaving' # shownSaving
  /\ UNCHANGED << editingCard, editTitle, commitGuard, titleEdits, titleSaves, lastEdit,
                  savedEdits,
                  failedEdits, toldEdits, addVars, rowVars, listErrors >>

(* The user gets to another row only after React has rendered. *)
StartTitleEdit ==
  /\ ~addDialog /\ shownSaving = (titleSaves # {})
  /\ titleEdits < MaxEdits /\ titleEdits' = titleEdits + 1
  /\ \E c \in DOMAIN listRows \ {editingCard} :
       editingCard' = c /\ editTitle' = listRows[c]
  /\ commitGuard' = NoCard
  /\ UNCHANGED << titleSaves, shownSaving, lastEdit, savedEdits, failedEdits, toldEdits,
                  addVars, rowVars, listErrors >>

TypeTitle ==
  /\ editingCard # NoCard /\ editTitle # titleEdits
  /\ editTitle' = titleEdits
  /\ UNCHANGED << editingCard, commitGuard, titleEdits, titleSaves, shownSaving, lastEdit,
                  savedEdits,
                  failedEdits, toldEdits, addVars, rowVars, listErrors >>

(* The guard has let an edit through: an unchanged title closes the        *)
(* editor, another one is sent.                                            *)
Commits ==
  /\ commitGuard' = editingCard
  /\ IF editTitle = listRows[editingCard]
     THEN /\ editingCard' = NoCard
          /\ UNCHANGED << titleSaves, lastEdit >>
     ELSE /\ titleSaves' = titleSaves \cup
               {[edit |-> titleEdits, card |-> editingCard, title |-> editTitle, at |-> "sent"]}
          /\ lastEdit' = titleEdits
          /\ UNCHANGED editingCard
  /\ UNCHANGED << editTitle, titleEdits, shownSaving, savedEdits, failedEdits, toldEdits,
                  addVars, rowVars, listErrors >>

Editing == editingCard # NoCard /\ editingCard \in DOMAIN listRows

(* Mutant: isPending alone keeps the blur after Enter out. *)
CommitTitleEditUnguarded == Editing /\ ~shownSaving /\ Commits

(* Mutant: the guard alone, which the next editor resets. *)
CommitTitleEditOverlapping == Editing /\ commitGuard # editingCard /\ Commits

(* Enter and blur *)
CommitTitleEdit == Editing /\ commitGuard # editingCard /\ ~shownSaving /\ Commits

(* Escape *)
CancelTitleEdit ==
  /\ editingCard # NoCard
  /\ commitGuard' = editingCard /\ editingCard' = NoCard
  /\ UNCHANGED << editTitle, titleEdits, titleSaves, shownSaving, lastEdit, savedEdits,
                  failedEdits,
                  toldEdits, addVars, rowVars, listErrors >>

(* The server carries a PATCH out, and its answer arrives or is lost. *)
ServeTitle ==
  \E s \in titleSaves, lost \in BOOLEAN :
    /\ s.at = "sent"
    /\ titles' = [titles EXCEPT ![s.card] = s.title]
    /\ titleSaves' = (titleSaves \ {s}) \cup {[s EXCEPT !.at = IF lost THEN "failed" ELSE "ok"]}
    /\ IF lost THEN Errs /\ rowsBehind' = TRUE ELSE UNCHANGED << listErrors, rowsBehind >>
    /\ UNCHANGED << editingCard, editTitle, commitGuard, titleEdits, shownSaving, lastEdit,
                    savedEdits,
                    failedEdits, toldEdits, addVars, listRows, rowsFetch >>

RejectTitle ==
  \E s \in titleSaves :
    /\ s.at = "sent" /\ Errs
    /\ titleSaves' = (titleSaves \ {s}) \cup {[s EXCEPT !.at = "failed"]}
    /\ UNCHANGED << editingCard, editTitle, commitGuard, titleEdits, shownSaving, lastEdit,
                    savedEdits,
                    failedEdits, toldEdits, addVars, rowVars >>

(* Mutant: only the card itself is invalidated. *)
TitleSavedOnly ==
  \E s \in titleSaves :
    /\ s.at = "ok"
    /\ titleSaves' = titleSaves \ {s} /\ savedEdits' = savedEdits \cup {s.edit}
    /\ editingCard' = IF s.edit = lastEdit THEN NoCard ELSE editingCard
    /\ UNCHANGED << editTitle, commitGuard, titleEdits, shownSaving, lastEdit, failedEdits,
                    toldEdits,
                    addVars, rowVars, listErrors >>

(* useUpdateCard refetches; the caller's onSuccess closes whatever editor  *)
(* is open by now.                                                         *)
TitleSaved ==
  \E s \in titleSaves :
    /\ s.at = "ok"
    /\ titleSaves' = titleSaves \ {s} /\ savedEdits' = savedEdits \cup {s.edit}
    /\ editingCard' = IF s.edit = lastEdit THEN NoCard ELSE editingCard
    /\ FetchRows
    /\ UNCHANGED << editTitle, commitGuard, titleEdits, shownSaving, lastEdit, failedEdits,
                    toldEdits,
                    addVars, titles, listRows, listErrors >>

(* onError lets the edit be committed again and shows a toast. *)
TitleFailed ==
  \E s \in titleSaves :
    /\ s.at = "failed"
    /\ titleSaves' = titleSaves \ {s} /\ failedEdits' = failedEdits \cup {s.edit}
    /\ IF s.edit = lastEdit
       THEN commitGuard' = NoCard /\ toldEdits' = toldEdits \cup {s.edit}
       ELSE UNCHANGED << commitGuard, toldEdits >>
    /\ UNCHANGED << editingCard, editTitle, titleEdits, shownSaving, lastEdit, savedEdits,
                    addVars,
                    rowVars, listErrors >>

-----------------------------------------------------------------------------
(* Adding a card. *)

RenderCreating ==
  /\ shownCreating' = (creates # {}) /\ shownCreating' # shownCreating
  /\ UNCHANGED << addDialog, creates, added, editVars, rowVars, listErrors >>

OpenAddDialog ==
  /\ ~addDialog /\ added < MaxCreates
  /\ addDialog' = TRUE
  /\ UNCHANGED << creates, added, shownCreating, editVars, rowVars, listErrors >>

CloseAddDialog ==
  /\ addDialog /\ addDialog' = FALSE
  /\ UNCHANGED << creates, added, shownCreating, editVars, rowVars, listErrors >>

HandleCreate ==
  /\ addDialog /\ ~shownCreating
  /\ added < MaxCreates /\ added' = added + 1
  /\ creates' = creates \cup {[id |-> added', at |-> "sent"]}
  /\ UNCHANGED << addDialog, shownCreating, editVars, rowVars, listErrors >>

ServeCreate ==
  \E p \in creates, c \in ListCards \ DOMAIN titles, lost \in BOOLEAN :
    /\ p.at = "sent"
    /\ titles' = [d \in DOMAIN titles \cup {c} |-> IF d = c THEN 0 ELSE titles[d]]
    /\ creates' = (creates \ {p}) \cup {[p EXCEPT !.at = IF lost THEN "failed" ELSE "ok"]}
    /\ IF lost THEN Errs /\ rowsBehind' = TRUE ELSE UNCHANGED << listErrors, rowsBehind >>
    /\ UNCHANGED << addDialog, added, shownCreating, editVars, listRows, rowsFetch >>

RejectCreate ==
  \E p \in creates :
    /\ p.at = "sent" /\ Errs
    /\ creates' = (creates \ {p}) \cup {[p EXCEPT !.at = "failed"]}
    /\ UNCHANGED << addDialog, added, shownCreating, editVars, rowVars >>

(* The last call's success closes the dialog, or one opened since. *)
CardCreated ==
  \E p \in creates :
    /\ p.at = "ok"
    /\ creates' = creates \ {p}
    /\ addDialog' = (addDialog /\ p.id # added)
    /\ FetchRows
    /\ UNCHANGED << added, shownCreating, editVars, titles, listRows, listErrors >>

CreateFailed ==
  \E p \in creates :
    /\ p.at = "failed"
    /\ creates' = creates \ {p}
    /\ UNCHANGED << addDialog, added, shownCreating, editVars, rowVars, listErrors >>

-----------------------------------------------------------------------------
(* The columns query. *)

ReadRows ==
  /\ rowsFetch.at = "asked"
  /\ rowsFetch' = [at |-> "read", rows |-> titles]
  /\ UNCHANGED << titles, listRows, rowsBehind, editVars, addVars, listErrors >>

ShowRows ==
  /\ rowsFetch.at = "read"
  /\ listRows' = rowsFetch.rows /\ rowsFetch' = NoRowsFetch
  /\ UNCHANGED << titles, rowsBehind, editVars, addVars, listErrors >>

LoseRows ==
  /\ rowsFetch # NoRowsFetch /\ Errs
  /\ rowsFetch' = NoRowsFetch /\ rowsBehind' = TRUE
  /\ UNCHANGED << titles, listRows, editVars, addVars >>

-----------------------------------------------------------------------------
(* The page as it was loaded, with cards on it and room for more. *)
ListInit ==
  /\ \E cs \in SUBSET ListCards :
       /\ Cardinality(cs) = 2 /\ cs = {c \in ListCards : \A d \in ListCards \ cs : c < d}
       /\ titles = [c \in cs |-> 0]
  /\ listRows = titles /\ rowsFetch = NoRowsFetch /\ rowsBehind = FALSE
  /\ editingCard = NoCard /\ editTitle = 0 /\ commitGuard = NoCard
  /\ titleEdits = 0 /\ titleSaves = {} /\ shownSaving = FALSE /\ lastEdit = 0
  /\ savedEdits = {} /\ failedEdits = {} /\ toldEdits = {}
  /\ addDialog = FALSE /\ creates = {} /\ added = 0 /\ shownCreating = FALSE
  /\ listErrors = 0

ListNetwork ==
  \/ RenderSaving \/ ServeTitle \/ RejectTitle \/ TitleSaved \/ TitleFailed
  \/ RenderCreating \/ ServeCreate \/ RejectCreate \/ CardCreated \/ CreateFailed
  \/ ReadRows \/ ShowRows \/ LoseRows

ListNext ==
  \/ ListNetwork
  \/ StartTitleEdit \/ TypeTitle \/ CommitTitleEdit \/ CancelTitleEdit
  \/ OpenAddDialog \/ CloseAddDialog \/ HandleCreate

ListSpec == ListInit /\ [][ListNext]_listViewVars /\ WF_listViewVars(ListNetwork)

-----------------------------------------------------------------------------
(* Enter, the blur that follows it, a retry after an error and editors     *)
(* opened in between send an edit until it is saved, never twice at once   *)
(* and never again after that.                                             *)
OneSavePerEdit ==
  \A s \in titleSaves :
    /\ s.edit \notin savedEdits
    /\ \A t \in titleSaves : t.edit = s.edit => t = s

(* No failure of a save goes unnoticed because a later save took over the  *)
(* mutation and with it the callbacks.                                     *)
FailuresTold == failedEdits \subseteq toldEdits

(* The rows end up as the database has them, whatever saves, added cards   *)
(* and their refetches overlap, unless an answer or a fetch was lost.      *)
RowsConverge == <>[](listRows = titles \/ rowsBehind)
=============================================================================
