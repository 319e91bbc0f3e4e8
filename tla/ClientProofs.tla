---------------------------- MODULE ClientProofs ----------------------------
(***************************************************************************)
(* Five pages of the frontend proved by themselves, for any constants --   *)
(* the board dialog, the list view, the sign-in forms, the card panel and  *)
(* its checklists -- and then as pages of the client: a step of the client *)
(* is a step of one page and leaves the others alone, so what holds of a   *)
(* page holds of the client.                                               *)
(***************************************************************************)
EXTENDS Client, TLAPS, FiniteSetTheorems

-----------------------------------------------------------------------------
(***************************************************************************)
(* The board dialog, for any project names and however many submits and    *)
(* failures: one project per name, one board, and nothing once the user    *)
(* has dismissed it.                                                       *)
(***************************************************************************)

Running == [id : Nat, project : ProjectNames \cup {NoName}, step : {"project", "between", "board"}]

(* submittingRef is set exactly while a submit runs, so there is one at    *)
(* most, and it keeps the dialog open.                                     *)
OneSubmit ==
  /\ submits \subseteq Running
  /\ \A s, t \in submits : s = t
  /\ submitting = (submits # {})
  /\ submits # {} => dialog

(* The ref knows every project that was made and whose answer arrived.     *)
Remembered ==
  /\ projects \in [ProjectNames -> Nat]
  /\ \A s \in submits : s.step = "project" => s.project \in ProjectNames \ created
  /\ ~answersLost => \A n \in ProjectNames : projects[n] = IF n \in created THEN 1 ELSE 0

OneBoard ==
  /\ boards \in Nat
  /\ ~answersLost => boards <= 1 /\ (dialog => boards = 0)
  /\ dialog => ended = -1
  /\ ended # -1 => boards = ended

FormInv ==
  /\ newProject \in ProjectNames \cup {NoName}
  /\ submitted \in Nat
  /\ dialog \in BOOLEAN /\ submitting \in BOOLEAN /\ shownPending \in BOOLEAN
  /\ answersLost \in BOOLEAN
  /\ OneSubmit /\ Remembered /\ OneBoard

LEMMA FormInitInv == FormInit => FormInv
<1> SUFFICES ASSUME FormInit PROVE FormInv
  OBVIOUS
<1>1. OneSubmit
  BY DEF FormInit, OneSubmit
<1>2. Remembered
  BY DEF FormInit, Remembered
<1>3. OneBoard
  BY DEF FormInit, OneBoard
<1> QED
  BY <1>1, <1>2, <1>3 DEF FormInit, FormInv

LEMMA FormNextInv == FormInv /\ [FormNext]_formVars => FormInv'
<1> SUFFICES ASSUME FormInv, [FormNext]_formVars PROVE FormInv'
  OBVIOUS
<1> USE DEF FormInv, OneSubmit, Remembered, OneBoard
<1>1. CASE UNCHANGED formVars
  BY <1>1 DEF formVars
<1>2. CASE Render
  BY <1>2 DEF Render, InFlight
<1>3. CASE TypeProject
  BY <1>3 DEF TypeProject
<1>4. CASE HandleSubmit
  <2> DEFINE s == [id |-> submitted + 1, project |-> newProject,
                   step |-> IF newProject # NoName /\ newProject \notin created
                            THEN "project" ELSE "board"]
  <2>1. submits = {} /\ submits' = {s}
    BY <1>4 DEF HandleSubmit
  <2>2. s \in Running /\ (s.step = "project" => s.project \in ProjectNames \ created)
    BY <1>4 DEF HandleSubmit, Running
  <2> HIDE DEF s
  <2>3. OneSubmit' /\ Remembered'
    BY <1>4, <2>1, <2>2 DEF HandleSubmit
  <2>4. OneBoard'
    BY <1>4 DEF HandleSubmit
  <2> QED
    BY <1>4, <2>3, <2>4 DEF HandleSubmit
<1>5. CASE Dismiss
  BY <1>5 DEF Dismiss
<1>6. CASE ProjectCreated
  <2>1. PICK s \in submits :
          /\ s.step = "project"
          /\ projects' = [projects EXCEPT ![s.project] = @ + 1]
          /\ created' = created \cup {s.project}
          /\ Goes(s, "between")
          /\ UNCHANGED << dialog, newProject, submitting, shownPending, boards, ended,
                          submitted, formErrors, answersLost >>
    BY <1>6 DEF ProjectCreated
  <2>2. submits' = {[s EXCEPT !.step = "between"]}
    BY <2>1 DEF Goes
  <2>3. OneSubmit'
    BY <2>1, <2>2 DEF Running
  <2>4. Remembered'
    BY <2>1, <2>2 DEF Running
  <2> QED
    BY <2>1, <2>3, <2>4
<1>7. CASE CreateBoard
  <2>1. PICK s \in submits : s.step = "between" /\ Goes(s, "board")
    BY <1>7 DEF CreateBoard
  <2>2. submits' = {[s EXCEPT !.step = "board"]}
    BY <2>1 DEF Goes
  <2>3. OneSubmit' /\ Remembered'
    BY <1>7, <2>2 DEF CreateBoard, Running
  <2> QED
    BY <1>7, <2>3 DEF CreateBoard
<1>8. CASE BoardCreated
  <2>1. PICK s \in submits :
          /\ boards' = boards + 1 /\ dialog' = FALSE
          /\ submits' = submits \ {s} /\ submitting' = FALSE
          /\ UNCHANGED << newProject, shownPending, created, projects, ended, submitted,
                          answersLost >>
    BY <1>8 DEF BoardCreated
  <2>2. submits' = {}
    BY <2>1
  <2>3. OneSubmit' /\ Remembered'
    BY <2>1, <2>2
  <2>4. ended = -1 /\ OneBoard'
    BY <2>1
  <2> QED
    BY <2>1, <2>3, <2>4
<1>9. CASE SubmitFails
  <2>1. PICK s \in submits, lost \in BOOLEAN :
          /\ answersLost' = (answersLost \/ lost)
          /\ projects' = IF lost /\ s.step = "project"
                         THEN [projects EXCEPT ![s.project] = @ + 1] ELSE projects
          /\ boards' = IF lost /\ s.step = "board" THEN boards + 1 ELSE boards
          /\ submits' = submits \ {s} /\ submitting' = FALSE
          /\ UNCHANGED << dialog, newProject, shownPending, created, ended, submitted >>
    BY <1>9 DEF SubmitFails
  <2>2. submits' = {} /\ OneSubmit'
    BY <2>1
  <2>3. Remembered'
    <3>1. projects' \in [ProjectNames -> Nat]
      BY <2>1
    <3>2. ~answersLost' => projects' = projects /\ ~answersLost
      BY <2>1
    <3> QED
      BY <2>1, <2>2, <3>1, <3>2
  <2>4. ended = -1 /\ OneBoard'
    BY <2>1
  <2> QED
    BY <2>1, <2>2, <2>3, <2>4
<1> QED
  BY <1>1, <1>2, <1>3, <1>4, <1>5, <1>6, <1>7, <1>8, <1>9 DEF FormNext

LEMMA FormInductive == FormSpec => []FormInv
BY FormInitInv, FormNextInv, PTL DEF FormSpec

(* However often a submit fails after its project was made, the retry      *)
(* takes the project it has: one per name, and one board, per dialog.      *)
THEOREM DialogMakesOne == FormSpec => []OnePerDialog
<1>1. FormInv => OnePerDialog
  BY DEF FormInv, Remembered, OneBoard, OnePerDialog
<1> QED
  BY <1>1, FormInductive, PTL

(* A dialog that the user could dismiss has nothing under way.             *)
THEOREM NothingAfterDismiss == FormSpec => []DismissedMeansNothing
<1>1. FormInv => DismissedMeansNothing
  BY DEF FormInv, OneSubmit, OneBoard, DismissedMeansNothing
<1> QED
  BY <1>1, FormInductive, PTL

-----------------------------------------------------------------------------
(***************************************************************************)
(* Title edits of the list view, for any number of cards, edits and        *)
(* errors.  Two guards share the work: titleCommitGuard until React has    *)
(* rendered the save, isPending after that.  Together they let one save    *)
(* run at a time, which is why its callbacks are still the last call's.    *)
(***************************************************************************)

Save == [edit : Nat, card : ListCards, title : Nat, at : {"sent", "ok", "failed"}]

(* No second save starts beside a running one. *)
OneTitleSave ==
  /\ titleSaves \subseteq Save
  /\ \A s, t \in titleSaves : s = t
  /\ \A s \in titleSaves : s.edit = lastEdit
  /\ titleSaves # {} /\ ~shownSaving => editingCard = NoCard \/ commitGuard = editingCard

(* The edit of the open editor has not been saved, nor has what is under way. *)
NotSavedYet ==
  /\ savedEdits \subseteq 0 .. titleEdits
  /\ editingCard # NoCard => titleEdits \notin savedEdits
  /\ \A s \in titleSaves : s.edit <= titleEdits /\ s.edit \notin savedEdits

Editor == OneTitleSave /\ NotSavedYet /\ FailuresTold

(* A table of titles, of some of the cards. *)
IsTitles(rows) == DOMAIN rows \subseteq ListCards /\ \A c \in DOMAIN rows : rows[c] \in Nat

ListTyped ==
  /\ titleEdits \in Nat /\ editTitle \in Nat /\ lastEdit \in Nat
  /\ shownSaving \in BOOLEAN
  /\ IsTitles(titles) /\ IsTitles(listRows)
  /\ rowsFetch.at = "read" => IsTitles(rowsFetch.rows)

ListInv == ListTyped /\ Editor

-----------------------------------------------------------------------------
LEMMA ListInitInv == ListInit => ListInv
<1> SUFFICES ASSUME ListInit PROVE ListInv
  OBVIOUS
<1>1. PICK cs \in SUBSET ListCards : titles = [c \in cs |-> 0]
  BY DEF ListInit
<1>2. ListTyped
  BY <1>1 DEF ListInit, ListTyped, IsTitles, NoRowsFetch
<1>3. Editor
  BY DEF ListInit, Editor, OneTitleSave, NotSavedYet, FailuresTold
<1> QED
  BY <1>2, <1>3 DEF ListInv

(* Adding cards and fetching rows leave the editor alone. *)
LEMMA OtherSteps ==
  ASSUME ListInv, UNCHANGED editVars, ListTyped'
  PROVE  ListInv'
BY DEF ListInv, Editor, OneTitleSave, NotSavedYet, FailuresTold, editVars

LEMMA CommitInv ==
  ASSUME ListInv, CommitTitleEdit
  PROVE  ListInv'
<1> USE DEF ListInv, ListTyped, Editor
<1> DEFINE s == [edit |-> titleEdits, card |-> editingCard, title |-> editTitle, at |-> "sent"]
<1>1. /\ editingCard # NoCard /\ editingCard \in DOMAIN listRows
      /\ commitGuard # editingCard /\ ~shownSaving
      /\ commitGuard' = editingCard
      /\ \/ editingCard' = NoCard /\ UNCHANGED << titleSaves, lastEdit >>
         \/ titleSaves' = titleSaves \cup {s} /\ lastEdit' = titleEdits /\ UNCHANGED editingCard
      /\ UNCHANGED << editTitle, titleEdits, shownSaving, savedEdits, failedEdits, toldEdits,
                      titles, listRows, rowsFetch >>
  BY DEF CommitTitleEdit, Editing, Commits, addVars, rowVars
<1>2. titleSaves = {}
  BY <1>1 DEF OneTitleSave
<1>3. s \in Save
  BY <1>1 DEF Save, IsTitles
<1>4. s.edit = titleEdits
  OBVIOUS
<1> HIDE DEF s
<1>5. ListTyped'
  BY <1>1 DEF IsTitles
<1>6. OneTitleSave'
  BY <1>1, <1>2, <1>3, <1>4 DEF OneTitleSave
<1>7. NotSavedYet'
  BY <1>1, <1>2, <1>4 DEF NotSavedYet
<1>8. FailuresTold'
  BY <1>1 DEF FailuresTold
<1> QED
  BY <1>5, <1>6, <1>7, <1>8

(* A save goes from sent to one of its outcomes. *)
LEMMA OutcomeInv ==
  ASSUME ListInv, NEW s \in titleSaves, NEW at \in {"ok", "failed"},
         titleSaves' = (titleSaves \ {s}) \cup {[s EXCEPT !.at = at]},
         UNCHANGED << editingCard, editTitle, commitGuard, titleEdits, shownSaving, lastEdit,
                      savedEdits, failedEdits, toldEdits, listRows, rowsFetch >>,
         IsTitles(titles')
  PROVE  ListInv'
<1> USE DEF ListInv, ListTyped, Editor
<1> DEFINE t == [s EXCEPT !.at = at]
<1>1. titleSaves' = {t} /\ t \in Save /\ t.edit = s.edit
  BY DEF OneTitleSave, Save
<1> HIDE DEF t
<1>2. OneTitleSave'
  BY <1>1 DEF OneTitleSave
<1>3. NotSavedYet'
  BY <1>1 DEF NotSavedYet
<1>4. ListTyped' /\ FailuresTold'
  BY DEF FailuresTold, IsTitles
<1> QED
  BY <1>2, <1>3, <1>4

LEMMA ListNextInv == ListInv /\ [ListNext]_listViewVars => ListInv'
<1> SUFFICES ASSUME ListInv, [ListNext]_listViewVars PROVE ListInv'
  OBVIOUS
<1> USE DEF ListInv, ListTyped
<1>1. CASE UNCHANGED listViewVars
  BY <1>1, OtherSteps DEF listViewVars, rowVars, editVars
<1>2. CASE RenderSaving
  BY <1>2 DEF RenderSaving, Editor, OneTitleSave, NotSavedYet, FailuresTold, rowVars
<1>3. CASE StartTitleEdit
  <2>1. PICK c \in DOMAIN listRows : editingCard' = c /\ editTitle' = listRows[c]
    BY <1>3 DEF StartTitleEdit
  <2>2. ListTyped'
    BY <1>3, <2>1 DEF StartTitleEdit, IsTitles, rowVars
  <2>3. OneTitleSave'
    BY <1>3 DEF StartTitleEdit, Editor, OneTitleSave
  <2>4. /\ titleEdits' = titleEdits + 1
        /\ UNCHANGED << titleSaves, savedEdits, failedEdits, toldEdits >>
    BY <1>3 DEF StartTitleEdit
  <2>5. titleEdits' \notin savedEdits
    BY <2>4 DEF Editor, NotSavedYet
  <2>6. NotSavedYet'
    <3>1. savedEdits' \subseteq 0 .. titleEdits'
      BY <2>4 DEF Editor, NotSavedYet
    <3>2. \A s \in titleSaves' : s.edit <= titleEdits' /\ s.edit \notin savedEdits'
      BY <2>4 DEF Editor, OneTitleSave, NotSavedYet, Save
    <3> QED
      BY <2>4, <2>5, <3>1, <3>2 DEF NotSavedYet
  <2>7. FailuresTold'
    BY <2>4 DEF Editor, FailuresTold
  <2> QED
    BY <2>2, <2>3, <2>6, <2>7 DEF Editor
<1>4. CASE TypeTitle
  BY <1>4 DEF TypeTitle, Editor, OneTitleSave, NotSavedYet, FailuresTold, rowVars
<1>5. CASE CommitTitleEdit
  BY <1>5, CommitInv
<1>6. CASE CancelTitleEdit
  BY <1>6 DEF CancelTitleEdit, Editor, OneTitleSave, NotSavedYet, FailuresTold, rowVars
<1>7. CASE ServeTitle
  <2>1. PICK s \in titleSaves, lost \in BOOLEAN :
          /\ titles' = [titles EXCEPT ![s.card] = s.title]
          /\ titleSaves' = (titleSaves \ {s})
                              \cup {[s EXCEPT !.at = IF lost THEN "failed" ELSE "ok"]}
          /\ UNCHANGED << editingCard, editTitle, commitGuard, titleEdits, shownSaving,
                          lastEdit, savedEdits, failedEdits, toldEdits, listRows, rowsFetch >>
    BY <1>7 DEF ServeTitle
  <2>2. IsTitles(titles')
    BY <2>1 DEF IsTitles, Editor, OneTitleSave, Save
  <2> DEFINE at == IF lost THEN "failed" ELSE "ok"
  <2>3. at \in {"ok", "failed"} /\ titleSaves' = (titleSaves \ {s}) \cup {[s EXCEPT !.at = at]}
    BY <2>1
  <2> HIDE DEF at, ListInv, ListTyped
  <2> QED
    BY <2>1, <2>2, <2>3, OutcomeInv
<1>8. CASE RejectTitle
  <2>1. PICK s \in titleSaves :
          titleSaves' = (titleSaves \ {s}) \cup {[s EXCEPT !.at = "failed"]}
    BY <1>8 DEF RejectTitle
  <2>2. IsTitles(titles')
    BY <1>8 DEF RejectTitle, rowVars
  <2> QED
    BY <1>8, <2>1, <2>2, OutcomeInv DEF RejectTitle, rowVars
<1>9. CASE TitleSaved
  <2>1. PICK s \in titleSaves :
          /\ titleSaves' = titleSaves \ {s} /\ savedEdits' = savedEdits \cup {s.edit}
          /\ editingCard' = IF s.edit = lastEdit THEN NoCard ELSE editingCard
    BY <1>9 DEF TitleSaved
  <2>2. titleSaves' = {} /\ editingCard' = NoCard
    BY <2>1 DEF Editor, OneTitleSave
  <2>3. ListTyped'
    BY <1>9 DEF TitleSaved, FetchRows, IsTitles
  <2>4. OneTitleSave'
    BY <2>2 DEF OneTitleSave
  <2>5. NotSavedYet'
    <3>1. s.edit \in 0 .. titleEdits /\ UNCHANGED titleEdits
      BY <1>9 DEF TitleSaved, Editor, OneTitleSave, NotSavedYet, Save
    <3>2. savedEdits' \subseteq 0 .. titleEdits'
      BY <2>1, <3>1 DEF Editor, NotSavedYet
    <3> QED
      BY <2>2, <3>2 DEF NotSavedYet
  <2>6. FailuresTold'
    BY <1>9 DEF TitleSaved, Editor, FailuresTold
  <2> QED
    BY <2>3, <2>4, <2>5, <2>6 DEF Editor
<1>10. CASE TitleFailed
  <2>1. PICK s \in titleSaves :
          /\ titleSaves' = titleSaves \ {s} /\ failedEdits' = failedEdits \cup {s.edit}
          /\ IF s.edit = lastEdit
             THEN commitGuard' = NoCard /\ toldEdits' = toldEdits \cup {s.edit}
             ELSE UNCHANGED << commitGuard, toldEdits >>
    BY <1>10 DEF TitleFailed
  <2>2. titleSaves' = {} /\ toldEdits' = toldEdits \cup {s.edit}
    BY <2>1 DEF Editor, OneTitleSave
  <2>3. ListTyped'
    BY <1>10 DEF TitleFailed, rowVars, IsTitles
  <2>4. Editor'
    BY <1>10, <2>1, <2>2 DEF TitleFailed, Editor, OneTitleSave, NotSavedYet, FailuresTold
  <2> QED
    BY <2>3, <2>4
<1>11. CASE RenderCreating \/ OpenAddDialog \/ CloseAddDialog \/ HandleCreate \/ RejectCreate
            \/ CreateFailed
  BY <1>11, OtherSteps
     DEF RenderCreating, OpenAddDialog, CloseAddDialog, HandleCreate, RejectCreate,
         CreateFailed, rowVars, editVars
<1>12. CASE ServeCreate
  <2>1. PICK p \in creates, c \in ListCards \ DOMAIN titles :
          titles' = [d \in DOMAIN titles \cup {c} |-> IF d = c THEN 0 ELSE titles[d]]
    BY <1>12 DEF ServeCreate
  <2>2. IsTitles(titles')
    BY <2>1 DEF IsTitles
  <2> QED
    BY <1>12, <2>2, OtherSteps DEF ServeCreate, editVars
<1>13. CASE CardCreated
  BY <1>13, OtherSteps DEF CardCreated, FetchRows, editVars
<1>14. CASE ReadRows
  BY <1>14, OtherSteps DEF ReadRows, editVars
<1>15. CASE ShowRows \/ LoseRows
  BY <1>15, OtherSteps DEF ShowRows, LoseRows, NoRowsFetch, editVars
<1> QED
  BY <1>1, <1>2, <1>3, <1>4, <1>5, <1>6, <1>7, <1>8, <1>9, <1>10, <1>11, <1>12, <1>13, <1>14,
     <1>15 DEF ListNext, ListNetwork

LEMMA ListInductive == ListSpec => []ListInv
BY ListInitInv, ListNextInv, PTL DEF ListSpec

(* An edit is sent until it is saved, never twice at once and never again. *)
THEOREM SavedOnce == ListSpec => []OneSavePerEdit
<1>1. ListInv => OneSavePerEdit
  BY DEF ListInv, Editor, OneTitleSave, NotSavedYet, OneSavePerEdit
<1> QED
  BY <1>1, ListInductive, PTL

(* No failed save loses its callbacks to a later one. *)
THEOREM NoSilentFailure == ListSpec => []FailuresTold
<1>1. ListInv => FailuresTold
  BY DEF ListInv, Editor
<1> QED
  BY <1>1, ListInductive, PTL

-----------------------------------------------------------------------------
(***************************************************************************)
(* Signing in, for any accounts and however many submits, refetches and    *)
(* failures.  A registration leaves the query to a refetch, so what counts *)
(* is whose session the fetch it waits for has read.                       *)
(***************************************************************************)

Submitted == [op : {"login", "register", "logout"}, user : Accounts \cup {NoAccount},
              at : {"sent", "ok", "failed", "refetching", "over"}]

(* The cases the property leaves out. *)
Excused == staleMe \/ answerLost

(* One submit at a time; a form names an account, and only a registration  *)
(* waits for the query.                                                    *)
OneForm ==
  /\ auth \subseteq Submitted
  /\ \A r, s \in auth : r = s
  /\ \A r \in auth : r.op \in {"login", "register"} => r.user \in Accounts
  /\ \A r \in auth : r.at \in {"refetching", "over"} => r.op = "register"

(* What a fetch has read is the user of the session. *)
FetchTrue ==
  /\ meFetch.at = "asked" => meFetch # NoMeFetch
  /\ meFetch.at = "read" => meFetch.user = session \/ Excused

(* An accepted registration has the session until its form is done, and    *)
(* waits for a fetch until the page has its user.                          *)
FormTrue ==
  \A r \in auth :
    /\ r.op = "register" /\ r.at \in {"ok", "refetching"} => session = r.user \/ Excused
    /\ r.at = "over" => (me # NoAccount /\ ~mePending) \/ Excused

SignInv ==
  /\ staleMe \in BOOLEAN /\ answerLost \in BOOLEAN /\ mePending \in BOOLEAN
  /\ OneForm /\ FetchTrue /\ FormTrue /\ SignInLands

-----------------------------------------------------------------------------
LEMMA SignInitInv == SignInit => SignInv
<1> SUFFICES ASSUME SignInit PROVE SignInv
  OBVIOUS
<1>1. FetchTrue
  BY DEF SignInit, FetchTrue, NoMeFetch
<1>2. OneForm /\ FormTrue
  BY DEF SignInit, OneForm, FormTrue
<1> QED
  BY <1>1, <1>2 DEF SignInit, SignInv, SignInLands

(* The only submit, if any, stays or goes on. *)
LEMMA OneFormGoes ==
  ASSUME OneForm, NEW r \in auth,
         NEW at \in {"ok", "failed", "refetching", "over"},
         at \in {"refetching", "over"} => r.op = "register",
         AuthGoes(r, at)
  PROVE  /\ OneForm'
         /\ \A t \in auth' : t.at = at /\ t.op = r.op /\ t.user = r.user
<1> DEFINE t == [r EXCEPT !.at = at]
<1>1. auth' = {t}
  BY DEF AuthGoes, OneForm
<1>2. t \in Submitted /\ t.at = at /\ t.op = r.op /\ t.user = r.user
  BY DEF Submitted, OneForm
<1> HIDE DEF t
<1>3. OneForm'
  BY <1>1, <1>2 DEF OneForm
<1> QED
  BY <1>1, <1>2, <1>3

(* The fetch a registration may be waiting for has ended: the page has its *)
(* user, or the case is one of those left out.                             *)
LEMMA FetchOver ==
  ASSUME SignInv, AwaitOver, meFetch' = NoMeFetch, mePending' = FALSE,
         UNCHANGED << session, staleMe, landed >>,
         answerLost' \in BOOLEAN, answerLost => answerLost',
         me' # NoAccount \/ Excused'
           \/ (UNCHANGED me /\ session = NoAccount)
  PROVE  SignInv'
<1> USE DEF SignInv, Excused
<1>1. OneForm'
  BY DEF AwaitOver, OneForm, Submitted
<1>2. ASSUME NEW t \in auth'
      PROVE  /\ t.at # "refetching"
             /\ t.op = "register" /\ t.at = "ok" => session = t.user \/ Excused
             /\ t.at = "over" => me' # NoAccount \/ Excused'
  <2>1. PICK r \in auth : t = IF r.at = "refetching" THEN [r EXCEPT !.at = "over"] ELSE r
    BY DEF AwaitOver
  <2>2. CASE r.at = "refetching"
    <3>1. t.at = "over" /\ r.op = "register" /\ r.user \in Accounts
      BY <2>1, <2>2 DEF OneForm, Submitted
    <3>2. session = r.user \/ Excused
      BY <2>2, <3>1 DEF FormTrue
    <3> QED
      BY <3>1, <3>2, AccountsAssumption
  <2>3. CASE r.at # "refetching"
    BY <2>1, <2>3 DEF FormTrue
  <2> QED
    BY <2>2, <2>3
<1>3. FormTrue'
  BY <1>2 DEF FormTrue
<1>4. FetchTrue'
  BY DEF FetchTrue, NoMeFetch
<1>5. SignInLands'
  BY DEF SignInLands
<1> QED
  BY <1>1, <1>3, <1>4, <1>5

LEMMA SubmitInv ==
  ASSUME SignInv, NEW op \in {"login", "register", "logout"}, NEW u \in Accounts \cup {NoAccount},
         op \in {"login", "register"} => u \in Accounts, Submit(op, u)
  PROVE  SignInv'
<1> DEFINE t == [op |-> op, user |-> u, at |-> "sent"]
<1>1. auth' = {t} /\ t \in Submitted
  BY DEF Submit, Submitted
<1>2. t.at = "sent" /\ t.op = op /\ t.user = u
  OBVIOUS
<1> HIDE DEF t
<1>3. OneForm' /\ FormTrue'
  BY <1>1, <1>2 DEF OneForm, FormTrue
<1> QED
  BY <1>3 DEF SignInv, Submit, meVars, FetchTrue, SignInLands, Excused

LEMMA SignNextInv == SignInv /\ [SignNext]_signVars => SignInv'
<1> SUFFICES ASSUME SignInv, [SignNext]_signVars PROVE SignInv'
  OBVIOUS
<1> USE DEF SignInv
<1>1. CASE UNCHANGED signVars
  BY <1>1 DEF signVars, meVars, OneForm, FetchTrue, FormTrue, SignInLands, Excused
<1>2. CASE RefetchOnFocus \/ ServeMe
  BY <1>2 DEF RefetchOnFocus, ServeMe, OneForm, FetchTrue, FormTrue, SignInLands, Excused,
              NoMeFetch
<1>3. CASE ShowMe
  BY <1>3, FetchOver DEF ShowMe
<1>4. CASE RefuseMe
  BY <1>4, FetchOver DEF RefuseMe, FetchTrue, Excused
<1>5. CASE LoseMe
  BY <1>5, FetchOver DEF LoseMe, Excused
<1>6. CASE Login
  BY <1>6, SubmitInv DEF Login
<1>7. CASE Register
  BY <1>7, SubmitInv DEF Register
<1>8. CASE Logout
  BY <1>8, SubmitInv DEF Logout
<1>9. CASE ServeAuth
  <2>1. PICK r \in auth, lost \in BOOLEAN :
          /\ session' = r.user
          /\ AuthGoes(r, IF lost THEN "failed" ELSE "ok")
          /\ staleMe' = (staleMe \/ (meFetch.at = "read" /\ meFetch.user # session'))
          /\ answerLost' = (answerLost \/ lost)
          /\ UNCHANGED << landed, meVars >>
    BY <1>9 DEF ServeAuth
  <2> DEFINE at == IF lost THEN "failed" ELSE "ok"
  <2>2. at \in {"failed", "ok"}
    OBVIOUS
  <2>3. AuthGoes(r, at)
    BY <2>1
  <2> HIDE DEF at
  <2>4. OneForm' /\ \A t \in auth' : t.at \in {"failed", "ok"} /\ t.user = r.user
    BY <2>2, <2>3, OneFormGoes
  <2>5. FormTrue'
    BY <2>1, <2>4 DEF FormTrue
  <2>6. FetchTrue' /\ SignInLands' /\ staleMe' \in BOOLEAN /\ answerLost' \in BOOLEAN
    BY <2>1 DEF FetchTrue, SignInLands, Excused, meVars
  <2> QED
    BY <2>1, <2>4, <2>5, <2>6 DEF meVars
<1>10. CASE FailAuth
  <2>1. PICK r \in auth : AuthGoes(r, "failed")
    BY <1>10 DEF FailAuth
  <2>2. OneForm' /\ \A t \in auth' : t.at = "failed"
    BY <2>1, OneFormGoes
  <2>3. FormTrue'
    BY <2>2 DEF FormTrue
  <2> QED
    BY <1>10, <2>2, <2>3 DEF FailAuth, FetchTrue, SignInLands, Excused, meVars
<1>11. CASE AuthFailed
  BY <1>11 DEF AuthFailed, OneForm, FetchTrue, FormTrue, SignInLands, Excused, meVars
<1>12. CASE LoggedIn \/ LoggedOut
  <2>1. auth' = {}
    BY <1>12 DEF LoggedIn, LoggedOut, OneForm
  <2> QED
    BY <1>12, <2>1
       DEF LoggedIn, LoggedOut, WriteMe, OneForm, FetchTrue, FormTrue, SignInLands, Excused
<1>13. CASE Registered
  <2>1. PICK r \in auth : r.at = "ok" /\ r.op = "register" /\ AuthGoes(r, "refetching")
    BY <1>13 DEF Registered
  <2>2. OneForm' /\ \A t \in auth' : t.at = "refetching" /\ t.user = r.user
    BY <2>1, OneFormGoes
  <2>3. FormTrue'
    BY <1>13, <2>1, <2>2 DEF Registered, FormTrue, Excused
  <2>4. FetchTrue' /\ SignInLands'
    BY <1>13 DEF Registered, FetchTrue, SignInLands, Excused, NoMeFetch
  <2> QED
    BY <1>13, <2>2, <2>3, <2>4 DEF Registered
<1>14. CASE Landed
  <2>1. PICK r \in auth : r.at = "over" /\ auth' = auth \ {r} /\ landed' = Screen
    BY <1>14 DEF Landed
  <2>2. SignInLands'
    BY <1>14, <2>1 DEF Landed, FormTrue, Excused, Screen, SignInLands
  <2> QED
    BY <1>14, <2>1, <2>2 DEF Landed, OneForm, FetchTrue, FormTrue, Excused, meVars
<1>15. CASE Expire
  BY <1>15 DEF Expire, OneForm, FetchTrue, FormTrue, SignInLands, Excused, meVars
<1> QED
  BY <1>1, <1>2, <1>3, <1>4, <1>5, <1>6, <1>7, <1>8, <1>9, <1>10, <1>11, <1>12, <1>13, <1>14,
     <1>15 DEF SignNext, SignNetwork

LEMMA SignInductive == SignSpec => []SignInv
BY SignInitInv, SignNextInv, PTL DEF SignSpec

(* Whoever registers or signs in finds the application, and not the forms  *)
(* again, although the query is refetched and not written: with the        *)
(* exceptions that SignInLands names, for any number of accounts.          *)
THEOREM LandsInside == SignSpec => []SignInLands
<1>1. SignInv => SignInLands
  BY DEF SignInv
<1> QED
  BY <1>1, SignInductive, PTL

-----------------------------------------------------------------------------
(***************************************************************************)
(* The card panel, for any number of texts, saves and failures.            *)
(***************************************************************************)

(* The flag of a field is up while the save whose callbacks will run, the  *)
(* latest one, is of that field: so no such save is of the focused field.  *)
Heeded ==
  /\ saves \in Nat /\ listening = saves
  /\ \A p \in patches : p.field \in Fields \cup {"due"} /\ p.id \in 1 .. saves
  /\ \A p, q \in patches : p.id = q.id => p = q
  /\ \A p \in patches : Heard(p) => saving[p.field]

PanelInv ==
  /\ text = [f \in Fields |-> text[f]]
  /\ saving \in [Fields \cup {"due"} -> BOOLEAN]
  /\ focus \in Fields \cup {NoFocus} /\ edits \in Nat
  /\ Heeded
  /\ focus # NoFocus => ~ saving[focus]
  /\ typed => focus # NoFocus /\ dirty

LEMMA PanelInitInv == PanelInit => PanelInv
BY DEF PanelInit, PanelInv, Heeded, Fields, NoFocus

(* A save starts: its field's flag goes up, and it is the one listened to. *)
LEMMA PatchInv ==
  ASSUME PanelInv, NEW field \in Fields \cup {"due"}, NEW value, Patch(field, value)
  PROVE  /\ Heeded' /\ saving' \in [Fields \cup {"due"} -> BOOLEAN]
         /\ \A f \in Fields : f # field => saving'[f] = saving[f]
<1> DEFINE new == [field |-> field, text |-> value, id |-> saves + 1]
<1>1. /\ saves' = saves + 1 /\ patches' = patches \cup {new} /\ listening' = saves + 1
      /\ saving' = [saving EXCEPT ![field] = TRUE]
  BY DEF Patch
<1>2. new.field = field /\ new.id = saves + 1
  OBVIOUS
<1> HIDE DEF new
<1>3. saves \in Nat /\ \A p \in patches : p.id \in 1 .. saves
  BY DEF PanelInv, Heeded
<1>4. saving' \in [Fields \cup {"due"} -> BOOLEAN] /\ saving'[field]
      /\ \A f \in Fields : f # field => saving'[f] = saving[f]
  BY <1>1 DEF PanelInv
<1>5. \A p \in patches' : p.field \in Fields \cup {"due"} /\ p.id \in 1 .. saves'
  BY <1>1, <1>2, <1>3 DEF PanelInv, Heeded
<1>6. \A p \in patches : p.id # saves + 1
  BY <1>3
<1>7. \A p, q \in patches' : p.id = q.id => p = q
  BY <1>1, <1>2, <1>6 DEF PanelInv, Heeded
<1>8. \A p \in patches' : p.id = saves + 1 => p = new
  BY <1>1, <1>6
<1>9. \A p \in patches' : Heard(p)' => saving'[p.field]
  BY <1>1, <1>2, <1>4, <1>8 DEF Heard
<1> QED
  BY <1>1, <1>3, <1>4, <1>5, <1>7, <1>9 DEF Heeded

(* A save ends: only the flag of its own field can go down. *)
LEMMA SettledInv ==
  ASSUME PanelInv, NEW p \in patches, patches' = patches \ {p}, ClearFlags(p),
         UNCHANGED << saves, listening >>
  PROVE  /\ Heeded' /\ saving' \in [Fields \cup {"due"} -> BOOLEAN]
         /\ \A f \in Fields : saving'[f] => saving[f]
<1>1. p.field \in Fields \cup {"due"}
  BY DEF PanelInv, Heeded
<1>2. \A f \in Fields \cup {"due"} : saving'[f] = IF Heard(p) /\ f = p.field THEN FALSE ELSE saving[f]
  BY <1>1 DEF ClearFlags, PanelInv
<1>3. saving' \in [Fields \cup {"due"} -> BOOLEAN]
  BY <1>1 DEF ClearFlags, PanelInv
<1>4. \A q \in patches' : Heard(q)' => saving'[q.field]
  <2> SUFFICES ASSUME NEW q \in patches, q # p, q.id = listening
               PROVE  saving'[q.field]
    BY DEF Heard
  <2>1. saving[q.field] /\ q.field \in Fields \cup {"due"} /\ p.id # q.id
    BY DEF PanelInv, Heeded, Heard
  <2> QED
    BY <1>2, <2>1 DEF Heard
<1> QED
  BY <1>2, <1>3, <1>4 DEF Heeded, PanelInv

LEMMA PanelNextInv == PanelInv /\ [PanelNext]_panelVars => PanelInv'
<1> SUFFICES ASSUME PanelInv, [PanelNext]_panelVars
             PROVE  PanelInv'
  OBVIOUS
<1>1. CASE UNCHANGED panelVars
  BY <1>1 DEF panelVars, PanelInv, Heeded, Heard
<1>2. CASE Open
  BY <1>2 DEF Open, PanelInv, Heeded, Heard, Fields
<1>3. CASE Close
  BY <1>3 DEF Close, PanelInv, Heeded, Heard
<1>4. CASE FocusField
  BY <1>4 DEF FocusField, PanelInv, Heeded, Heard
<1>5. CASE Type
  BY <1>5 DEF Type, PanelInv, Heeded, Heard
<1>6. CASE Blur
  <2>1. text' = [f \in Fields |-> text'[f]]
    BY <1>6 DEF Blur, Blurred, PanelInv, Fields
  <2>2. Heeded' /\ saving' \in [Fields \cup {"due"} -> BOOLEAN]
    <3>1. CASE NoPatch
      BY <3>1 DEF NoPatch, PanelInv, Heeded, Heard
    <3>2. CASE Patch(focus, text[focus])
      BY <1>6, <3>2, PatchInv DEF Blur, PanelInv
    <3> QED
      BY <1>6, <3>1, <3>2 DEF Blur, Blurred
  <2> QED
    BY <1>6, <2>1, <2>2 DEF Blur, PanelInv
<1>7. CASE HandleDueDateChange
  <2>1. Heeded' /\ saving' \in [Fields \cup {"due"} -> BOOLEAN]
    BY <1>7, PatchInv DEF HandleDueDateChange
  <2> QED
    BY <1>7, <2>1 DEF HandleDueDateChange, PanelInv
<1>8. CASE PatchDone
  <2>1. PICK p \in patches : patches' = patches \ {p} /\ ClearFlags(p)
    BY <1>8 DEF PatchDone
  <2>2. UNCHANGED << saves, listening, text, dirty, focus, typed, edits >>
    BY <1>8 DEF PatchDone
  <2>3. /\ Heeded' /\ saving' \in [Fields \cup {"due"} -> BOOLEAN]
        /\ \A f \in Fields : saving'[f] => saving[f]
    BY <2>1, <2>2, SettledInv
  <2> QED
    BY <2>2, <2>3 DEF PanelInv
<1>9. CASE PatchFailed
  <2>1. PICK p \in patches :
          /\ patches' = patches \ {p} /\ ClearFlags(p)
          /\ text' = IF Heard(p) /\ p.field # "due"
                     THEN [text EXCEPT ![p.field] = Saved(p.field)] ELSE text
    BY <1>9 DEF PatchFailed
  <2>2. UNCHANGED << saves, listening, dirty, focus, typed, edits >>
    BY <1>9 DEF PatchFailed
  <2>3. /\ Heeded' /\ saving' \in [Fields \cup {"due"} -> BOOLEAN]
        /\ \A f \in Fields : saving'[f] => saving[f]
    BY <2>1, <2>2, SettledInv
  <2>4. text' = [f \in Fields |-> text'[f]]
    BY <2>1 DEF PanelInv
  <2> QED
    BY <2>2, <2>3, <2>4 DEF PanelInv
<1>10. CASE ShowTitle
  BY <1>10 DEF ShowTitle, PanelInv, Heeded, Heard, Fields
<1>11. CASE ShowDescription
  BY <1>11 DEF ShowDescription, PanelInv, Heeded, Heard, Fields
<1> QED
  BY <1>1, <1>2, <1>3, <1>4, <1>5, <1>6, <1>7, <1>8, <1>9, <1>10, <1>11 DEF PanelNext

(* No step but the user's own changes the text that is being typed. *)
LEMMA TypingStep ==
  ASSUME PanelInv, [PanelNext]_panelVars, typed, typed', edits' = edits
  PROVE  text'[focus] = text[focus]
<1>1. focus \in Fields /\ dirty /\ ~ saving[focus] /\ edits' = edits
  BY DEF PanelInv
<1>2. CASE UNCHANGED text
  BY <1>2
<1>3. CASE PatchFailed
  <2>1. PICK p \in patches :
          text' = IF Heard(p) /\ p.field # "due"
                  THEN [text EXCEPT ![p.field] = Saved(p.field)] ELSE text
    BY <1>3 DEF PatchFailed
  <2>2. Heard(p) => p.field # focus
    BY <1>1 DEF PanelInv, Heeded
  <2> QED
    BY <1>1, <2>1, <2>2 DEF PanelInv
<1>4. ~ Type
  <2>1. edits' # edits + 1
    BY DEF PanelInv
  <2> QED
    BY <2>1 DEF Type
<1>5. ~ Blur /\ ~ Close
  BY DEF Blur, Close
<1> QED
  BY <1>1, <1>2, <1>3, <1>4, <1>5
     DEF PanelNext, panelVars, Open, FocusField, HandleDueDateChange, PatchDone, ShowTitle,
         ShowDescription

LEMMA PanelInductive == PanelSpec => []PanelInv
BY PanelInitInv, PanelNextInv, PTL DEF PanelSpec

(* What is typed into a field is never replaced under the user's hands: no *)
(* answer, failed save or fetch touches the text of the field in focus     *)
(* (card-detail-panel.tsx).                                                *)
THEOREM TypingIsKept == PanelSpec => TypingNotClobbered
<1>1. PanelInv /\ [PanelNext]_panelVars
        => [typed /\ typed' /\ edits' = edits => text'[focus] = text[focus]]_panelVars
  BY TypingStep
<1> QED
  BY <1>1, PanelInductive, PTL DEF PanelSpec, TypingNotClobbered

-----------------------------------------------------------------------------
(***************************************************************************)
(* A checklist, for any items and however many changes and failures: an    *)
(* Undo that ends well has put the item back.                              *)
(***************************************************************************)

ItemRow == [text : Nat, done : BOOLEAN]

(* Rows as a table, a fetch or a snapshot has them: of ids handed out.     *)
UpTo(rows, last) ==
  /\ rows \in [Rows -> ItemRow]
  /\ \A i \in Rows : rows[i] # NoRow => i <= last

UserOps == {"tick", "text", "delete", "create", "title", "drop", "restore"}

Requests == [id : Nat, op : UserOps \cup {"retick"}, row : Rows, value : ItemRow,
             snapshot : [Rows -> ItemRow], at : {"sent", "ok", "lost", "failed"}]

Known(o) ==
  /\ o \in Requests
  /\ o.id <= opCount /\ o.row <= lastItem
  /\ UpTo(o.snapshot, lastItem)

(* An Undo between its first answer and its end, and what it has made of   *)
(* the item by then.                                                       *)
Undoing(o) == \/ o.op = "restore" /\ o.at = "ok"
              \/ o.op = "retick" /\ o.at \in {"sent", "ok"}

Back(o) == IF o.op = "retick" /\ o.at = "ok" THEN o.value ELSE NewItem(o.value)

(* Unless the user did something after it, no other request is about the   *)
(* new item: each names a row it saw, and the id was handed out later.     *)
Untouched(o) ==
  /\ o.row \in Items
  /\ \A p \in ops : p.row = o.row => p = o
  /\ storedRows[o.row] \in {Back(o), NoRow}

Kept(o) == Undoing(o) /\ ~ (opCount > o.id) => Untouched(o)

ItemsInv ==
  /\ lastItem \in Nat /\ opCount \in Nat
  /\ UpTo(storedRows, lastItem) /\ UpTo(listedRows, lastItem)
  /\ cardFetch.at = "read" => UpTo(cardFetch.rows, lastItem)
  /\ restorableItems \subseteq ItemRow
  /\ \A o \in ops : Known(o) /\ Kept(o)

LEMMA ItemsInitInv == ChecklistInit => ItemsInv
<1> SUFFICES ASSUME ChecklistInit PROVE ItemsInv
  OBVIOUS
<1>1. lastItem \in Nat /\ lastItem = Cardinality(FirstItems)
  BY FS_CardinalityType, ItemsAssumption DEF ChecklistInit
<1>2. \A i \in Rows : storedRows[i] = IF i \in FirstItems \cup {0}
                                      THEN [text |-> i + 1, done |-> i = 1] ELSE NoRow
  BY DEF ChecklistInit
<1>3. NoRow \in ItemRow /\ \A i \in Rows : i \in Nat
  BY ItemsAssumption DEF NoRow, ItemRow, Rows
<1>4. ASSUME NEW i \in Rows PROVE storedRows[i] \in ItemRow
  <2>1. [text |-> i + 1, done |-> i = 1] \in ItemRow
    BY <1>3 DEF ItemRow
  <2> QED
    BY <1>2, <1>3, <2>1
<1>5. storedRows \in [Rows -> ItemRow]
  BY <1>4 DEF ChecklistInit
<1>6. \A i \in Rows : storedRows[i] # NoRow => i <= lastItem
  <2>1. FirstItems = 1 .. lastItem
    BY <1>1, ItemsAssumption
  <2>2. lastItem \in Nat
    BY <1>1
  <2>3. \A i \in FirstItems \cup {0} : i <= lastItem
    BY ONLY <2>1, <2>2
  <2> QED
    BY <1>2, <2>3
<1>7. UpTo(storedRows, lastItem)
  BY <1>5, <1>6 DEF UpTo
<1> QED
  BY <1>1, <1>7 DEF ChecklistInit, ItemsInv, NoCardFetch

LEMMA NewRows ==
  /\ NoRow \in ItemRow
  /\ \A value \in ItemRow : /\ NewItem(value) \in ItemRow
                            /\ NewItem(value).text = value.text
                            /\ NewItem(value).done = FALSE
                            /\ value = [text |-> value.text, done |-> value.done]
BY DEF NoRow, ItemRow, NewItem

LEMMA RowsAreNumbers == \A i \in Rows : i \in Nat /\ (i # 0 => i \in Items)
BY ItemsAssumption DEF Rows

LEMMA PatchedRows ==
  ASSUME NEW last, NEW rows, UpTo(rows, last), NEW op, NEW i \in Rows, NEW value \in ItemRow
  PROVE  /\ UpTo(Patched(rows, op, i, value), last)
         /\ \A j \in Rows : j # i => Patched(rows, op, i, value)[j] = rows[j]
<1>1. rows[i] \in ItemRow
  BY DEF UpTo
<1>2. [rows[i] EXCEPT !.done = value.done] \in ItemRow
      /\ [rows[i] EXCEPT !.text = value.text] \in ItemRow
  BY <1>1 DEF ItemRow
<1> QED
  BY <1>1, <1>2 DEF UpTo, Patched

(* The user asks for something: of what the page shows. *)
LEMMA OrderedInv ==
  ASSUME ItemsInv, NEW op \in UserOps, NEW i \in Rows, i <= lastItem, NEW value \in ItemRow,
         Order(op, i, value), UNCHANGED << storedRows, lastItem >>
  PROVE  opCount' \in Nat /\ \A o \in ops' : Known(o)' /\ Kept(o)'
<1>1. PICK new : new = [id |-> opCount + 1, op |-> op, row |-> i, value |-> value,
                        snapshot |-> listedRows, at |-> "sent"]
  OBVIOUS
<1>2. opCount' = opCount + 1 /\ ops' = ops \cup {new} /\ opCount \in Nat
  BY <1>1 DEF Order, ItemsInv
<1>3. /\ new.id = opCount + 1 /\ new.op = op /\ new.row = i /\ new.value = value
      /\ new.snapshot = listedRows /\ new.at = "sent"
      /\ new \in Requests
  BY <1>1, <1>2 DEF Requests, UpTo, ItemsInv
<1>4. Known(new)'
  BY <1>2, <1>3 DEF Known, UpTo, Requests, ItemsInv
<1>5. Kept(new)'
  <2>1. ~ Undoing(new)
    BY <1>3 DEF Undoing, UserOps
  <2> QED
    BY <2>1 DEF Kept, Undoing
<1>6. ASSUME NEW o \in ops PROVE Known(o)' /\ Kept(o)'
  <2>1. Known(o) /\ o.id \in Nat
    BY DEF ItemsInv, Known, Requests
  <2>2. opCount' > o.id
    BY <1>2, <2>1 DEF Known
  <2>3. Known(o)'
    BY <1>2, <2>1, <2>2 DEF Known
  <2> QED
    BY <2>2, <2>3 DEF Kept
<1> QED
  BY <1>2, <1>4, <1>5, <1>6

(* A request is over, or goes on as another one about the same row. *)
LEMMA GoneInv ==
  ASSUME ItemsInv, ops' \subseteq ops, UNCHANGED << storedRows, lastItem, opCount >>
  PROVE  \A o \in ops' : Known(o)' /\ Kept(o)'
BY DEF ItemsInv, Known, Kept, Undoing, Untouched, Back, NewItem

(* What a request still says after its answer, and as the second half of   *)
(* an Undo.                                                                *)
LEMMA AnswerFields ==
  ASSUME NEW o \in Requests, NEW at \in {"ok", "lost", "failed"}, NEW row \in Rows
  PROVE  LET q == [o EXCEPT !.at = at, !.row = row]
         IN /\ q \in Requests
            /\ q.id = o.id /\ q.op = o.op /\ q.row = row /\ q.value = o.value
            /\ q.snapshot = o.snapshot /\ q.at = at
BY DEF Requests

LEMMA RetickFields ==
  ASSUME NEW o \in Requests
  PROVE  LET q == [o EXCEPT !.op = "retick", !.at = "sent"]
         IN /\ q \in Requests
            /\ q.id = o.id /\ q.op = "retick" /\ q.row = o.row /\ q.value = o.value
            /\ q.snapshot = o.snapshot /\ q.at = "sent"
BY DEF Requests

LEMMA ServeInv ==
  ASSUME ItemsInv, ServeOp
  PROVE  ItemsInv'
<1>1. PICK o \in ops, at \in {"ok", "lost"} :
        /\ o.at = "sent"
        /\ o.op \in {"create", "restore"} => lastItem + 1 \in Items
        /\ CarriedOut(o)
        /\ lastItem' = lastItem + (IF o.op \in {"create", "restore"} THEN 1 ELSE 0)
        /\ Answer(o, at, IF o.op = "restore" THEN lastItem + 1 ELSE o.row)
  BY DEF ServeOp
<1>2. UNCHANGED << listedRows, cardFetch, opCount, restorableItems >>
  BY DEF ServeOp
<1>3. Known(o) /\ Kept(o) /\ lastItem \in Nat
  BY DEF ItemsInv
<1>4. PICK row : row = IF o.op = "restore" THEN lastItem + 1 ELSE o.row
  OBVIOUS
<1> DEFINE q == [o EXCEPT !.at = at, !.row = row]
<1>5. ops' = (ops \ {o}) \cup {q}
  BY <1>1, <1>4 DEF Answer
<1>6. /\ lastItem' \in Nat /\ lastItem' >= lastItem
      /\ row \in Rows /\ row <= lastItem'
      /\ row = o.row \/ (o.op = "restore" /\ row = lastItem' /\ row = lastItem + 1)
  <2>1. o.row \in Rows /\ o.row \in Nat /\ o.row <= lastItem
    BY <1>3, RowsAreNumbers DEF Known, Requests
  <2>2. CASE o.op = "restore"
    BY <1>1, <1>3, <1>4, <2>1, <2>2 DEF Rows
  <2>3. CASE o.op # "restore"
    BY <1>1, <1>3, <1>4, <2>1, <2>3
  <2> QED
    BY <2>2, <2>3
<1>7. /\ q \in Requests
      /\ q.id = o.id /\ q.op = o.op /\ q.row = row /\ q.value = o.value
      /\ q.snapshot = o.snapshot /\ q.at = at
  <2>1. o \in Requests /\ at \in {"ok", "lost", "failed"} /\ row \in Rows
    BY <1>1, <1>3, <1>6 DEF Known
  <2> QED
    BY <2>1 DEF Requests
<1> HIDE DEF q
<1>8. \A rows : UpTo(rows, lastItem) => UpTo(rows, lastItem')
  BY <1>3, <1>6, RowsAreNumbers DEF UpTo
<1>9. UpTo(storedRows, lastItem) /\ o.row \in Rows /\ o.value \in ItemRow
      /\ o.op \in UserOps \cup {"retick"} /\ storedRows[o.row] # NoRow
  BY <1>1, <1>3 DEF ItemsInv, Known, Requests, CarriedOut
(* What it does to the table. *)
<1>10. /\ UpTo(storedRows, lastItem)'
       /\ \A j \in Rows : j # o.row /\ j <= lastItem => storedRows'[j] \in {storedRows[j], NoRow}
       /\ o.op = "restore" => storedRows'[lastItem + 1] = NewItem(o.value)
       /\ o.op = "retick" => storedRows' = Patched(storedRows, "tick", o.row, o.value)
  <2>1. CASE o.op \in {"create", "restore"}
    <3>1. storedRows' = [storedRows EXCEPT ![lastItem + 1] = NewItem(o.value)]
          /\ lastItem' = lastItem + 1 /\ lastItem + 1 \in Rows
      BY <1>1, <2>1 DEF CarriedOut, Rows
    <3>2. storedRows' \in [Rows -> ItemRow]
          /\ \A j \in Rows : j # lastItem + 1 => storedRows'[j] = storedRows[j]
      BY <1>9, <3>1, NewRows DEF UpTo
    <3>3. storedRows'[lastItem + 1] = NewItem(o.value)
      BY <1>9, <3>1, NewRows DEF UpTo
    <3>4. \A j \in Rows : storedRows'[j] # NoRow => j <= lastItem'
      BY <1>3, <1>9, <3>1, <3>2, <3>3, RowsAreNumbers DEF UpTo
    <3> QED
      <4>1. UpTo(storedRows, lastItem)'
        BY <3>2, <3>4 DEF UpTo
      <4>2. \A j \in Rows : j <= lastItem => j # lastItem + 1
        BY <1>3, RowsAreNumbers
      <4>3. \A j \in Rows : j <= lastItem => storedRows'[j] = storedRows[j]
        BY <3>2, <4>2
      <4>4. o.op # "retick"
        BY <2>1
      <4>5. \A j \in Rows : j # o.row /\ j <= lastItem => storedRows'[j] \in {storedRows[j], NoRow}
        BY <4>3
      <4>6. o.op = "restore" => storedRows'[lastItem + 1] = NewItem(o.value)
        BY <3>3, Zenon
      <4>7. o.op = "retick" => storedRows' = Patched(storedRows, "tick", o.row, o.value)
        BY <4>4
      <4> QED
        BY <4>1, <4>5, <4>6, <4>7
  <2>2. CASE o.op \in {"tick", "text", "title", "retick"}
    <3>1. storedRows' = Patched(storedRows, IF o.op = "retick" THEN "tick" ELSE o.op,
                                o.row, o.value)
      BY <1>1, <2>2 DEF CarriedOut
    <3>2. lastItem' = lastItem
      BY <1>1, <1>3, <2>2
    <3> QED
      BY <1>9, <2>2, <3>1, <3>2, PatchedRows
  <2>3. CASE o.op = "delete"
    <3>1. storedRows' = [storedRows EXCEPT ![o.row] = NoRow]
      BY <1>1, <2>3 DEF CarriedOut
    <3> QED
      BY <1>3, <1>6, <1>8, <1>9, <2>3, <3>1, NewRows DEF UpTo
  <2>4. CASE o.op = "drop"
    <3>1. storedRows' = [i \in Rows |-> NoRow]
      BY <1>1, <2>4 DEF CarriedOut
    <3> QED
      BY <2>4, <3>1, NewRows DEF UpTo
  <2> QED
    BY <1>9, <2>1, <2>2, <2>3, <2>4 DEF UserOps
<1>11. Known(q)'
  BY <1>2, <1>3, <1>6, <1>7, <1>8 DEF Known
<1>12. ASSUME NEW p \in ops PROVE Known(p)'
  <2>1. Known(p) /\ p.row \in Nat /\ p.row <= lastItem
    BY RowsAreNumbers DEF ItemsInv, Known, Requests
  <2>2. p.row <= lastItem'
    BY <1>3, <1>6, <2>1
  <2> QED
    BY <1>2, <1>8, <2>1, <2>2 DEF Known
<1>13. ASSUME NEW p \in ops \ {o}, Undoing(p), ~ (opCount > p.id)
       PROVE  Untouched(p)'
  <2>1. Known(p) /\ Untouched(p)
    BY <1>13 DEF ItemsInv, Kept
  <2>2. o.row # p.row /\ p.row \in Rows /\ p.row <= lastItem
    BY <1>3, <1>13, <2>1 DEF Untouched, Known, Requests
  <2>3. row # p.row
    BY <1>3, <1>6, <2>2, RowsAreNumbers
  <2>4. storedRows'[p.row] \in {storedRows[p.row], NoRow}
    BY <1>10, <2>2
  <2> QED
    BY <1>5, <1>7, <2>1, <2>3, <2>4 DEF Untouched, Back, NewItem
<1>14. ASSUME Undoing(q), ~ (opCount > q.id)
       PROVE  Untouched(q)'
  <2>1. CASE o.op = "restore"
    <3>1. row = lastItem + 1 /\ row \in Items
      BY <1>1, <1>4, <2>1
    <3>2. \A p \in ops : p.row # row
      BY <1>3, <3>1, RowsAreNumbers DEF ItemsInv, Known
    <3>3. storedRows'[row] = NewItem(o.value) /\ Back(q) = NewItem(o.value)
      BY <1>7, <1>10, <2>1, <3>1 DEF Back
    <3> QED
      <4>1. q.row = row /\ storedRows'[row] = Back(q)
        BY <1>7, <3>3
      <4>2. \A p \in ops' : p.row = row => p = q
        BY <1>5, <3>2
      <4>3. Back(q)' = Back(q)
        BY DEF Back, NewItem
      <4> QED
        BY <3>1, <4>1, <4>2, <4>3 DEF Untouched
  <2>2. CASE o.op = "retick"
    <3>1. at = "ok" /\ row = o.row /\ Untouched(o)
      BY <1>1, <1>3, <1>4, <1>7, <1>14, <2>2 DEF Undoing, Kept
    <3>2. Back(o) = NewItem(o.value) /\ Back(q) = o.value
      BY <1>1, <1>7, <2>2, <3>1 DEF Back
    <3>3. storedRows[o.row] = NewItem(o.value)
      BY <1>9, <3>1, <3>2 DEF Untouched
    <3>4. storedRows'[o.row] = [NewItem(o.value) EXCEPT !.done = o.value.done]
      BY <1>9, <1>10, <2>2, <3>3 DEF Patched, UpTo
    <3>5. storedRows'[o.row] = o.value
      BY <1>9, <3>4, NewRows DEF NewItem
    <3> QED
      <4>1. q.row = row /\ storedRows'[row] = Back(q)
        BY <1>7, <3>1, <3>2, <3>5
      <4>2. \A p \in ops' : p.row = row => p = q
        BY <1>5, <3>1 DEF Untouched
      <4>3. Back(q)' = Back(q)
        BY DEF Back, NewItem
      <4> QED
        BY <3>1, <4>1, <4>2, <4>3 DEF Untouched
  <2> QED
    BY <1>7, <1>14, <2>1, <2>2 DEF Undoing
<1>15. \A p \in ops' : Known(p)' /\ Kept(p)'
  <2>1. \A p : Undoing(p)' <=> Undoing(p)
    BY DEF Undoing
  <2>2. Kept(q)'
    BY <1>2, <1>14, <2>1 DEF Kept
  <2>3. \A p \in ops \ {o} : Kept(p)'
    BY <1>2, <1>13, <2>1 DEF Kept
  <2> QED
    BY <1>5, <1>11, <1>12, <2>2, <2>3
<1> QED
  BY <1>2, <1>6, <1>8, <1>10, <1>15 DEF ItemsInv

LEMMA FailInv ==
  ASSUME ItemsInv, FailOp
  PROVE  ItemsInv'
<1>1. PICK o \in ops : o.at = "sent" /\ Answer(o, "failed", o.row)
  BY DEF FailOp
<1>2. UNCHANGED << storedRows, lastItem, listedRows, cardFetch, opCount, restorableItems >>
  BY DEF FailOp
<1> DEFINE q == [o EXCEPT !.at = "failed", !.row = o.row]
<1>3. ops' = (ops \ {o}) \cup {q} /\ Known(o)
  BY <1>1 DEF Answer, ItemsInv
<1>4. /\ q \in Requests
      /\ q.id = o.id /\ q.op = o.op /\ q.row = o.row /\ q.value = o.value
      /\ q.snapshot = o.snapshot /\ q.at = "failed"
  BY <1>3, AnswerFields DEF Known, Requests
<1> HIDE DEF q
<1>5. Known(q)' /\ ~ Undoing(q)
  BY <1>2, <1>3, <1>4 DEF Known, Undoing
<1>6. ASSUME NEW p \in ops \ {o}
      PROVE  Known(p)' /\ Kept(p)'
  <2>1. Known(p) /\ Kept(p)
    BY DEF ItemsInv
  <2>2. Known(p)'
    BY <1>2, <2>1 DEF Known
  <2>3. ASSUME Untouched(p)
        PROVE  Untouched(p)'
    BY <1>2, <1>3, <1>4, <2>3 DEF Untouched, Back, NewItem
  <2> QED
    BY <1>2, <2>1, <2>2, <2>3 DEF Kept, Undoing
<1>7. \A p \in ops' : Known(p)' /\ Kept(p)'
  BY <1>3, <1>5, <1>6 DEF Kept, Undoing
<1> QED
  BY <1>2, <1>7 DEF ItemsInv

LEMMA RestoredInv ==
  ASSUME ItemsInv, ItemRestored
  PROVE  ItemsInv'
<1>1. PICK o \in ops :
        /\ o.op = "restore" /\ o.at = "ok"
        /\ IF o.value.done
           THEN ops' = (ops \ {o}) \cup {[o EXCEPT !.op = "retick", !.at = "sent"]}
                /\ UNCHANGED cardFetch
           ELSE ops' = ops \ {o} /\ InvalidateCard
  BY DEF ItemRestored
<1>2. UNCHANGED << storedRows, lastItem, listedRows, opCount, restorableItems >>
  BY DEF ItemRestored
<1>3. Known(o) /\ Kept(o)
  BY DEF ItemsInv
<1>4. CASE ~ o.value.done
  <2>1. \A p \in ops' : Known(p)' /\ Kept(p)'
    BY <1>1, <1>2, <1>4, GoneInv
  <2> QED
    BY <1>1, <1>2, <1>4, <2>1 DEF ItemsInv, InvalidateCard
<1>5. CASE o.value.done
  <2> DEFINE q == [o EXCEPT !.op = "retick", !.at = "sent"]
  <2>1. ops' = (ops \ {o}) \cup {q} /\ UNCHANGED cardFetch
    BY <1>1, <1>5
  <2>2. /\ q \in Requests
        /\ q.id = o.id /\ q.op = "retick" /\ q.row = o.row /\ q.value = o.value
        /\ q.snapshot = o.snapshot /\ q.at = "sent"
    BY <1>3, RetickFields DEF Known
  <2> HIDE DEF q
  <2>3. Known(q)'
    BY <1>2, <1>3, <2>2 DEF Known
  <2>4. ASSUME ~ (opCount > q.id)
        PROVE  Untouched(q)'
    <3>1. Untouched(o)
      BY <1>1, <1>3, <2>2, <2>4 DEF Kept, Undoing
    <3>2. Back(o) = NewItem(o.value) /\ Back(q) = NewItem(o.value)
      BY <1>1, <2>2 DEF Back
    <3> QED
      BY <1>2, <2>1, <2>2, <3>1, <3>2 DEF Untouched, Back, NewItem
  <2>5. ASSUME NEW p \in ops \ {o}
        PROVE  Known(p)' /\ Kept(p)'
    <3>1. Known(p) /\ Kept(p)
      BY DEF ItemsInv
    <3>2. Known(p)'
      BY <1>2, <3>1 DEF Known
    <3>3. ASSUME Untouched(p)
          PROVE  Untouched(p)'
      BY <1>2, <2>1, <2>2, <3>3 DEF Untouched, Back, NewItem
    <3> QED
      BY <1>2, <3>1, <3>2, <3>3 DEF Kept, Undoing
  <2>6. \A p \in ops' : Known(p)' /\ Kept(p)'
    BY <1>2, <2>1, <2>3, <2>4, <2>5 DEF Kept
  <2> QED
    BY <1>2, <2>1, <2>6 DEF ItemsInv
<1> QED
  BY <1>4, <1>5

LEMMA UserInv ==
  ASSUME ItemsInv,
         \/ HandleToggle \/ HandleTextSave \/ HandleItemDelete \/ HandleItemSubmit
         \/ HandleTitleSave \/ HandleChecklistDelete \/ UndoItemDelete
  PROVE  ItemsInv'
<1>1. /\ listedRows \in [Rows -> ItemRow] /\ opCount \in Nat /\ lastItem \in Nat
      /\ \A i \in Present(listedRows) : i \in Rows /\ i <= lastItem /\ listedRows[i] \in ItemRow
      /\ 0 \in Rows /\ 0 <= lastItem
  BY DEF ItemsInv, UpTo, Present, Rows
<1>2. ASSUME NEW op \in UserOps, NEW i \in Rows, i <= lastItem, NEW value \in ItemRow,
             UpdateShownItem(op, i, value),
             UNCHANGED << storedRows, lastItem, restorableItems >>
      PROVE  ItemsInv'
  <2>1. opCount' \in Nat /\ \A o \in ops' : Known(o)' /\ Kept(o)'
    BY <1>2, OrderedInv DEF UpdateShownItem
  <2>2. UpTo(listedRows, lastItem)'
    BY <1>2, PatchedRows DEF UpdateShownItem, ItemsInv
  <2> QED
    BY <1>2, <2>1, <2>2 DEF ItemsInv, UpdateShownItem, NoCardFetch
<1>3. ASSUME NEW op \in UserOps, NEW i \in Rows, i <= lastItem, NEW value \in ItemRow,
             Order(op, i, value), UNCHANGED << storedRows, lastItem, listedRows, cardFetch >>,
             restorableItems' \subseteq restorableItems
      PROVE  ItemsInv'
  <2>1. opCount' \in Nat /\ \A o \in ops' : Known(o)' /\ Kept(o)'
    BY <1>3, OrderedInv
  <2> QED
    BY <1>3, <2>1 DEF ItemsInv
<1>4. [text |-> opCount + 10, done |-> FALSE] \in ItemRow /\ NoRow \in ItemRow
  BY <1>1 DEF ItemRow, NoRow
<1>5. CASE HandleToggle
  <2>1. PICK i \in Present(listedRows) :
          UpdateShownItem("tick", i, [listedRows[i] EXCEPT !.done = ~@])
    BY <1>5 DEF HandleToggle
  <2>2. [listedRows[i] EXCEPT !.done = ~@] \in ItemRow
    BY <1>1 DEF ItemRow
  <2> QED
    BY <1>1, <1>2, <1>5, <2>1, <2>2 DEF HandleToggle, UserOps
<1>6. CASE HandleTextSave
  <2>1. PICK i \in Present(listedRows) :
          UpdateShownItem("text", i, [listedRows[i] EXCEPT !.text = opCount + 10])
    BY <1>6 DEF HandleTextSave
  <2>2. [listedRows[i] EXCEPT !.text = opCount + 10] \in ItemRow
    BY <1>1 DEF ItemRow
  <2> QED
    BY <1>1, <1>2, <1>6, <2>1, <2>2 DEF HandleTextSave, UserOps
<1>7. CASE HandleItemDelete
  BY <1>1, <1>3, <1>7 DEF HandleItemDelete, UserOps
<1>8. CASE HandleItemSubmit
  BY <1>1, <1>3, <1>4, <1>8 DEF HandleItemSubmit, UserOps
<1>9. CASE HandleTitleSave
  BY <1>1, <1>3, <1>4, <1>9 DEF HandleTitleSave, UserOps
<1>10. CASE HandleChecklistDelete
  BY <1>1, <1>3, <1>4, <1>10 DEF HandleChecklistDelete, UserOps
<1>11. CASE UndoItemDelete
  <2>1. PICK value \in restorableItems :
          Order("restore", 0, value) /\ restorableItems' = restorableItems \ {value}
    BY <1>11 DEF UndoItemDelete
  <2>2. value \in ItemRow
    BY DEF ItemsInv
  <2> QED
    BY <1>1, <1>3, <1>11, <2>1, <2>2 DEF UndoItemDelete, UserOps
<1> QED
  BY <1>5, <1>6, <1>7, <1>8, <1>9, <1>10, <1>11

LEMMA ItemsNextInv == ItemsInv /\ [ChecklistNext]_checklistVars => ItemsInv'
<1> SUFFICES ASSUME ItemsInv, [ChecklistNext]_checklistVars
             PROVE  ItemsInv'
  OBVIOUS
<1>1. CASE UNCHANGED checklistVars
  <2>1. \A o \in ops' : Known(o)' /\ Kept(o)'
    BY <1>1, GoneInv DEF checklistVars
  <2> QED
    BY <1>1, <2>1 DEF checklistVars, ItemsInv
<1>2. CASE UpdateSettled
  <2>1. PICK o \in ops : /\ ops' = ops \ {o} /\ InvalidateCard
                         /\ listedRows' = IF o.at = "ok" THEN listedRows ELSE o.snapshot
    BY <1>2 DEF UpdateSettled
  <2>2. UpTo(o.snapshot, lastItem)
    BY DEF ItemsInv, Known
  <2>3. \A p \in ops' : Known(p)' /\ Kept(p)'
    BY <1>2, <2>1, GoneInv DEF UpdateSettled
  <2> QED
    BY <1>2, <2>1, <2>2, <2>3 DEF UpdateSettled, ItemsInv, InvalidateCard
<1>3. CASE ChangeDone
  <2>1. PICK o \in ops :
          /\ ops' = ops \ {o} /\ InvalidateCard
          /\ restorableItems' \in {restorableItems, restorableItems \cup {o.value}}
    BY <1>3 DEF ChangeDone
  <2>2. o.value \in ItemRow
    BY DEF ItemsInv, Known, Requests
  <2>3. \A p \in ops' : Known(p)' /\ Kept(p)'
    BY <1>3, <2>1, GoneInv DEF ChangeDone
  <2> QED
    BY <1>3, <2>1, <2>2, <2>3 DEF ChangeDone, ItemsInv, InvalidateCard
<1>4. CASE ItemReticked \/ ChangeRejected
  <2>1. \A p \in ops' : Known(p)' /\ Kept(p)'
    BY <1>4, GoneInv DEF ItemReticked, ChangeRejected
  <2> QED
    BY <1>4, <2>1 DEF ItemReticked, ChangeRejected, ItemsInv, InvalidateCard
<1>5. CASE FetchCard \/ ShowCard \/ LoseCard
  <2>1. \A p \in ops' : Known(p)' /\ Kept(p)'
    BY <1>5, GoneInv DEF FetchCard, ShowCard, LoseCard
  <2> QED
    BY <1>5, <2>1 DEF FetchCard, ShowCard, LoseCard, ItemsInv, NoCardFetch
<1> QED
  BY <1>1, <1>2, <1>3, <1>4, <1>5, ServeInv, FailInv, RestoredInv, UserInv
     DEF ChecklistNext, ChecklistNetwork

LEMMA UndoStep ==
  ASSUME ItemsInv, [ChecklistNext]_checklistVars, NEW o \in ops \ ops',
         o.op \in {"restore", "retick"}, o.at = "ok",
         [o EXCEPT !.op = "retick", !.at = "sent"] \notin ops'
  PROVE  storedRows[o.row] = o.value \/ storedRows[o.row] = NoRow \/ opCount > o.id
<1>1. Known(o) /\ (~ (opCount > o.id) => storedRows[o.row] \in {Back(o), NoRow})
  BY DEF ItemsInv, Kept, Undoing, Untouched
<1>2. CASE o.op = "retick"
  BY <1>1, <1>2 DEF Back
<1>3. CASE o.op = "restore"
  <2>1. ItemRestored
    <3>1. ~ (ops \subseteq ops')
      OBVIOUS
    <3>2. /\ ~ UpdateSettled /\ ~ ChangeDone /\ ~ ItemReticked /\ ~ ChangeRejected
      BY <1>3 DEF UpdateSettled, ChangeDone, ItemReticked, ChangeRejected
    <3>3. ~ ServeOp /\ ~ FailOp
      BY DEF ServeOp, FailOp, Answer
    <3> QED
      BY <3>1, <3>2, <3>3
         DEF ChecklistNext, ChecklistNetwork, checklistVars, FetchCard, ShowCard, LoseCard,
             HandleToggle, HandleTextSave, HandleItemDelete, HandleItemSubmit, HandleTitleSave,
             HandleChecklistDelete, UndoItemDelete, UpdateShownItem, Order
  <2>2. ~ o.value.done
    BY <2>1 DEF ItemRestored
  <2>3. NewItem(o.value) = o.value
    BY <1>1, <2>2 DEF Known, Requests, ItemRow, NewItem
  <2> QED
    BY <1>1, <1>3, <2>3 DEF Back
<1> QED
  BY <1>2, <1>3

(* An Undo of a deleted item that ends without an error has put back the   *)
(* item as it was, ticked if it was ticked (checklist-item.tsx), unless    *)
(* the user has done something since.                                      *)
THEOREM ItemsComeBack == ChecklistSpec => UndoRestoresItem
<1>1. ItemsInv /\ [ChecklistNext]_checklistVars
        => [\A o \in ops \ ops' :
              /\ o.op \in {"restore", "retick"} /\ o.at = "ok"
              /\ [o EXCEPT !.op = "retick", !.at = "sent"] \notin ops'
              => \/ storedRows[o.row] = o.value
                 \/ storedRows[o.row] = NoRow
                 \/ opCount > o.id]_checklistVars
  BY UndoStep
<1> QED
  BY <1>1, ItemsInitInv, ItemsNextInv, PTL DEF ChecklistSpec, UndoRestoresItem

-----------------------------------------------------------------------------
(* The client. *)

PagesInv == FormInv /\ ListInv /\ SignInv /\ PanelInv /\ ItemsInv

LEMMA PagesInit == Init => PagesInv
BY FormInitInv, ListInitInv, SignInitInv, PanelInitInv, ItemsInitInv DEF Init, PagesInv

LEMMA StepOfAPage ==
  [Next]_clientVars => /\ [FormNext]_formVars /\ [ListNext]_listViewVars /\ [SignNext]_signVars
                       /\ [PanelNext]_panelVars /\ [ChecklistNext]_checklistVars
BY DEF Next, clientVars, pageVars

LEMMA PagesNext == PagesInv /\ [Next]_clientVars => PagesInv'
BY StepOfAPage, FormNextInv, ListNextInv, SignNextInv, PanelNextInv, ItemsNextInv DEF PagesInv

(* One project per name and one board from a dialog and nothing after it   *)
(* was dismissed (board-form-modal.tsx); one save per edit and no failure  *)
(* untold (board-list-view.tsx); nobody is sent back to the forms who has  *)
(* just signed in (register-page.tsx, login-page.tsx), with the exceptions *)
(* SignInLands names.                                                      *)
THEOREM PagesKeepTheirWord ==
  Spec => [](/\ OnePerDialog /\ DismissedMeansNothing
             /\ OneSavePerEdit /\ FailuresTold
             /\ SignInLands)
<1>1. FormInv => OnePerDialog /\ DismissedMeansNothing
  BY DEF FormInv, OneSubmit, Remembered, OneBoard, OnePerDialog, DismissedMeansNothing
<1>2. ListInv => OneSavePerEdit /\ FailuresTold
  BY DEF ListInv, Editor, OneTitleSave, NotSavedYet, OneSavePerEdit
<1>3. SignInv => SignInLands
  BY DEF SignInv
<1> QED
  BY PagesInit, PagesNext, <1>1, <1>2, <1>3, PTL DEF Spec, PagesInv

(* And of the client as a whole: typing is kept and items come back.       *)
THEOREM PagesDoAsTold == Spec => TypingNotClobbered /\ UndoRestoresItem
<1>1. PanelInv /\ [PanelNext]_panelVars
        => [typed /\ typed' /\ edits' = edits => text'[focus] = text[focus]]_panelVars
  BY TypingStep
<1>2. ItemsInv /\ [ChecklistNext]_checklistVars
        => [\A o \in ops \ ops' :
              /\ o.op \in {"restore", "retick"} /\ o.at = "ok"
              /\ [o EXCEPT !.op = "retick", !.at = "sent"] \notin ops'
              => \/ storedRows[o.row] = o.value
                 \/ storedRows[o.row] = NoRow
                 \/ opCount > o.id]_checklistVars
  BY UndoStep
<1>3. PagesInv => PanelInv /\ ItemsInv
  BY DEF PagesInv
<1> QED
  BY PagesInit, PagesNext, StepOfAPage, <1>1, <1>2, <1>3, PTL
     DEF Spec, TypingNotClobbered, UndoRestoresItem
=============================================================================
