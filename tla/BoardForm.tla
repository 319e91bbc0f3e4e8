----------------------------- MODULE BoardForm -----------------------------
(***************************************************************************)
(* The dialog that creates a board, together with a new project if the     *)
(* user asks for one.  A submit is two requests in a row; between their    *)
(* answers, and before React renders what a click started, isPending says  *)
(* FALSE while the submit is still running: submittingRef covers that.     *)
(* The projects a dialog has created are remembered while it is open, so   *)
(* that a retry after a failed board takes the project it already has.     *)
(***************************************************************************)
EXTENDS Integers, FiniteSets, Sequences

CONSTANTS
  ProjectNames,
  MaxSubmits,      (* bound: submits of the user          *)
  MaxFormErrors,   (* bound: requests that fail           *)
  NoName           (* no new project: an existing or none *)

VARIABLES
  dialog,       (* open                                                        *)
  newProject,   (* the trimmed new project name, NoName when one is selected   *)
  submits,      (* the submits running: [step, project]                        *)
  submitting,   (* submittingRef.current                                       *)
  shownPending, (* isPending as rendered                                       *)
  created,      (* createdProjectsRef: the names it maps                       *)
  projects,     (* how many projects of each name the dialog made              *)
  boards,       (* how many boards it made                                     *)
  ended,        (* history: boards when the user dismissed the dialog, or -1   *)
  submitted, formErrors, answersLost

formVars == << dialog, newProject, submits, submitting, shownPending, created, projects, boards,
               ended, submitted, formErrors, answersLost >>

(* The three useMutation flags: a request of the form is under way. *)
InFlight(running) == \E s \in running : s.step \in {"project", "board"}

-----------------------------------------------------------------------------
(* What React renders, some time after the flags changed. *)
Render ==
  /\ shownPending # InFlight(submits)
  /\ shownPending' = InFlight(submits)
  /\ UNCHANGED << dialog, newProject, submits, submitting, created, projects, boards, ended,
                  submitted, formErrors, answersLost >>

TypeProject ==
  /\ dialog /\ ~shownPending
  /\ newProject' \in (ProjectNames \cup {NoName}) \ {newProject}
  /\ UNCHANGED << dialog, submits, submitting, shownPending, created, projects, boards, ended,
                  submitted, formErrors, answersLost >>

HandleSubmit ==
  /\ dialog /\ ~shownPending /\ ~submitting
  /\ submitted < MaxSubmits /\ submitted' = submitted + 1
  /\ submitting' = TRUE
  /\ submits' = submits \cup
       {[id |-> submitted + 1, project |-> newProject,
         step |-> IF newProject # NoName /\ newProject \notin created THEN "project" ELSE "board"]}
  /\ UNCHANGED << dialog, newProject, shownPending, created, projects, boards, ended, formErrors,
                  answersLost >>

Goes(s, step) == submits' = (submits \ {s}) \cup {[s EXCEPT !.step = step]}

(* Mutant: the project is not remembered. *)
ProjectCreatedForgotten ==
  \E s \in submits :
    /\ s.step = "project"
    /\ projects' = [projects EXCEPT ![s.project] = @ + 1]
    /\ Goes(s, "between")
    /\ UNCHANGED << dialog, newProject, submitting, shownPending, created, boards, ended,
                    submitted, formErrors, answersLost >>

(* The project's answer: its id is remembered under the name it was made   *)
(* with, whatever the field says by now.                                   *)
ProjectCreated ==
  \E s \in submits :
    /\ s.step = "project"
    /\ projects' = [projects EXCEPT ![s.project] = @ + 1]
    /\ created' = created \cup {s.project}
    /\ Goes(s, "between")
    /\ UNCHANGED << dialog, newProject, submitting, shownPending, boards, ended,
                    submitted, formErrors, answersLost >>

CreateBoard ==
  \E s \in submits :
    /\ s.step = "between"
    /\ Goes(s, "board")
    /\ UNCHANGED << dialog, newProject, submitting, shownPending, created, projects, boards,
                    ended, submitted, formErrors, answersLost >>

(* onClose() closes past the guard of handleOpenChange. *)
BoardCreated ==
  \E s \in submits :
    /\ s.step = "board"
    /\ boards' = boards + 1
    /\ dialog' = FALSE
    /\ submits' = submits \ {s} /\ submitting' = FALSE
    /\ UNCHANGED << newProject, shownPending, created, projects, ended, submitted, formErrors,
                    answersLost >>

(* Either request fails, or was carried out and its answer is lost. *)
SubmitFails ==
  \E s \in submits, lost \in BOOLEAN :
    /\ s.step \in {"project", "board"}
    /\ formErrors < MaxFormErrors /\ formErrors' = formErrors + 1
    /\ answersLost' = (answersLost \/ lost)
    /\ projects' = IF lost /\ s.step = "project" THEN [projects EXCEPT ![s.project] = @ + 1]
                   ELSE projects
    /\ boards' = IF lost /\ s.step = "board" THEN boards + 1 ELSE boards
    /\ submits' = submits \ {s} /\ submitting' = FALSE
    /\ UNCHANGED << dialog, newProject, shownPending, created, ended, submitted >>

(* Mutant: only what was rendered keeps the dialog open. *)
DismissUnlocked ==
  /\ dialog /\ ~shownPending
  /\ dialog' = FALSE /\ ended' = boards
  /\ UNCHANGED << newProject, submits, submitting, shownPending, created, projects, boards,
                  submitted, formErrors, answersLost >>

(* handleOpenChange, onEscapeKeyDown, onInteractOutside *)
Dismiss ==
  /\ dialog /\ ~submitting /\ ~shownPending
  /\ dialog' = FALSE /\ ended' = boards
  /\ UNCHANGED << newProject, submits, submitting, shownPending, created, projects, boards,
                  submitted, formErrors, answersLost >>

-----------------------------------------------------------------------------
FormInit ==
  /\ dialog = TRUE /\ newProject = NoName
  /\ submits = {} /\ submitting = FALSE /\ shownPending = FALSE
  /\ created = {} /\ projects = [n \in ProjectNames |-> 0] /\ boards = 0
  /\ ended = -1
  /\ submitted = 0 /\ formErrors = 0 /\ answersLost = FALSE

FormNext ==
  \/ Render \/ TypeProject \/ HandleSubmit \/ Dismiss
  \/ ProjectCreated \/ CreateBoard \/ BoardCreated \/ SubmitFails

FormSpec == FormInit /\ [][FormNext]_formVars

-----------------------------------------------------------------------------
(* However often a submit fails after the project was made, and however    *)
(* the name is changed in between, a dialog makes one project per name and *)
(* one board at most, unless an answer was lost on its way.                *)
OnePerDialog ==
  ~answersLost => boards <= 1 /\ \A n \in ProjectNames : projects[n] <= 1

(* A dialog the user dismissed makes nothing more behind the user's back,  *)
(* also in the moments in which no request is pending.                     *)
DismissedMeansNothing == ended # -1 => boards = ended /\ submits = {}
=============================================================================
