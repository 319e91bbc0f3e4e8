------------------------------- MODULE Client -------------------------------
(***************************************************************************)
(* The frontend: the user is on one page at a time (the routes of App.tsx) *)
(* and the modules of the pages share nothing but the query client, of     *)
(* which each page uses keys of its own.  So a behaviour is one of a page, *)
(* chosen at the start, and the others stand still.                        *)
(***************************************************************************)
EXTENDS BoardPage, CardPanel, NotesPage, BoardForm, ProjectsPage, BoardsPage,
        ChecklistPanel, BoardView, ListView, SignIn

CONSTANT Pages

VARIABLE page

pageVars == << boardVars, panelVars, notesVars, formVars, projectsVars, boardsVars,
               checklistVars, viewVars, listViewVars, signVars >>

clientVars == << page, pageVars >>

(* The pages that are not visited stay in one of their first states. *)
Init ==
  /\ page \in Pages
  /\ BoardInit /\ PanelInit /\ NotesInit /\ FormInit /\ ProjectsInit
  /\ BoardsInit /\ ChecklistInit /\ ViewInit /\ ListInit /\ SignInit
  /\ page # "board" => hidden = {}
  /\ page # "card"  => stored.description = 0
  /\ page # "notes" => inEditor /\ view = "list"
  /\ page # "view"  => storedMode = "board"
  /\ page # "signin" => accounts = {}

On(p) == page = p /\ UNCHANGED page

Next ==
  \/ /\ On("board") /\ BoardNext
     /\ UNCHANGED << panelVars, notesVars, formVars, projectsVars,
                     boardsVars, checklistVars, viewVars, listViewVars, signVars >>
  \/ /\ On("card") /\ PanelNext
     /\ UNCHANGED << boardVars, notesVars, formVars, projectsVars,
                     boardsVars, checklistVars, viewVars, listViewVars, signVars >>
  \/ /\ On("notes") /\ NotesNext
     /\ UNCHANGED << boardVars, panelVars, formVars, projectsVars,
                     boardsVars, checklistVars, viewVars, listViewVars, signVars >>
  \/ /\ On("form") /\ FormNext
     /\ UNCHANGED << boardVars, panelVars, notesVars, projectsVars,
                     boardsVars, checklistVars, viewVars, listViewVars, signVars >>
  \/ /\ On("projects") /\ ProjectsNext
     /\ UNCHANGED << boardVars, panelVars, notesVars, formVars,
                     boardsVars, checklistVars, viewVars, listViewVars, signVars >>
  \/ /\ On("boards") /\ BoardsNext
     /\ UNCHANGED << boardVars, panelVars, notesVars, formVars,
                     projectsVars, checklistVars, viewVars, listViewVars, signVars >>
  \/ /\ On("checklist") /\ ChecklistNext
     /\ UNCHANGED << boardVars, panelVars, notesVars, formVars,
                     projectsVars, boardsVars, viewVars, listViewVars, signVars >>
  \/ /\ On("view") /\ ViewNext
     /\ UNCHANGED << boardVars, panelVars, notesVars, formVars,
                     projectsVars, boardsVars, checklistVars, listViewVars, signVars >>
  \/ /\ On("list") /\ ListNext
     /\ UNCHANGED << boardVars, panelVars, notesVars, formVars,
                     projectsVars, boardsVars, checklistVars, viewVars, signVars >>
  \/ /\ On("signin") /\ SignNext
     /\ UNCHANGED << boardVars, panelVars, notesVars, formVars, projectsVars, boardsVars,
                     checklistVars, viewVars, listViewVars >>

(* Requests are carried out and answered or fail, and timers fire: the     *)
(* browser sees to that (fetch has no timeout of its own, but a connection *)
(* ends).  Only the page the user is on asks for anything.  Nothing is     *)
(* assumed of the user.                                                    *)
Spec ==
  /\ Init /\ [][Next]_clientVars
  /\ WF_boardVars(page = "board" /\ Network) /\ WF_boardVars(page = "board" /\ ClearDrag)
  /\ WF_notesVars(page = "notes" /\ Clock)
  /\ WF_projectsVars(page = "projects" /\ ProjectsNetwork)
  /\ WF_boardsVars(page = "boards" /\ BoardsNetwork)
  /\ WF_checklistVars(page = "checklist" /\ ChecklistNetwork)
  /\ WF_viewVars(page = "view" /\ ViewNetwork)
  /\ WF_listViewVars(page = "list" /\ ListNetwork)
  /\ WF_signVars(page = "signin" /\ SignNetwork)
=============================================================================
