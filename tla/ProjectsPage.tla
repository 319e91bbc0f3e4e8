---------------------------- MODULE ProjectsPage ----------------------------
(***************************************************************************)
(* The list of projects: rename in place, create, delete with Undo.        *)
(*                                                                         *)
(* A rename shows its name at once: it cancels a running fetch, keeps a    *)
(* snapshot of the whole list, and puts that snapshot back if it fails.    *)
(* Several may be under way, each with a snapshot of its own.  Undo after  *)
(* a delete calls the API past the query client.                           *)
(* Names are numbers, given in the order the user types them; 0 is no      *)
(* project.                                                                *)
(***************************************************************************)
EXTENDS Integers, FiniteSets, Sequences

CONSTANTS
  ProjectIds,    (* 1, 2: the projects at the start; 3, ...: ids still free *)
  MaxAsks,       (* bound: requests of the page                    *)
  MaxAskErrors   (* bound: requests that fail or lose their answer *)

NoProject == 0

VARIABLES
  storedNames,  (* [ProjectIds -> name] in the database                        *)
  listed,        (* the same in the query cache                                 *)
  listFetch,     (* the running fetch: [at, names]                              *)
  listMissed,    (* history: the last fetch failed                              *)
  asks,          (* requests: [id, op, project, name, snapshot, at]             *)
  asked,         (* how many so far                                             *)
  askErrors,
  editing,       (* editingId, with the ask of its mutation: [project, ask]     *)
  restorable,    (* the names whose Undo toast is on the screen                 *)
  behind         (* history: the last write is one the page does not fetch for  *)

projectsVars == << storedNames, listed, listFetch, listMissed, asks, asked, askErrors, editing,
                   restorable, behind >>

NoFetch == [at |-> "none"]
NotEditing == [project |-> NoProject, ask |-> 0]

-----------------------------------------------------------------------------
Ask(op, p, name) ==
  /\ asked < MaxAsks
  /\ asked' = asked + 1
  /\ asks' = asks \cup {[id |-> asked + 1, op |-> op, project |-> p, name |-> name,
                         snapshot |-> listed, at |-> "sent"]}

(* InlineEdit.handleSave: Enter, or the input loses the focus. *)
Rename(p) ==
  /\ Ask("rename", p, asked + 10)
  /\ listed' = [listed EXCEPT ![p] = asked + 10]
  /\ listFetch' = NoFetch

Edit ==
  /\ editing = NotEditing
  /\ \E p \in ProjectIds : listed[p] # NoProject /\ editing' = [project |-> p, ask |-> 0]
  /\ UNCHANGED << storedNames, listed, listFetch, listMissed, asks, asked, askErrors, restorable,
                  behind >>

SaveEdit ==
  /\ editing # NotEditing /\ editing.ask = 0
  /\ listed[editing.project] # NoProject
  /\ Rename(editing.project)
  /\ editing' = [editing EXCEPT !.ask = asked']
  /\ UNCHANGED << storedNames, listMissed, askErrors, restorable, behind >>

(* The pencil of another project: the blur saves, unless a save of this    *)
(* editor is pending, and the editor of the other one takes its place.     *)
EditAnother ==
  /\ editing # NotEditing
  /\ \E p \in ProjectIds \ {editing.project} :
       listed[p] # NoProject /\ editing' = [project |-> p, ask |-> 0]
  /\ IF editing.ask = 0 /\ listed[editing.project] # NoProject
     THEN Rename(editing.project)
     ELSE UNCHANGED << asks, asked, listed, listFetch >>
  /\ UNCHANGED << storedNames, listMissed, askErrors, restorable, behind >>

(* Escape, or a save of an unchanged or empty name. *)
CancelEdit ==
  /\ editing # NotEditing /\ editing.ask = 0
  /\ editing' = NotEditing
  /\ UNCHANGED << storedNames, listed, listFetch, listMissed, asks, asked, askErrors, restorable,
                  behind >>

CreateOrDelete ==
  /\ \/ \E p \in ProjectIds : listed[p] # NoProject /\ Ask("delete", p, listed[p])
     \/ Ask("create", NoProject, asked + 10)
  /\ UNCHANGED << storedNames, listed, listFetch, listMissed, askErrors, editing, restorable, behind >>

UndoProject ==
  /\ \E name \in restorable : Ask("restore", NoProject, name) /\ restorable' = restorable \ {name}
  /\ UNCHANGED << storedNames, listed, listFetch, listMissed, askErrors, editing, behind >>

-----------------------------------------------------------------------------
(* The server. *)

Exists(p) == p # NoProject /\ storedNames[p] # NoProject

Carried(a) ==
  IF a.op \in {"create", "restore"}
  THEN \E p \in ProjectIds :
         /\ storedNames[p] = NoProject
         /\ \A q \in ProjectIds : storedNames[q] = NoProject => p <= q
         /\ storedNames' = [storedNames EXCEPT ![p] = a.name]
  ELSE /\ Exists(a.project)
       /\ storedNames' = [storedNames EXCEPT ![a.project] =
                             IF a.op = "delete" THEN NoProject ELSE a.name]

At(a, at) == asks' = (asks \ {a}) \cup {[a EXCEPT !.at = at]}

ServeAsk ==
  \E a \in asks, at \in {"ok", "lost"} :
    /\ a.at = "sent"
    /\ Carried(a)
    /\ At(a, at)
    /\ askErrors' = askErrors + (IF at = "lost" THEN 1 ELSE 0)
    /\ askErrors' <= MaxAskErrors
    /\ behind' = (a.op = "restore" \/ (at = "lost" /\ a.op # "rename"))
    /\ UNCHANGED << listed, listFetch, listMissed, asked, editing, restorable >>

FailAsk ==
  \E a \in asks :
    /\ a.at = "sent"
    /\ At(a, "failed")
    /\ askErrors' = askErrors + (IF a.op \in {"rename", "delete"} /\ ~Exists(a.project) THEN 0 ELSE 1)
    /\ askErrors' <= MaxAskErrors
    /\ UNCHANGED << storedNames, listed, listFetch, listMissed, asked, editing, restorable, behind >>

Refetch(invalidated) == listFetch' = IF invalidated THEN [at |-> "asked"] ELSE listFetch

(* Mutant: useUpdateProject invalidates in onSuccess. *)
RenameSettledOk ==
  \E a \in asks :
    /\ a.at # "sent" /\ a.op = "rename"
    /\ asks' = asks \ {a}
    /\ listed' = IF a.at = "ok" THEN listed ELSE a.snapshot
    /\ Refetch(a.at = "ok")
    /\ editing' = IF a.at = "ok" THEN NotEditing
                  ELSE IF editing.ask = a.id THEN [editing EXCEPT !.ask = 0] ELSE editing
    /\ UNCHANGED << storedNames, listMissed, asked, askErrors, restorable, behind >>

(* onError and onSettled.  A success closes whatever editor is open, its   *)
(* own or the one that took its place.                                     *)
RenameSettled ==
  \E a \in asks :
    /\ a.at # "sent" /\ a.op = "rename"
    /\ asks' = asks \ {a}
    /\ listed' = IF a.at = "ok" THEN listed ELSE a.snapshot
    /\ Refetch(TRUE)
    /\ editing' = IF a.at = "ok" THEN NotEditing
                  ELSE IF editing.ask = a.id THEN [editing EXCEPT !.ask = 0] ELSE editing
    /\ UNCHANGED << storedNames, listMissed, asked, askErrors, restorable, behind >>

OtherSettled ==
  \E a \in asks :
    /\ a.at # "sent" /\ a.op # "rename"
    /\ asks' = asks \ {a}
    /\ Refetch(a.at = "ok" /\ a.op # "restore")
    /\ restorable' = IF a.op = "delete" /\ a.at = "ok" THEN restorable \cup {a.name} ELSE restorable
    /\ UNCHANGED << storedNames, listed, listMissed, asked, askErrors, editing, behind >>

FetchProjects ==
  /\ listFetch.at = "asked"
  /\ listFetch' = [at |-> "read", names |-> storedNames]
  /\ UNCHANGED << storedNames, listed, listMissed, asks, asked, askErrors, editing, restorable, behind >>

ShowProjects ==
  /\ listFetch.at = "read"
  /\ listed' = listFetch.names /\ listFetch' = NoFetch /\ listMissed' = FALSE
  /\ UNCHANGED << storedNames, asks, asked, askErrors, editing, restorable, behind >>

LoseProjects ==
  /\ listFetch # NoFetch
  /\ askErrors < MaxAskErrors /\ askErrors' = askErrors + 1
  /\ listFetch' = NoFetch /\ listMissed' = TRUE
  /\ UNCHANGED << storedNames, listed, asks, asked, editing, restorable, behind >>

-----------------------------------------------------------------------------
ProjectsInit ==
  /\ storedNames = [p \in ProjectIds |-> IF p <= 2 THEN p ELSE NoProject]
  /\ listed = storedNames
  /\ listFetch = NoFetch /\ listMissed = FALSE
  /\ asks = {} /\ asked = 0 /\ askErrors = 0
  /\ editing = NotEditing /\ restorable = {} /\ behind = FALSE

ProjectsNetwork ==
  ServeAsk \/ FailAsk \/ RenameSettled \/ OtherSettled \/ FetchProjects \/ ShowProjects \/ LoseProjects

ProjectsNext ==
  \/ ProjectsNetwork
  \/ Edit \/ SaveEdit \/ EditAnother \/ CancelEdit \/ CreateOrDelete \/ UndoProject

ProjectsSpec == ProjectsInit /\ [][ProjectsNext]_projectsVars /\ WF_projectsVars(ProjectsNetwork)

-----------------------------------------------------------------------------
(* However renames, their snapshots and their rollbacks, deletes, creates  *)
(* and refetches overlap, the list ends up as the server has it: a rename  *)
(* that fails after another succeeded puts back a list that is too old,    *)
(* and the refetch of onSettled repairs it.  Left out are the writes the   *)
(* page does not fetch for (an Undo, a create or delete whose answer was   *)
(* lost) and a fetch that failed.                                          *)
ListConverges == <>[](listed = storedNames \/ listMissed \/ behind)
=============================================================================
