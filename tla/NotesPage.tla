----------------------------- MODULE NotesPage -----------------------------
(***************************************************************************)
(* The notes pages: the editor of one note with its auto-save, and the     *)
(* list (or the board's sidebar) with its delayed delete and Undo.         *)
(*                                                                         *)
(* Auto-save arms a 2 s timer on every render while there are unsaved      *)
(* changes and no save is pending; Ctrl+S saves whether one is pending or  *)
(* not.  A draft is a number, the count of the user's changes.             *)
(* A confirmed delete waits 5 s in a timer.  All of them share one         *)
(* deleteTimerRef, which holds the latest; a delete is named by the number *)
(* of its timer.  Its toast, with the Undo, is gone after 3 s.             *)
(***************************************************************************)
EXTENDS Integers, FiniteSets, Sequences

CONSTANTS
  NoteIds,
  MaxChanges,      (* bound: changes of the draft            *)
  MaxSaveCalls,    (* bound: PATCH requests of the editor    *)
  MaxConfirms,     (* bound: deletes the user confirms       *)
  MaxNoteErrors    (* bound: requests that fail              *)

VARIABLES
  inEditor,     (* the editor is mounted                                     *)
  draft,        (* what title, content and links hold                        *)
  blank,        (* the title is empty                                        *)
  unsaved,      (* dirty                                                     *)
  armed,        (* autoSaveTimer runs                                        *)
  puts,         (* PATCH requests in flight: [id, draft, by]                 *)
  calls,        (* the number, and so the id, of the latest mutate()         *)
  noteStored,   (* the draft in the database                                 *)
  noteErrors,
  saveFailed,   (* history: a save of this editor failed                     *)
  notes,        (* the notes in the database                                 *)
  view,         (* "list" or "sidebar"                                       *)
  onView,       (* it is mounted                                             *)
  timers,       (* the running delete timers, oldest first: [id, note]       *)
  deleteTimer,  (* deleteTimerRef.current: the id of the latest, 0 for none  *)
  toasts,       (* the deletes whose toast still offers Undo                 *)
  deletes,      (* DELETE requests in flight: [id, note]                     *)
  confirms, cleared, requested
                (* history: deletes confirmed (their number), cleared by an  *)
                (* Undo, and sent                                            *)

editorVars == << inEditor, draft, blank, unsaved, armed, puts, calls, noteStored, saveFailed >>
listVars   == << notes, view, onView, timers, deleteTimer, toasts, deletes,
                 confirms, cleared, requested >>
notesVars  == << editorVars, listVars, noteErrors >>

-----------------------------------------------------------------------------
(* The editor. *)

(* isPending is about the latest mutate() only. *)
Pending(requests, latest) == \E p \in requests : p.id = latest

(* The effect that every render runs. *)
Rendered == armed' = (inEditor' /\ unsaved' /\ ~Pending(puts', calls'))

Put(by) ==
  /\ calls < MaxSaveCalls
  /\ calls' = calls + 1
  /\ puts' = puts \cup {[id |-> calls + 1, draft |-> draft, by |-> by]}

Change ==
  /\ inEditor
  /\ draft < MaxChanges
  /\ draft' = draft + 1
  /\ blank' \in BOOLEAN
  /\ unsaved' = TRUE
  /\ UNCHANGED << inEditor, puts, calls, noteStored, saveFailed, noteErrors, listVars >>
  /\ Rendered

(* The changes count as saved before the answer is there; with an empty    *)
(* title nothing happens, not even another timer.                          *)
AutoSave ==
  /\ armed
  /\ IF blank
     THEN armed' = FALSE /\ UNCHANGED << puts, calls, unsaved >>
     ELSE /\ Put("auto") /\ unsaved' = FALSE
          /\ UNCHANGED inEditor
          /\ Rendered
  /\ UNCHANGED << inEditor, draft, blank, noteStored, saveFailed, noteErrors, listVars >>

HandleSave ==
  /\ inEditor /\ ~blank
  /\ calls + (MaxChanges - draft) + 1 < MaxSaveCalls    (* leaves auto-save its calls *)
  /\ Put("user")
  /\ UNCHANGED << inEditor, draft, blank, unsaved, noteStored, saveFailed, noteErrors, listVars >>
  /\ Rendered

(* A change loses its auto-save, Escape or Cancel leave without one. *)
Cancel ==
  /\ inEditor /\ inEditor' = FALSE
  /\ armed' = FALSE
  /\ UNCHANGED << draft, blank, unsaved, puts, calls, noteStored, saveFailed, noteErrors, listVars >>

(* onSuccess of a user's save leaves the editor, of the latest only. *)
Leaves(p) == p.by = "user" /\ p.id = calls

(* Mutant: the effect depends on the text only and does not run when a     *)
(* save settles.                                                           *)
PutDoneUnseen ==
  \E p \in puts :
    /\ puts' = puts \ {p}
    /\ noteStored' = p.draft
    /\ inEditor' = (inEditor /\ ~Leaves(p))
    /\ unsaved' = (unsaved /\ ~Leaves(p))
    /\ UNCHANGED << armed, draft, blank, calls, saveFailed, noteErrors, listVars >>

PutDone ==
  \E p \in puts :
    /\ puts' = puts \ {p}
    /\ noteStored' = p.draft
    /\ inEditor' = (inEditor /\ ~Leaves(p))
    /\ unsaved' = (unsaved /\ ~Leaves(p))
    /\ UNCHANGED << draft, blank, calls, saveFailed, noteErrors, listVars >>
    /\ Rendered

(* A failed auto-save leaves dirty FALSE: nothing tries again. *)
PutFailed ==
  \E p \in puts :
    /\ noteErrors < MaxNoteErrors /\ noteErrors' = noteErrors + 1
    /\ puts' = puts \ {p}
    /\ saveFailed' = TRUE
    /\ UNCHANGED << inEditor, draft, blank, unsaved, calls, noteStored, listVars >>
    /\ Rendered

-----------------------------------------------------------------------------
(* The list and the sidebar. *)

WithoutTimer(id) == SelectSeq(timers, LAMBDA t : t.id # id)

(* Mutant: a confirm clears the timer that the ref holds. *)
HandleDeleteClearing(n) ==
  /\ onView /\ n \in notes
  /\ confirms < MaxConfirms /\ confirms' = confirms + 1
  /\ timers' = Append(WithoutTimer(deleteTimer), [id |-> confirms + 1, note |-> n])
  /\ deleteTimer' = confirms + 1
  /\ toasts' = toasts \cup {confirms + 1}
  /\ UNCHANGED << editorVars, noteErrors, notes, view, onView, deletes, cleared, requested >>

HandleDelete(n) ==
  /\ onView /\ n \in notes
  /\ confirms < MaxConfirms /\ confirms' = confirms + 1
  /\ timers' = Append(timers, [id |-> confirms + 1, note |-> n])
  /\ deleteTimer' = confirms + 1
  /\ toasts' = toasts \cup {confirms + 1}
  /\ UNCHANGED << editorVars, noteErrors, notes, view, onView, deletes, cleared, requested >>

(* The Undo of any toast clears the timer that the ref holds now. *)
UndoClicked(id) ==
  /\ id \in toasts
  /\ toasts' = toasts \ {id}
  /\ timers' = WithoutTimer(deleteTimer)
  /\ cleared' = IF \E t \in DOMAIN timers : timers[t].id = deleteTimer
                THEN cleared \cup {deleteTimer} ELSE cleared
  /\ UNCHANGED << editorVars, noteErrors, notes, view, onView, deleteTimer, deletes, confirms, requested >>

(* Toasts go in the order they came, each before its timer fires. *)
ToastGone(id) ==
  /\ id \in toasts /\ \A i \in toasts : id <= i
  /\ toasts' = toasts \ {id}
  /\ UNCHANGED << editorVars, noteErrors, notes, view, onView, timers, deleteTimer, deletes,
                  confirms, cleared, requested >>

DeleteTimerFires ==
  /\ timers # << >> /\ Head(timers).id \notin toasts
  /\ timers' = Tail(timers)
  /\ deletes' = deletes \cup {Head(timers)}
  /\ requested' = requested \cup {Head(timers).id}
  /\ UNCHANGED << editorVars, noteErrors, notes, view, onView, deleteTimer, toasts, confirms,
                  cleared >>

DeleteDone(failed) ==
  \E d \in deletes :
    /\ deletes' = deletes \ {d}
    /\ notes' = IF failed THEN notes ELSE notes \ {d.note}
    /\ noteErrors' = noteErrors + (IF failed THEN 1 ELSE 0)
    /\ noteErrors' <= MaxNoteErrors
    /\ UNCHANGED << editorVars, view, onView, timers, deleteTimer, toasts, confirms,
                    cleared, requested >>

(* The sidebar clears the latest timer when it goes, the list none. *)
LeaveView ==
  /\ onView /\ onView' = FALSE
  /\ timers' = IF view = "sidebar" THEN WithoutTimer(deleteTimer) ELSE timers
  /\ UNCHANGED << editorVars, noteErrors, notes, view, deleteTimer, toasts, deletes, confirms,
                  cleared, requested >>

-----------------------------------------------------------------------------
(* In the editor of a stored note, or at a list. *)
NotesInit ==
  /\ inEditor \in BOOLEAN
  /\ draft = 0 /\ blank = FALSE /\ unsaved = FALSE /\ armed = FALSE
  /\ puts = {} /\ calls = 0 /\ noteStored = 0 /\ saveFailed = FALSE
  /\ noteErrors = 0
  /\ notes = NoteIds
  /\ view \in {"list", "sidebar"} /\ onView = ~inEditor
  /\ timers = << >> /\ deleteTimer = 0 /\ toasts = {} /\ deletes = {}
  /\ confirms = 0 /\ cleared = {} /\ requested = {}

Clock ==
  \/ AutoSave \/ PutDone \/ PutFailed
  \/ \E id \in 1 .. confirms : ToastGone(id)
  \/ DeleteTimerFires
  \/ \E failed \in BOOLEAN : DeleteDone(failed)

NotesNext ==
  \/ Clock
  \/ Change \/ HandleSave \/ Cancel
  \/ \E n \in NoteIds : HandleDelete(n)
  \/ \E id \in 1 .. confirms : UndoClicked(id)
  \/ LeaveView

NotesSpec == NotesInit /\ [][NotesNext]_notesVars /\ WF_notesVars(Clock)

-----------------------------------------------------------------------------
(* A user who goes on typing while a save is pending, and then stops, has  *)
(* the last change in the database without saving: the timer is armed      *)
(* again when the save settles.  Left out: an empty title, a save that     *)
(* failed (auto-save does not retry), an editor that was left.             *)
EditsReachServer ==
  <>[](~inEditor \/ blank \/ saveFailed \/ noteStored = draft)

(* Each confirmed delete is sent, whichever others were confirmed while it *)
(* waited, unless an Undo cleared its timer or the sidebar was left; and   *)
(* one whose timer was cleared is never sent.                              *)
ConfirmedDeletesHappen ==
  /\ \A id \in 1 .. MaxConfirms :
       id <= confirms ~> (id \in requested \cup cleared \/ (view = "sidebar" /\ ~onView))
  /\ [](cleared \cap requested = {})
=============================================================================
