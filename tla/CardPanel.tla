----------------------------- MODULE CardPanel -----------------------------
(***************************************************************************)
(* The detail panel of one card: two text fields that are saved when they  *)
(* lose the focus, the due date that is saved when it is picked, and the   *)
(* two caches (the card in the columns query, and its detail query) that   *)
(* reset the fields when they change.                                      *)
(*                                                                         *)
(* All saves go through one useUpdateCard hook.  The callbacks given to    *)
(* mutate() are those of its latest call only: an earlier call's are never *)
(* run.  The Card component, and with it the fields and the flags, stays   *)
(* mounted while the panel is closed and opened again.                     *)
(* A text is a number, given in the order the user types them; 0 is the    *)
(* empty text.                                                             *)
(***************************************************************************)
EXTENDS Integers, FiniteSets, Sequences

CONSTANTS
  MaxTyped,      (* bound: texts the user types                       *)
  MaxSaves,      (* bound: PATCH requests                             *)
  MaxErrors      (* bound: PATCH requests that fail                   *)

Fields == {"title", "description"}

VARIABLES
  stored,      (* [Fields -> text] in the database                    *)
  summary,     (* card.title of the columns query                     *)
  detail,      (* the description of the detail query, or Unread      *)
  text,        (* [Fields -> text]: useState of the two inputs        *)
  dirty,       (* isDirtyRef                                          *)
  pending,     (* pendingSaveRef                                      *)
  saving,      (* isSavingTitle, isSavingDescription, isSavingDueDate *)
  patches,     (* the PATCH requests in flight: [field, text, id]     *)
  listening,   (* the id of the latest mutate()                       *)
  fetching,    (* the queries being fetched again: title, description *)
  open, focus, typed,      (* typed: the focused field was typed in   *)
  edits, saves, errors

panelVars == << stored, summary, detail, text, dirty, pending, saving, patches, listening,
                fetching, open, focus, typed, edits, saves, errors >>

Unread == -1
NoFocus == "none"

-----------------------------------------------------------------------------
(* updateCard.mutate() *)
Patch(field, value) ==
  /\ saves < MaxSaves
  /\ saves' = saves + 1
  /\ patches' = patches \cup {[field |-> field, text |-> value, id |-> saves + 1]}
  /\ listening' = saves + 1
  /\ saving' = [saving EXCEPT ![field] = TRUE]

NoPatch == UNCHANGED << saves, patches, listening, saving >>

(* What a blur compares with: the title in the summary; the summary has no *)
(* description, so any text but the empty one is taken for a change.       *)
Saved(field) == IF field = "title" THEN summary ELSE 0

(* handleTitleBlur and handleDescriptionBlur; `clean` is isDirtyRef after. *)
Blurred(field) ==
  IF saving[field] THEN NoPatch /\ UNCHANGED << text, dirty, pending >>
  ELSE IF text[field] = 0 /\ field = "title"
  THEN NoPatch /\ text' = [text EXCEPT !.title = summary] /\ dirty' = FALSE /\ UNCHANGED pending
  ELSE IF text[field] = Saved(field)
  THEN NoPatch /\ dirty' = FALSE /\ UNCHANGED << text, pending >>
  ELSE Patch(field, text[field]) /\ dirty' = FALSE /\ pending' = TRUE /\ UNCHANGED text

Blur ==
  /\ focus # NoFocus
  /\ Blurred(focus)
  /\ focus' = NoFocus /\ typed' = FALSE
  /\ UNCHANGED << stored, summary, detail, fetching, open, edits, errors >>

FocusField ==
  /\ open /\ focus = NoFocus
  /\ \E field \in Fields :
       /\ ~saving[field]
       /\ focus' = field
  /\ UNCHANGED << stored, summary, detail, text, dirty, pending, saving, patches, listening,
                  fetching, open, typed, edits, saves, errors >>

(* handleTitleChange, handleDescriptionChange: a new text, or none. *)
Type ==
  /\ focus # NoFocus /\ ~saving[focus]
  /\ edits < MaxTyped /\ edits' = edits + 1
  /\ \E value \in {0, edits + 2} : text' = [text EXCEPT ![focus] = value]
  /\ dirty' = TRUE /\ typed' = TRUE
  /\ UNCHANGED << stored, summary, detail, pending, saving, patches, listening, fetching, open,
                  focus, saves, errors >>

HandleDueDateChange ==
  /\ open /\ focus = NoFocus
  /\ ~saving["due"]
  /\ Patch("due", 0)
  /\ UNCHANGED << stored, summary, detail, text, dirty, pending, fetching, open, focus, typed,
                  edits, errors >>

(* onCloseAutoFocus.  With Escape the field goes without a blur. *)
Close ==
  /\ open /\ open' = FALSE
  /\ focus' = NoFocus /\ typed' = FALSE
  /\ dirty' = FALSE /\ pending' = FALSE
  /\ UNCHANGED << stored, summary, detail, text, saving, patches, listening, fetching, edits,
                  saves, errors >>

(* useCard(open ? card.id : 0): what the cache has is shown at once. *)
Open ==
  /\ ~open /\ open' = TRUE
  /\ fetching' = IF detail = Unread THEN fetching \cup {"description"} ELSE fetching
  /\ text' = IF detail # Unread /\ ~dirty /\ ~pending
             THEN [text EXCEPT !.description = detail] ELSE text
  /\ UNCHANGED << stored, summary, detail, dirty, pending, saving, patches, listening, focus,
                  typed, edits, saves, errors >>

-----------------------------------------------------------------------------
(* The server takes a PATCH; `description || undefined` asks nothing.      *)
(* The answer comes at once: the hook's onSuccess invalidates both queries, *)
(* and the callbacks of the latest mutate() clear the flags.               *)
Heard(p) == p.id = listening

ClearFlags(p) ==
  /\ pending' = IF Heard(p) /\ p.field # "due" THEN FALSE ELSE pending
  /\ saving' = IF Heard(p) THEN [saving EXCEPT ![p.field] = FALSE] ELSE saving

(* Mutant: onSettled also declares the fields clean. *)
PatchDoneClean ==
  \E p \in patches :
    /\ patches' = patches \ {p}
    /\ stored' = IF p.field = "due" \/ p.text = 0 THEN stored
                 ELSE [stored EXCEPT ![p.field] = p.text]
    /\ fetching' = Fields
    /\ ClearFlags(p)
    /\ dirty' = FALSE
    /\ UNCHANGED << summary, detail, text, listening, open, focus, typed, edits, saves, errors >>

PatchDone ==
  \E p \in patches :
    /\ patches' = patches \ {p}
    /\ stored' = IF p.field = "due" \/ p.text = 0 THEN stored
                 ELSE [stored EXCEPT ![p.field] = p.text]
    /\ fetching' = Fields
    /\ ClearFlags(p)
    /\ UNCHANGED << summary, detail, text, dirty, listening, open, focus, typed, edits, saves,
                    errors >>

(* onError puts back what the summary has: for the description, nothing.   *)
PatchFailed ==
  \E p \in patches :
    /\ errors < MaxErrors /\ errors' = errors + 1
    /\ patches' = patches \ {p}
    /\ text' = IF Heard(p) /\ p.field # "due" THEN [text EXCEPT ![p.field] = Saved(p.field)] ELSE text
    /\ ClearFlags(p)
    /\ UNCHANGED << stored, summary, detail, dirty, listening, fetching, open, focus, typed,
                    edits, saves >>

(* A refetch arrives and, if it changed something, the effect runs.        *)
ShowTitle ==
  /\ "title" \in fetching
  /\ fetching' = fetching \ {"title"}
  /\ summary' = stored.title
  /\ text' = IF summary' # summary /\ ~dirty /\ ~pending
             THEN [text EXCEPT !.title = summary'] ELSE text
  /\ UNCHANGED << stored, detail, dirty, pending, saving, patches, listening, open, focus, typed,
                  edits, saves, errors >>

ShowDescription ==
  /\ "description" \in fetching /\ open
  /\ fetching' = fetching \ {"description"}
  /\ detail' = stored.description
  /\ text' = IF ~dirty /\ ~pending THEN [text EXCEPT !.description = detail'] ELSE text
  /\ UNCHANGED << stored, summary, dirty, pending, saving, patches, listening, open, focus, typed,
                  edits, saves, errors >>

-----------------------------------------------------------------------------
PanelInit ==
  /\ stored \in {[title |-> 1, description |-> d] : d \in {0, 1}}
  /\ summary = 1 /\ detail = Unread
  /\ text = [title |-> 1, description |-> 0]
  /\ dirty = FALSE /\ pending = FALSE
  /\ saving = [f \in Fields \cup {"due"} |-> FALSE]
  /\ patches = {} /\ listening = 0 /\ fetching = {}
  /\ open = FALSE /\ focus = NoFocus /\ typed = FALSE
  /\ edits = 0 /\ saves = 0 /\ errors = 0

PanelNext ==
  \/ Open \/ Close \/ FocusField \/ Type \/ Blur \/ HandleDueDateChange
  \/ PatchDone \/ PatchFailed \/ ShowTitle \/ ShowDescription

PanelSpec == PanelInit /\ [][PanelNext]_panelVars

-----------------------------------------------------------------------------
Texts == 0 .. MaxTyped + 1

(* A text the user is typing is not replaced under the cursor, by no       *)
(* refetch of either query, no answer to a save of the other field and no  *)
(* failed save, although both fields share the two flags that guard it.    *)
TypingNotClobbered ==
  [][typed /\ typed' /\ edits' = edits => text'[focus] = text[focus]]_panelVars
=============================================================================
