--------------------------- MODULE ChecklistPanel ---------------------------
(***************************************************************************)
(* A checklist in the card panel: its title and its items, each with a     *)
(* text and a tick.                                                        *)
(*                                                                         *)
(* A change of an item is shown at once: it cancels a running fetch of the *)
(* card, keeps a snapshot of the whole card and puts that back if it       *)
(* fails.  Nothing keeps the user from a second change while the first is  *)
(* under way, and the server may handle the two in either order.  Creates, *)
(* deletes and the title are shown by a fetch after their success.  Undo   *)
(* of a delete is two requests past the query client: a new item, then its *)
(* tick.                                                                   *)
(* The order of the items is left out.  Row 0 is the checklist itself.     *)
(***************************************************************************)
EXTENDS Integers, FiniteSets

CONSTANTS
  Items,           (* 1 .. n: the ids, as many as items can be made              *)
  FirstItems,      (* those at the start, the first of them ticked               *)
  MaxOps,          (* bound: changes of the user                                 *)
  MaxItemErrors    (* bound: requests that fail or lose their answer, 404s not   *)

ASSUME ItemsAssumption ==
  /\ Items \subseteq Nat \ {0}
  /\ IsFiniteSet(FirstItems) /\ FirstItems \subseteq Items
  /\ FirstItems = 1 .. Cardinality(FirstItems)

Rows == Items \cup {0}
NoRow == [text |-> 0, done |-> FALSE]

VARIABLES
  storedRows,  (* [Rows -> [text, done]] in the database                       *)
  lastItem,    (* the last id given to an item                                 *)
  listedRows,  (* the same in the query cache ['card', id]                     *)
  cardFetch,   (* the running fetch: [at, rows]                                *)
  cardMissed,  (* history: the last fetch failed                               *)
  cardBehind,  (* history: the last write is one that is not fetched for       *)
  ops,         (* requests: [id, op, row, value, snapshot, at]                 *)
  opCount, itemErrors,
  restorableItems  (* the items of the Undo toasts on the screen               *)

checklistVars == << storedRows, lastItem, listedRows, cardFetch, cardMissed, cardBehind, ops,
                    opCount, itemErrors, restorableItems >>

NoCardFetch == [at |-> "none"]
Present(rows) == {i \in Items : rows[i] # NoRow}

-----------------------------------------------------------------------------
(* The user. *)

Order(op, i, value) ==
  /\ opCount < MaxOps /\ opCount' = opCount + 1
  /\ ops' = ops \cup {[id |-> opCount + 1, op |-> op, row |-> i, value |-> value,
                       snapshot |-> listedRows, at |-> "sent"]}

(* { ...item, ...data } in the cached card, if the item is in it. *)
Patched(rows, op, i, value) ==
  IF rows[i] = NoRow THEN rows
  ELSE [rows EXCEPT ![i] = IF op = "tick" THEN [@ EXCEPT !.done = value.done]
                           ELSE [@ EXCEPT !.text = value.text]]

(* onMutate of useUpdateChecklistItem *)
UpdateShownItem(op, i, value) ==
  /\ Order(op, i, value)
  /\ listedRows' = Patched(listedRows, op, i, value)
  /\ cardFetch' = NoCardFetch

HandleToggle ==
  /\ \E i \in Present(listedRows) :
       UpdateShownItem("tick", i, [listedRows[i] EXCEPT !.done = ~@])
  /\ UNCHANGED << storedRows, lastItem, cardMissed, cardBehind, itemErrors, restorableItems >>

(* Enter, or the input loses the focus, with a text that is another one. *)
HandleTextSave ==
  /\ \E i \in Present(listedRows) :
       UpdateShownItem("text", i, [listedRows[i] EXCEPT !.text = opCount + 10])
  /\ UNCHANGED << storedRows, lastItem, cardMissed, cardBehind, itemErrors, restorableItems >>

HandleItemDelete ==
  /\ \E i \in Present(listedRows) : Order("delete", i, listedRows[i])
  /\ UNCHANGED << storedRows, lastItem, listedRows, cardFetch, cardMissed, cardBehind, itemErrors,
                  restorableItems >>

(* The form stays as it is until the answer: Enter twice is two items. *)
HandleItemSubmit ==
  /\ listedRows[0] # NoRow
  /\ Order("create", 0, [text |-> opCount + 10, done |-> FALSE])
  /\ UNCHANGED << storedRows, lastItem, listedRows, cardFetch, cardMissed, cardBehind, itemErrors,
                  restorableItems >>

HandleTitleSave ==
  /\ listedRows[0] # NoRow
  /\ Order("title", 0, [text |-> opCount + 10, done |-> FALSE])
  /\ UNCHANGED << storedRows, lastItem, listedRows, cardFetch, cardMissed, cardBehind, itemErrors,
                  restorableItems >>

HandleChecklistDelete ==
  /\ listedRows[0] # NoRow
  /\ Order("drop", 0, NoRow)
  /\ UNCHANGED << storedRows, lastItem, listedRows, cardFetch, cardMissed, cardBehind, itemErrors,
                  restorableItems >>

UndoItemDelete ==
  /\ \E value \in restorableItems :
       Order("restore", 0, value) /\ restorableItems' = restorableItems \ {value}
  /\ UNCHANGED << storedRows, lastItem, listedRows, cardFetch, cardMissed, cardBehind, itemErrors >>

-----------------------------------------------------------------------------
(* The server. *)

(* createItem takes the text and a position, never the tick. *)
NewItem(value) == [text |-> value.text, done |-> FALSE]

CarriedOut(o) ==
  /\ storedRows[o.row] # NoRow
  /\ CASE o.op \in {"create", "restore"} ->
            storedRows' = [storedRows EXCEPT ![lastItem + 1] = NewItem(o.value)]
       [] o.op \in {"tick", "text", "title", "retick"} ->
            storedRows' = Patched(storedRows, IF o.op = "retick" THEN "tick" ELSE o.op, o.row, o.value)
       [] o.op = "delete" -> storedRows' = [storedRows EXCEPT ![o.row] = NoRow]
       [] o.op = "drop"   -> storedRows' = [i \in Rows |-> NoRow]

(* A restored item is where its tick will go. *)
Answer(o, at, row) == ops' = (ops \ {o}) \cup {[o EXCEPT !.at = at, !.row = row]}

ServeOp ==
  \E o \in ops, at \in {"ok", "lost"} :
    /\ o.at = "sent"
    /\ o.op \in {"create", "restore"} => lastItem + 1 \in Items    (* the bound *)
    /\ CarriedOut(o)
    /\ lastItem' = lastItem + (IF o.op \in {"create", "restore"} THEN 1 ELSE 0)
    /\ Answer(o, at, IF o.op = "restore" THEN lastItem + 1 ELSE o.row)
    /\ itemErrors' = itemErrors + (IF at = "lost" THEN 1 ELSE 0)
    /\ itemErrors' <= MaxItemErrors
    /\ cardBehind' = (o.op = "restore" \/ (at = "lost" /\ o.op \notin {"tick", "text"}) \/ cardBehind)
    /\ UNCHANGED << listedRows, cardFetch, cardMissed, opCount, restorableItems >>

FailOp ==
  \E o \in ops :
    /\ o.at = "sent"
    /\ Answer(o, "failed", o.row)
    /\ itemErrors' = itemErrors + (IF storedRows[o.row] = NoRow THEN 0 ELSE 1)
    /\ itemErrors' <= MaxItemErrors
    /\ UNCHANGED << storedRows, lastItem, listedRows, cardFetch, cardMissed, cardBehind, opCount,
                    restorableItems >>

-----------------------------------------------------------------------------
(* The answers. *)

InvalidateCard == cardFetch' = [at |-> "asked"] /\ cardBehind' = FALSE

(* Mutant: useUpdateChecklistItem invalidates in onSuccess. *)
UpdateSettledOk ==
  \E o \in ops :
    /\ o.at # "sent" /\ o.op \in {"tick", "text"}
    /\ ops' = ops \ {o}
    /\ listedRows' = IF o.at = "ok" THEN listedRows ELSE o.snapshot
    /\ IF o.at = "ok" THEN InvalidateCard ELSE UNCHANGED << cardFetch, cardBehind >>
    /\ UNCHANGED << storedRows, lastItem, cardMissed, opCount, itemErrors, restorableItems >>

(* onError and onSettled *)
UpdateSettled ==
  \E o \in ops :
    /\ o.at # "sent" /\ o.op \in {"tick", "text"}
    /\ ops' = ops \ {o}
    /\ listedRows' = IF o.at = "ok" THEN listedRows ELSE o.snapshot
    /\ InvalidateCard
    /\ UNCHANGED << storedRows, lastItem, cardMissed, opCount, itemErrors, restorableItems >>

(* onSuccess.  The toast of a delete is shown by the item's component: not *)
(* if a fetch has taken the item off the screen already, and not for the   *)
(* first of two deletes of the same item.                                  *)
ChangeDone ==
  \E o \in ops :
    /\ o.at = "ok" /\ o.op \in {"create", "delete", "title", "drop"}
    /\ ops' = ops \ {o}
    /\ InvalidateCard
    /\ restorableItems' =
         IF /\ o.op = "delete" /\ listedRows[o.row] # NoRow
            /\ \A p \in ops : p.op = "delete" /\ p.row = o.row => p.id <= o.id
         THEN restorableItems \cup {o.value} ELSE restorableItems
    /\ UNCHANGED << storedRows, lastItem, listedRows, cardMissed, opCount, itemErrors >>

(* Mutant: Undo makes the item and leaves it at that. *)
ItemRestoredUnticked ==
  \E o \in ops :
    /\ o.op = "restore" /\ o.at = "ok"
    /\ ops' = ops \ {o} /\ InvalidateCard
    /\ UNCHANGED << storedRows, lastItem, listedRows, cardMissed, opCount, itemErrors,
                    restorableItems >>

(* Undo goes on with the tick, or is done and invalidates. *)
ItemRestored ==
  \E o \in ops :
    /\ o.op = "restore" /\ o.at = "ok"
    /\ IF o.value.done
       THEN /\ ops' = (ops \ {o}) \cup {[o EXCEPT !.op = "retick", !.at = "sent"]}
            /\ UNCHANGED << cardFetch, cardBehind >>
       ELSE ops' = ops \ {o} /\ InvalidateCard
    /\ UNCHANGED << storedRows, lastItem, listedRows, cardMissed, opCount, itemErrors,
                    restorableItems >>

ItemReticked ==
  \E o \in ops :
    /\ o.op = "retick" /\ o.at = "ok"
    /\ ops' = ops \ {o}
    /\ InvalidateCard
    /\ UNCHANGED << storedRows, lastItem, listedRows, cardMissed, opCount, itemErrors,
                    restorableItems >>

(* A message, and no fetch, not even for the half of an Undo that is done. *)
ChangeRejected ==
  \E o \in ops :
    /\ o.at \in {"failed", "lost"} /\ o.op \notin {"tick", "text"}
    /\ ops' = ops \ {o}
    /\ UNCHANGED << storedRows, lastItem, listedRows, cardFetch, cardMissed, cardBehind, opCount, itemErrors,
                    restorableItems >>

FetchCard ==
  /\ cardFetch.at = "asked"
  /\ cardFetch' = [at |-> "read", rows |-> storedRows]
  /\ UNCHANGED << storedRows, lastItem, listedRows, cardMissed, cardBehind, ops, opCount, itemErrors,
                  restorableItems >>

ShowCard ==
  /\ cardFetch.at = "read"
  /\ listedRows' = cardFetch.rows /\ cardFetch' = NoCardFetch /\ cardMissed' = FALSE
  /\ UNCHANGED << storedRows, lastItem, cardBehind, ops, opCount, itemErrors, restorableItems >>

LoseCard ==
  /\ cardFetch # NoCardFetch
  /\ itemErrors < MaxItemErrors /\ itemErrors' = itemErrors + 1
  /\ cardFetch' = NoCardFetch /\ cardMissed' = TRUE
  /\ UNCHANGED << storedRows, lastItem, listedRows, cardBehind, ops, opCount, restorableItems >>

-----------------------------------------------------------------------------
ChecklistInit ==
  /\ storedRows = [i \in Rows |-> IF i \in FirstItems \cup {0}
                                  THEN [text |-> i + 1, done |-> i = 1] ELSE NoRow]
  /\ lastItem = Cardinality(FirstItems) /\ listedRows = storedRows
  /\ cardFetch = NoCardFetch /\ cardMissed = FALSE /\ cardBehind = FALSE
  /\ ops = {} /\ opCount = 0 /\ itemErrors = 0 /\ restorableItems = {}

ChecklistNetwork ==
  \/ ServeOp \/ FailOp
  \/ UpdateSettled \/ ChangeDone \/ ItemRestored \/ ItemReticked \/ ChangeRejected
  \/ FetchCard \/ ShowCard \/ LoseCard

ChecklistNext ==
  \/ ChecklistNetwork
  \/ HandleToggle \/ HandleTextSave \/ HandleItemDelete \/ HandleItemSubmit
  \/ HandleTitleSave \/ HandleChecklistDelete \/ UndoItemDelete

ChecklistSpec == ChecklistInit /\ [][ChecklistNext]_checklistVars /\ WF_checklistVars(ChecklistNetwork)

-----------------------------------------------------------------------------
(* However ticks, texts, deletes and their Undos overlap, fail and are     *)
(* rolled back to a snapshot of the whole card, the panel ends up showing  *)
(* what the server has.  Left out are the writes no fetch follows: a lost  *)
(* answer of anything but a tick or a text, an Undo whose second half      *)
(* failed, and a fetch that failed itself.                                 *)
ItemsConverge == <>[](listedRows = storedRows \/ cardMissed \/ cardBehind)

(* An Undo that ends without an error has put back the item as the user    *)
(* saw it when it was deleted, ticked if it was ticked; unless the user    *)
(* did anything after it, a change of the new item (which another fetch    *)
(* may show early) or a later Undo among them.                             *)
UndoRestoresItem ==
  [][\A o \in ops \ ops' :
       /\ o.op \in {"restore", "retick"} /\ o.at = "ok"
       /\ [o EXCEPT !.op = "retick", !.at = "sent"] \notin ops'
       => \/ storedRows[o.row] = o.value
          \/ storedRows[o.row] = NoRow
          \/ opCount > o.id]_checklistVars
=============================================================================
