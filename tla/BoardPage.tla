----------------------------- MODULE BoardPage -----------------------------
(***************************************************************************)
(* The board page of the frontend: what the server holds, what the query   *)
(* cache ['columns', boardId] shows, and the drags and mutations between   *)
(* them.                                                                   *)
(*                                                                         *)
(* A mutation is sent, handled by the server at some later moment and      *)
(* answered at a later one still; its answer may be lost.  Invalidating    *)
(* the columns cancels a running fetch and starts another one.  A drag     *)
(* rearranges the cached lists itself while it goes on.                    *)
(* The server orders a column as CardOrder does, and as NestCards does on  *)
(* a column without gaps: a position is an index, one past the end is the  *)
(* end.                                                                    *)
(***************************************************************************)
EXTENDS Integers, FiniteSets, SequencesExt

CONSTANTS
  BoardCards, BoardColumns,
  FirstBoard,     (* [BoardColumns -> Seq(BoardCards)]: the page as it was loaded  *)
  MaxGestures,    (* bound: drags, deletes, undos and menu commands of the user    *)
  MaxLosses,      (* bound: requests that fail or whose answer is lost             *)
  Slots,          (* requests in flight at a time                                  *)
  None            (* no request, no drag, no toast; in a list, the object without  *)
                  (* id that arrayMove makes of undefined                          *)

VARIABLES
  served,    (* [BoardColumns -> Seq(BoardCards)] in the database                  *)
  version,   (* how often served was written                                       *)
  changed,   (* the mutation that wrote it last: [op, at]                          *)
  shown,     (* [BoardColumns -> Seq(BoardCards \cup {None})] in the query cache   *)
  seen,      (* the version of the last fetch shown                                *)
  fetch,     (* the running fetch of the columns                                   *)
  stale,     (* isInvalidated                                                      *)
  missed,    (* history: the last fetch failed                                     *)
  request,   (* [Slots -> mutation or None]                                        *)
  drag,      (* what dnd-kit holds: [card, over], and a history of how it started  *)
  source,    (* dragSource: [column, index]                                        *)
  clearing,  (* the 300 ms timers that clear activeCard and dragSource             *)
  hidden,    (* the cards that search and filters hide                             *)
  undo,      (* the Undo toast: the card, its column and its position              *)
  gestures, losses

serverVars == << served, version, changed >>
cacheVars  == << shown, seen, fetch, stale, missed >>
dragVars   == << drag, source, clearing >>
boardVars  == << serverVars, cacheVars, request, dragVars, hidden, undo, gestures, losses >>

-----------------------------------------------------------------------------
(* Lists of cards. *)

ColumnsWith(lists, c) == {l \in BoardColumns : Contains(lists[l], c)}

(* The zero-based index, or -1. *)
IndexIn(list, c) == SelectInSeq(list, LAMBDA d : d = c) - 1

Without(list, c) == SelectSeq(list, LAMBDA d : d # c)

Least(i, j) == IF i < j THEN i ELSE j

(* splice(index, 0, card) *)
Splice(list, index, c) == InsertAt(list, Least(index, Len(list)) + 1, c)

(* arrayMove(list, from, to): an index out of range takes nothing out and  *)
(* puts undefined in.                                                      *)
ArrayMove(list, from, to) ==
  IF from < Len(list)
  THEN Splice(RemoveAt(list, from + 1), to, list[from + 1])
  ELSE IF list = << >> THEN << None >> ELSE Splice(list, to, None)

Visible(l) == SelectSeq(shown[l], LAMBDA c : c \notin hidden)

VisibleCards == (UNION {ToSet(Visible(l)) : l \in BoardColumns}) \ {None}

-----------------------------------------------------------------------------
(* The server. *)

Possible(q) ==
  CASE q.op \in {"move", "delete"} -> ColumnsWith(served, q.card) # {}
    [] q.op = "reorder" -> ColumnsWith(served, q.card) # {} /\ q.position >= 0
    [] q.op = "moveAll" -> served[q.column] # << >>
    [] OTHER -> TRUE

(* What the server makes of its lists. *)
Served(q) ==
  CASE q.op \in {"move", "create"} ->
         [l \in BoardColumns |-> IF l = q.column
                                 THEN Splice(Without(served[l], q.card), q.position, q.card)
                                 ELSE Without(served[l], q.card)]
    [] q.op = "reorder" ->
         [l \in BoardColumns |-> IF l \in ColumnsWith(served, q.card)
                                 THEN Splice(Without(served[l], q.card), q.position, q.card)
                                 ELSE served[l]]
    [] q.op = "delete"  -> [l \in BoardColumns |-> Without(served[l], q.card)]
    [] q.op = "sort"    -> [served EXCEPT ![q.column] = Reverse(@)]
    [] q.op = "moveAll" ->
         [l \in BoardColumns |-> IF l = q.column THEN << >>
                                 ELSE IF l = q.target THEN served[l] \o served[q.column]
                                 ELSE served[l]]
    [] q.op = "touch"   -> served

(* The server handles a mutation; the answer may be lost on its way back.  *)
Serve(s) ==
  /\ request[s] # None /\ request[s].at = "sent"
  /\ Possible(request[s])
  /\ \E at \in {"ok", "lost"} :
       /\ losses' = losses + (IF at = "lost" THEN 1 ELSE 0)
       /\ losses' <= MaxLosses
       /\ request' = [request EXCEPT ![s].at = at]
       /\ changed' = [op |-> request[s].op, at |-> at]
  /\ served' = Served(request[s])
  /\ version' = version + 1
  /\ UNCHANGED << cacheVars, dragVars, hidden, undo, gestures >>

(* A mutation of a card that is gone is answered 404; any may fail. *)
Fail(s) ==
  /\ request[s] # None /\ request[s].at = "sent"
  /\ losses' = losses + (IF Possible(request[s]) THEN 1 ELSE 0)
  /\ losses' <= MaxLosses
  /\ request' = [request EXCEPT ![s].at = "failed"]
  /\ UNCHANGED << serverVars, cacheVars, dragVars, hidden, undo, gestures >>

-----------------------------------------------------------------------------
(* The query ['columns', boardId]. *)

(* Mutant: an invalidation lets a fetch that is under way finish. *)
InvalidateJoining ==
  /\ fetch' = IF fetch = None THEN [at |-> "asked"] ELSE fetch
  /\ stale' = TRUE

Invalidate ==
  /\ fetch' = [at |-> "asked"]
  /\ stale' = TRUE

FetchColumns ==
  /\ fetch # None /\ fetch.at = "asked"
  /\ fetch' = [at |-> "read", lists |-> served, version |-> version]
  /\ UNCHANGED << serverVars, shown, seen, stale, missed, request, dragVars, hidden, undo,
                  gestures, losses >>

ShowColumns ==
  /\ fetch # None /\ fetch.at = "read"
  /\ shown' = fetch.lists
  /\ seen' = fetch.version
  /\ fetch' = None /\ stale' = FALSE /\ missed' = FALSE
  /\ UNCHANGED << serverVars, request, dragVars, hidden, undo, gestures, losses >>

(* retry: false *)
LoseFetch ==
  /\ fetch # None
  /\ losses < MaxLosses /\ losses' = losses + 1
  /\ fetch' = None /\ missed' = TRUE
  /\ UNCHANGED << serverVars, shown, seen, stale, request, dragVars, hidden, undo, gestures >>

(* The window gets the focus back: only a stale query is fetched. *)
Focus ==
  /\ stale /\ fetch = None
  /\ Invalidate
  /\ UNCHANGED << serverVars, shown, seen, missed, request, dragVars, hidden, undo,
                  gestures, losses >>

(* setQueryData leaves a running fetch alone and clears isInvalidated. *)
SetColumns(lists) ==
  /\ shown' = lists
  /\ stale' = IF lists = shown THEN stale ELSE FALSE
  /\ UNCHANGED << seen, fetch, missed >>

-----------------------------------------------------------------------------
(* Mutations. *)

Idle == \A s \in Slots : request[s] = None

(* In the lowest free slot: the slots say nothing of an order. *)
Send(q) ==
  \E s \in Slots :
    /\ request[s] = None /\ \A t \in Slots : request[t] = None => s <= t
    /\ request' = [request EXCEPT ![s] = q @@ [at |-> "sent"]]

Gesture == gestures < MaxGestures /\ gestures' = gestures + 1

(* A mutation is answered; any but an ok is an error to the page.  The     *)
(* lists of single columns that the hooks of the cards look after are      *)
(* never loaded: only the invalidation is left of them.                    *)
Settled(s, op, invalidates) ==
  /\ request[s] # None /\ request[s].at # "sent" /\ request[s].op = op
  /\ request' = [request EXCEPT ![s] = None]
  /\ IF invalidates THEN Invalidate ELSE UNCHANGED << fetch, stale >>
  /\ UNCHANGED << serverVars, shown, seen, missed, dragVars, hidden, gestures, losses >>

(* useMoveCard, onSettled *)
MoveCardSettled(s) == Settled(s, "move", TRUE) /\ UNCHANGED undo

(* useReorderCard fetches nothing; the catch of the drop does. *)
ReorderCardSettled(s) == Settled(s, "reorder", request[s].at # "ok") /\ UNCHANGED undo

(* useDeleteCard, onSettled.  The toast is offered by the card's own       *)
(* component, if it is still on the page, or by the list view, which       *)
(* always is.                                                              *)
DeleteCardSettled(s) ==
  /\ Settled(s, "delete", TRUE)
  /\ undo' = IF request[s].at = "ok"
             THEN [op |-> "create", card |-> request[s].card, column |-> request[s].column,
                   position |-> request[s].position]
             ELSE undo

(* useCreateCard, onSuccess *)
CreateCardSettled(s) == Settled(s, "create", request[s].at = "ok") /\ UNCHANGED undo

(* useSortCards, useMoveAllCards, useUpdateColumn and its like, onSuccess *)
ColumnSettled(s) ==
  /\ \E op \in {"sort", "moveAll", "touch"} : Settled(s, op, request[s].at = "ok")
  /\ UNCHANGED undo

DeleteCardShown ==
  /\ drag = None
  /\ Gesture
  /\ \E l \in BoardColumns : \E c \in ToSet(Visible(l)) \ {None} :
       Send([op |-> "delete", card |-> c, column |-> l, position |-> IndexIn(shown[l], c)])
  /\ UNCHANGED << serverVars, cacheVars, dragVars, hidden, undo, losses >>

UndoDelete ==
  /\ undo # None
  /\ Gesture
  /\ Send(undo)
  /\ undo' = None
  /\ UNCHANGED << serverVars, cacheVars, dragVars, hidden, losses >>

(* A new card at the end of its column; nothing is shown of it until then. *)
NewCards ==
  {c \in BoardCards : /\ ColumnsWith(served, c) = {} /\ ColumnsWith(shown, c) = {}
                      /\ \A s \in Slots : request[s] # None
                                           => "card" \notin DOMAIN request[s] \/ request[s].card # c
                      /\ undo = None \/ undo.card # c}

HandleAddCard ==
  /\ drag = None
  /\ Gesture
  /\ \E l \in BoardColumns, c \in NewCards :
       Send([op |-> "create", card |-> c, column |-> l, position |-> Cardinality(BoardCards)])
  /\ UNCHANGED << serverVars, cacheVars, dragVars, hidden, undo, losses >>

(* The menus of a column, and what changes a card or a column without      *)
(* moving a card: titles, labels, checklists, column names.                *)
Command(q) ==
  /\ drag = None
  /\ Gesture
  /\ Send(q)
  /\ UNCHANGED << serverVars, cacheVars, dragVars, hidden, undo, losses >>

HandleSort == \E l \in BoardColumns : Command([op |-> "sort", column |-> l])

HandleMoveAll ==
  \E l, m \in BoardColumns : l # m /\ Command([op |-> "moveAll", column |-> l, target |-> m])

RenameColumn == Command([op |-> "touch"])

-----------------------------------------------------------------------------
(* A drag. *)

(* The index that dragSource keeps is the one among the visible cards. *)
HandleDragStart ==
  /\ drag = None
  /\ Gesture
  /\ \E l \in BoardColumns : \E c \in ToSet(Visible(l)) \ {None} :
       /\ drag' = [card |-> c, over |-> c,
                   calm |-> IF shown = served /\ fetch = None /\ Idle /\ clearing = 0
                            THEN version ELSE None]
       /\ source' = [column |-> l, index |-> IndexIn(Visible(l), c)]
  /\ UNCHANGED << serverVars, cacheVars, request, clearing, hidden, undo, losses >>

(* Over a card: its index in the full list; over a column: past the end.   *)
InsertIndex(l, over) ==
  IF over \in BoardColumns THEN Len(shown[l]) ELSE IndexIn(shown[l], over)

TargetColumns(over) == IF over \in BoardColumns THEN {over} ELSE ColumnsWith(shown, over)

(* Of several columns that hold a card the first one counts: any may be it. *)
HandleDragOver ==
  /\ drag # None
  /\ \E over \in (VisibleCards \cup BoardColumns \cup {None}) \ {drag.over} :
       /\ drag' = [drag EXCEPT !.over = over]
       /\ \/ \E from \in ColumnsWith(shown, drag.card), to \in TargetColumns(over) :
               /\ over # None /\ from # to
               /\ SetColumns([shown EXCEPT ![from] = Without(@, drag.card),
                                           ![to] = Splice(@, InsertIndex(to, over), drag.card)])
          \/ /\ over = None \/ TargetColumns(over) \subseteq ColumnsWith(shown, drag.card)
                \/ ColumnsWith(shown, drag.card) = {}
             /\ UNCHANGED cacheVars
  /\ UNCHANGED << serverVars, request, source, clearing, hidden, undo, gestures, losses >>

(* The end of every drag: the timer is started whatever follows. *)
Release == drag' = None /\ clearing' = clearing + 1 /\ UNCHANGED source

(* Nothing is restored when there is nothing below the card. *)
DropOutside ==
  /\ drag # None /\ drag.over = None
  /\ Release
  /\ UNCHANGED << serverVars, cacheVars, request, hidden, undo, gestures, losses >>

(* A timer of the drag before has cleared dragSource. *)
DropWithoutSource ==
  /\ drag # None /\ drag.over # None /\ source = None
  /\ Release
  /\ UNCHANGED << serverVars, cacheVars, request, hidden, undo, gestures, losses >>

(* Also when the card below has gone: that is the source column's end. *)
DropInColumn ==
  /\ drag # None /\ drag.over # None /\ source # None
  /\ source.column \in TargetColumns(drag.over) \/ TargetColumns(drag.over) = {}
  /\ LET l   == source.column
         new == IF Contains(shown[l], drag.over) THEN IndexIn(shown[l], drag.over)
                ELSE Len(shown[l]) - 1
     IN IF source.index = new
        THEN UNCHANGED << cacheVars, request >>
        ELSE /\ SetColumns([shown EXCEPT ![l] = ArrayMove(@, source.index, new)])
             /\ Send([op |-> "reorder", card |-> drag.card, position |-> new])
  /\ Release
  /\ UNCHANGED << serverVars, hidden, undo, gestures, losses >>

(* Mutant: the card itself stays in the list it is put into. *)
DroppedOverItself(lists, from, to, index, c) ==
  [lists EXCEPT ![from] = Without(@, c), ![to] = Splice(@, index, c)]

Dropped(lists, from, to, index, c) ==
  [lists EXCEPT ![from] = Without(@, c), ![to] = Splice(Without(@, c), index, c)]

DropInOtherColumn ==
  /\ drag # None /\ source # None
  /\ \E to \in TargetColumns(drag.over) \ {source.column} :
       LET index == InsertIndex(to, drag.over)
           lists == Dropped(shown, source.column, to, index, drag.card)
       IN /\ SetColumns(lists)
          /\ Send([op |-> "move", card |-> drag.card, column |-> to, position |-> index,
                   calm |-> drag.calm, expected |-> lists])
  /\ Release
  /\ UNCHANGED << serverVars, hidden, undo, gestures, losses >>

(* Escape, or the browser takes the pointer away. *)
HandleDragCancel ==
  /\ drag # None
  /\ drag' = None /\ source' = None
  /\ Invalidate
  /\ UNCHANGED << serverVars, shown, seen, missed, request, clearing, hidden, undo,
                  gestures, losses >>

ClearDrag ==
  /\ clearing > 0
  /\ clearing' = clearing - 1
  /\ source' = None
  /\ UNCHANGED << serverVars, cacheVars, request, drag, hidden, undo, gestures, losses >>

-----------------------------------------------------------------------------
(* The page as it was loaded, with or without a filter on. *)
BoardInit ==
  /\ served = FirstBoard /\ version = 0 /\ changed = [op |-> "none", at |-> "ok"]
  /\ shown = FirstBoard /\ seen = 0 /\ fetch = None /\ stale = FALSE /\ missed = FALSE
  /\ request = [s \in Slots |-> None]
  /\ drag = None /\ source = None /\ clearing = 0
  /\ hidden \in {{}} \cup {{c} : c \in BoardCards}
  /\ undo = None
  /\ gestures = 0 /\ losses = 0

Network ==
  \/ \E s \in Slots :
       \/ Serve(s) \/ Fail(s)
       \/ MoveCardSettled(s) \/ ReorderCardSettled(s) \/ DeleteCardSettled(s)
       \/ CreateCardSettled(s) \/ ColumnSettled(s)
  \/ FetchColumns \/ ShowColumns \/ LoseFetch

BoardNext ==
  \/ Network \/ Focus
  \/ DeleteCardShown \/ UndoDelete \/ HandleAddCard \/ HandleSort \/ HandleMoveAll \/ RenameColumn
  \/ HandleDragStart \/ HandleDragOver \/ HandleDragCancel \/ ClearDrag
  \/ DropOutside \/ DropWithoutSource \/ DropInColumn \/ DropInOtherColumn

BoardSpec == BoardInit /\ [][BoardNext]_boardVars /\ WF_boardVars(Network) /\ WF_boardVars(ClearDrag)

-----------------------------------------------------------------------------
(* Once the user stops, the page shows a fetch made after the server's     *)
(* last write: a move or a delete is followed by one however it was        *)
(* answered, and no fetch that started earlier can win over it.  Left out  *)
(* are the writes the page does not fetch after: a reorder that succeeded, *)
(* another command whose answer was lost, and a fetch that itself failed.  *)
Converges ==
  <>[](\/ seen = version
       \/ missed
       \/ changed.op = "reorder" /\ changed.at = "ok"
       \/ changed.op \notin {"move", "delete", "reorder"} /\ changed.at = "lost")

(* A drag to another column that started on a page that showed the truth   *)
(* leaves the lists exactly as the server will have them once it handles   *)
(* the move, whatever columns and cards it passed over and whatever a      *)
(* filter hid: the index in the request and the lists in the cache agree.  *)
MoveShowsServer ==
  [][\A s \in Slots :
       /\ request[s] # None /\ request'[s] # None
       /\ request[s].at = "sent" /\ request'[s].at \in {"ok", "lost"}
       /\ request[s].op = "move" /\ request[s].calm = version
       => served' = request[s].expected
    ]_boardVars
=============================================================================
