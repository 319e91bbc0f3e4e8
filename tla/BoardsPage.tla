----------------------------- MODULE BoardsPage -----------------------------
(***************************************************************************)
(* The two lists of boards, the open ones and the archived ones, and the   *)
(* dialog that archives or deletes.                                        *)
(*                                                                         *)
(* Each list is a query of its own, and one of them is on the screen.  An  *)
(* invalidation fetches the list on the screen and only marks the other    *)
(* one, which is fetched when the user goes there, unless a fetch of it    *)
(* is still running: then that one's answer takes the mark away.           *)
(* The dialog sends its request and hands over to the page; the page of    *)
(* the archived boards sends the same request once more.                   *)
(***************************************************************************)
EXTENDS Integers, FiniteSets

CONSTANTS
  Boards,
  MaxVisits,        (* bound: changes from one list to the other       *)
  MaxCalls,         (* bound: requests of the page                     *)
  MaxBoardErrors    (* bound: requests and fetches that fail or whose  *)
                    (* answer is lost, 403s and 404s not counted       *)

NoBoard == 0
Lists == {"open", "archived"}

VARIABLES
  where,        (* [Boards -> Lists \cup {"gone"}] in the database                  *)
  viewing,      (* the list on the screen                                           *)
  visits,
  listedBoards, (* [Lists -> SUBSET Boards] in the query cache                      *)
  boardsFetch,  (* [Lists -> the running fetch]                                     *)
  boardsStale,  (* the lists marked isInvalidated                                   *)
  unmarked,     (* history: lists whose last change the cache was not told of       *)
  target,       (* the dialog: its board and the request it waits for, 0 if none    *)
  boardCalls,   (* requests: [id, op, board, visit, at]                             *)
  called, boardErrors,
  undoable      (* the boards of the Undo toasts on the screen                      *)

boardsVars == << where, viewing, visits, listedBoards, boardsFetch, boardsStale,
                 unmarked, target, boardCalls, called, boardErrors, undoable >>

Closed == [board |-> NoBoard, waits |-> 0]
NotFetching == [at |-> "none"]
In(list) == {b \in Boards : where[b] = list}

-----------------------------------------------------------------------------
(* The query client. *)

(* Mutant: useArchiveBoard invalidates the boards alone. *)
InvalidatedByOwn(op) ==
  CASE op \in {"archive"} -> {"open"}
    [] op \in {"restore", "undo"} -> Lists
    [] op \in {"delete", "deleteAgain"} -> {"archived"}

(* onSuccess of useArchiveBoard, useRestoreBoard, usePermanentDeleteBoard *)
InvalidatedBy(op) ==
  CASE op \in {"archive", "restore", "undo"} -> Lists
    [] op \in {"delete", "deleteAgain"} -> {"archived"}

(* The refetch() of the page, which is carried out off the screen as well. *)
RefetchedBy(op) ==
  CASE op \in {"archive", "undo"} -> {"open"}
    [] op \in {"restore", "deleteAgain"} -> {"archived"}
    [] op = "delete" -> {}

(* What a success fetches anew, and what it only marks. *)
Told(op) ==
  LET fetched == (InvalidatedBy(op) \cap {viewing}) \cup RefetchedBy(op)
      marked  == InvalidatedBy(op) \ fetched
  IN /\ boardsFetch' = [l \in Lists |-> IF l \in fetched THEN [at |-> "asked"] ELSE boardsFetch[l]]
     /\ boardsStale' = boardsStale \cup InvalidatedBy(op)
     /\ unmarked' = (unmarked \ fetched) \cup {l \in marked : boardsFetch[l] # NotFetching}

ReadBoards ==
  /\ \E l \in Lists :
       /\ boardsFetch[l].at = "asked"
       /\ boardsFetch' = [boardsFetch EXCEPT ![l] = [at |-> "read", ids |-> In(l)]]
  /\ UNCHANGED << where, viewing, visits, listedBoards, boardsStale, unmarked, target,
                  boardCalls, called, boardErrors, undoable >>

ShowBoards ==
  /\ \E l \in Lists :
       /\ boardsFetch[l].at = "read"
       /\ listedBoards' = [listedBoards EXCEPT ![l] = boardsFetch[l].ids]
       /\ boardsFetch' = [boardsFetch EXCEPT ![l] = NotFetching]
       /\ boardsStale' = boardsStale \ {l}
  /\ UNCHANGED << where, viewing, visits, unmarked, target, boardCalls, called,
                  boardErrors, undoable >>

LoseBoards ==
  /\ boardErrors < MaxBoardErrors /\ boardErrors' = boardErrors + 1
  /\ \E l \in Lists :
       /\ boardsFetch[l] # NotFetching
       /\ boardsFetch' = [boardsFetch EXCEPT ![l] = NotFetching]
       /\ unmarked' = unmarked \cup {l}
  /\ UNCHANGED << where, viewing, visits, listedBoards, boardsStale, target,
                  boardCalls, called, undoable >>

(* The other page is mounted: its query is fetched if it is marked (or     *)
(* older than staleTime), or joins the fetch that is running.  The dialog  *)
(* is gone; its requests and the toasts stay.                              *)
Visit ==
  /\ visits < MaxVisits /\ visits' = visits + 1
  /\ \E l \in Lists \ {viewing} :
       /\ viewing' = l
       /\ IF l \in boardsStale /\ boardsFetch[l] = NotFetching
          THEN /\ boardsFetch' = [boardsFetch EXCEPT ![l] = [at |-> "asked"]]
               /\ unmarked' = unmarked \ {l}
          ELSE UNCHANGED << boardsFetch, unmarked >>
  /\ target' = Closed
  /\ UNCHANGED << where, listedBoards, boardsStale, boardCalls, called, boardErrors,
                  undoable >>

-----------------------------------------------------------------------------
(* The user. *)

Call(op, b) ==
  /\ called < MaxCalls /\ called' = called + 1
  /\ boardCalls' = boardCalls \cup {[id |-> called + 1, op |-> op, board |-> b,
                                   visit |-> visits, at |-> "sent"]}

(* isPending of a mutation of the page that is mounted. *)
PendingHere(op) == \E c \in boardCalls : c.op = op /\ c.visit = visits

OpenDialog ==
  /\ target.board = NoBoard
  /\ viewing = "archived" => ~PendingHere("deleteAgain")
  /\ \E b \in listedBoards[viewing] : target' = [board |-> b, waits |-> 0]
  /\ UNCHANGED << where, viewing, visits, listedBoards, boardsFetch, boardsStale,
                  unmarked, boardCalls, called, boardErrors, undoable >>

(* Cancel, Escape: also while the request is on its way. *)
DismissDialog ==
  /\ target.board # NoBoard
  /\ target' = Closed
  /\ UNCHANGED << where, viewing, visits, listedBoards, boardsFetch, boardsStale,
                  unmarked, boardCalls, called, boardErrors, undoable >>

(* The dialog of the open boards is a new one each time; the one of the    *)
(* archived boards stays mounted and remembers that it is pending.         *)
ConfirmDialog ==
  /\ target.board # NoBoard /\ target.waits = 0
  /\ \/ viewing = "open" /\ Call("archive", target.board)
     \/ viewing = "archived" /\ ~PendingHere("delete") /\ Call("delete", target.board)
  /\ target' = [target EXCEPT !.waits = called']
  /\ UNCHANGED << where, viewing, visits, listedBoards, boardsFetch, boardsStale,
                  unmarked, boardErrors, undoable >>

HandleRestore ==
  /\ viewing = "archived" /\ target.board = NoBoard /\ ~PendingHere("restore")
  /\ \E b \in listedBoards["archived"] : Call("restore", b)
  /\ UNCHANGED << where, viewing, visits, listedBoards, boardsFetch, boardsStale,
                  unmarked, target, boardErrors, undoable >>

UndoArchive ==
  /\ \E b \in undoable : Call("undo", b) /\ undoable' = undoable \ {b}
  /\ UNCHANGED << where, viewing, visits, listedBoards, boardsFetch, boardsStale,
                  unmarked, target, boardErrors >>

-----------------------------------------------------------------------------
(* The server, and what its answers do. *)

(* 404 for a board that is gone, 403 for one that is not archived. *)
Allowed(c) ==
  IF c.op \in {"delete", "deleteAgain"} THEN where[c.board] = "archived" ELSE where[c.board] # "gone"

Goal(op) ==
  CASE op = "archive" -> "archived"
    [] op \in {"restore", "undo"} -> "open"
    [] op \in {"delete", "deleteAgain"} -> "gone"

Gets(c, at) == boardCalls' = (boardCalls \ {c}) \cup {[c EXCEPT !.at = at]}

(* Both lists may show it; a lost answer tells neither. *)
ServeCall ==
  \E c \in boardCalls, at \in {"ok", "lost"} :
    /\ c.at = "sent" /\ Allowed(c)
    /\ Gets(c, at)
    /\ where' = [where EXCEPT ![c.board] = Goal(c.op)]
    /\ boardErrors' = boardErrors + (IF at = "lost" THEN 1 ELSE 0)
    /\ boardErrors' <= MaxBoardErrors
    /\ unmarked' = IF at = "lost" THEN Lists ELSE unmarked
    /\ UNCHANGED << viewing, visits, listedBoards, boardsFetch, boardsStale, target,
                    called, undoable >>

FailCall ==
  \E c \in boardCalls :
    /\ c.at = "sent"
    /\ Gets(c, "failed")
    /\ boardErrors' = boardErrors + (IF Allowed(c) THEN 1 ELSE 0)
    /\ boardErrors' <= MaxBoardErrors
    /\ UNCHANGED << where, viewing, visits, listedBoards, boardsFetch, boardsStale,
                    unmarked, target, called, undoable >>

(* handleDelete closes whatever dialog the page has by now; onDeleted      *)
(* offers Undo.                                                            *)
Archived ==
  \E c \in boardCalls :
    /\ c.op = "archive" /\ c.at = "ok"
    /\ boardCalls' = boardCalls \ {c}
    /\ Told(c.op)
    /\ target' = IF c.visit = visits THEN Closed ELSE target
    /\ undoable' = undoable \cup {c.board}
    /\ UNCHANGED << where, viewing, visits, listedBoards, called, boardErrors >>

(* onDeleted is handlePermanentDeleteConfirm, which deletes again. *)
Deleted ==
  \E c \in boardCalls :
    /\ c.op = "delete" /\ c.at = "ok"
    /\ boardCalls' = (boardCalls \ {c}) \cup {[c EXCEPT !.op = "deleteAgain", !.at = "sent"]}
    /\ Told(c.op)
    /\ target' = IF c.visit = visits THEN Closed ELSE target
    /\ UNCHANGED << where, viewing, visits, listedBoards, called, boardErrors,
                    undoable >>

CallSettled ==
  \E c \in boardCalls :
    /\ c.op \in {"restore", "undo", "deleteAgain"} /\ c.at = "ok"
    /\ boardCalls' = boardCalls \ {c}
    /\ Told(c.op)
    /\ target' = IF c.op = "deleteAgain" /\ c.visit = visits THEN Closed ELSE target
    /\ UNCHANGED << where, viewing, visits, listedBoards, called, boardErrors,
                    undoable >>

(* An error toast; the dialog stays as it is, and can be confirmed again. *)
CallRejected ==
  \E c \in boardCalls :
    /\ c.at \in {"failed", "lost"}
    /\ boardCalls' = boardCalls \ {c}
    /\ target' = IF target.waits = c.id THEN [target EXCEPT !.waits = 0] ELSE target
    /\ UNCHANGED << where, viewing, visits, listedBoards, boardsFetch, boardsStale,
                    unmarked, called, boardErrors, undoable >>

-----------------------------------------------------------------------------
BoardsInit ==
  /\ where = [b \in Boards |-> IF b = 1 THEN "open" ELSE "archived"]
  /\ viewing = "open" /\ visits = 0
  /\ listedBoards = [l \in Lists |-> In(l)]
  /\ boardsFetch = [l \in Lists |-> NotFetching] /\ boardsStale = {} /\ unmarked = {}
  /\ target = Closed /\ boardCalls = {} /\ called = 0 /\ boardErrors = 0
  /\ undoable = {}

BoardsNetwork ==
  \/ ServeCall \/ FailCall \/ Archived \/ Deleted \/ CallSettled \/ CallRejected
  \/ ReadBoards \/ ShowBoards \/ LoseBoards

BoardsNext ==
  BoardsNetwork \/ Visit \/ OpenDialog \/ DismissDialog \/ ConfirmDialog \/ HandleRestore \/ UndoArchive

BoardsSpec == BoardsInit /\ [][BoardsNext]_boardsVars /\ WF_boardsVars(BoardsNetwork)

-----------------------------------------------------------------------------
(* Whatever is archived, restored and deleted from either page, with the   *)
(* other page's list off the screen and with navigation in between, a list *)
(* ends up as the server has it or is marked to be fetched when it is next *)
(* looked at.  Left out: a lost answer, a failed fetch, and a list that    *)
(* was left while its fetch ran and changed before the fetch ended.        *)
BoardsConverge ==
  <>[](\A l \in Lists : \/ listedBoards[l] = In(l)
                        \/ l \in boardsStale \ {viewing}
                        \/ l \in unmarked)
=============================================================================
