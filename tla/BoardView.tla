----------------------------- MODULE BoardView -----------------------------
(***************************************************************************)
(* The frame of a board: the switch between its two views, which is kept   *)
(* in the database and shown at once, and the search field, whose text     *)
(* takes effect 300 ms after the last key.                                 *)
(*                                                                         *)
(* One save at a time: the switch does nothing while the last one is       *)
(* pending, so the request id that a late failure is compared with always  *)
(* matches and is left out.                                                *)
(* A search text is a number, given in the order the user types them; 0 is *)
(* the empty text.                                                         *)
(***************************************************************************)
EXTENDS Integers, FiniteSets

CONSTANTS
  MaxSwitches,     (* bound: clicks on the switch, and switches in another tab  *)
  MaxViewErrors,   (* bound: requests and fetches that fail or lose their answer *)
  MaxKeys          (* bound: changes of the search text                         *)

Modes == {"board", "list"}
NoTimer == -1

VARIABLES
  storedMode,      (* view_mode in the database                                 *)
  boardMode,       (* view_mode in the query cache ['board', id]                *)
  modeFetch,       (* the running fetch: [at, mode]                             *)
  shownView,       (* view                                                      *)
  lastServerView,
  viewSaves,           (* the pending save of the view, if any: [next, prev, at]    *)
  switches,        (* switches so far, of this tab and the other                *)
  viewErrors,
  modeBehind,      (* history: nothing was fetched after a switch in another    *)
                   (* tab, or the fetch failed                                  *)
  crossed,         (* history: another tab switched while this page had a save  *)
                   (* of its own that no fetch had shown it yet; an answer of a *)
                   (* save was lost; during a save a fetch brought a mode other *)
                   (* than the one its failure goes back to                     *)
  search, activeSearch,
  searchTimer,     (* the text it will put to use, or NoTimer                   *)
  keys

modeVars   == << storedMode, boardMode, modeFetch, shownView, lastServerView, viewSaves,
                 switches, viewErrors, modeBehind, crossed >>
searchVars == << search, activeSearch, searchTimer, keys >>
viewVars   == << modeVars, searchVars >>

NoModeFetch == [at |-> "none"]

-----------------------------------------------------------------------------
(* The view. *)

HandleViewChange ==
  /\ viewSaves = {}
  /\ switches < MaxSwitches /\ switches' = switches + 1
  /\ \E next \in Modes \ {shownView} :
       /\ viewSaves' = {[next |-> next, prev |-> shownView, at |-> "sent"]}
       /\ shownView' = next
  /\ UNCHANGED << storedMode, boardMode, modeFetch, lastServerView, viewErrors,
                  modeBehind, crossed, searchVars >>

(* The same board in another tab. *)
SwitchElsewhere ==
  /\ switches < MaxSwitches /\ switches' = switches + 1
  /\ storedMode' \in Modes \ {storedMode}
  /\ modeBehind' = TRUE
  /\ crossed' = \/ crossed \/ viewSaves # {}
                 \/ modeFetch # NoModeFetch \/ shownView # lastServerView
  /\ UNCHANGED << boardMode, modeFetch, shownView, lastServerView, viewSaves,
                  viewErrors, searchVars >>

SaveTo(s, at) == viewSaves' = (viewSaves \ {s}) \cup {[s EXCEPT !.at = at]}

ServeSave ==
  \E s \in viewSaves, at \in {"ok", "lost"} :
    /\ s.at = "sent"
    /\ SaveTo(s, at)
    /\ storedMode' = s.next
    /\ viewErrors' = viewErrors + (IF at = "lost" THEN 1 ELSE 0)
    /\ viewErrors' <= MaxViewErrors
    /\ crossed' = (crossed \/ at = "lost")
    /\ UNCHANGED << boardMode, modeFetch, shownView, lastServerView, switches,
                    modeBehind, searchVars >>

FailSave ==
  \E s \in viewSaves :
    /\ s.at = "sent"
    /\ SaveTo(s, "failed")
    /\ viewErrors < MaxViewErrors /\ viewErrors' = viewErrors + 1
    /\ UNCHANGED << storedMode, boardMode, modeFetch, shownView, lastServerView,
                    switches, modeBehind, crossed, searchVars >>

FetchMode == modeFetch' = [at |-> "asked"] /\ modeBehind' = FALSE

(* useUpdateBoard, onSuccess *)
ViewSaved ==
  \E s \in viewSaves :
    /\ s.at = "ok"
    /\ viewSaves' = viewSaves \ {s}
    /\ FetchMode
    /\ UNCHANGED << storedMode, boardMode, shownView, lastServerView, switches,
                    viewErrors, crossed, searchVars >>

(* Mutant: the optimistic view is left on the screen. *)
ViewRejectedKept ==
  \E s \in viewSaves :
    /\ s.at \in {"failed", "lost"}
    /\ viewSaves' = viewSaves \ {s}
    /\ UNCHANGED << storedMode, boardMode, modeFetch, shownView, lastServerView,
                    switches, viewErrors, modeBehind, crossed, searchVars >>

(* handleViewChange, onError *)
ViewRejected ==
  \E s \in viewSaves :
    /\ s.at \in {"failed", "lost"}
    /\ viewSaves' = viewSaves \ {s}
    /\ shownView' = s.prev
    /\ UNCHANGED << storedMode, boardMode, modeFetch, lastServerView, switches,
                    viewErrors, modeBehind, crossed, searchVars >>

ReadMode ==
  /\ modeFetch.at = "asked"
  /\ modeFetch' = [at |-> "read", mode |-> storedMode]
  /\ UNCHANGED << storedMode, boardMode, shownView, lastServerView, viewSaves,
                  switches, viewErrors, modeBehind, crossed, searchVars >>

(* The effect: only a mode other than the last one of the server counts.   *)
ShowMode ==
  /\ modeFetch.at = "read"
  /\ modeFetch' = NoModeFetch
  /\ boardMode' = modeFetch.mode
  /\ IF boardMode' # lastServerView
     THEN lastServerView' = boardMode' /\ shownView' = boardMode'
     ELSE UNCHANGED << lastServerView, shownView >>
  /\ crossed' = (crossed \/ \E s \in viewSaves : s.prev # boardMode')
  /\ UNCHANGED << storedMode, viewSaves, switches, viewErrors, modeBehind, searchVars >>

LoseMode ==
  /\ modeFetch # NoModeFetch
  /\ viewErrors < MaxViewErrors /\ viewErrors' = viewErrors + 1
  /\ modeFetch' = NoModeFetch /\ modeBehind' = TRUE
  /\ UNCHANGED << storedMode, boardMode, shownView, lastServerView, viewSaves,
                  switches, crossed, searchVars >>

-----------------------------------------------------------------------------
(* The search. *)

HandleSearchChange ==
  /\ keys < MaxKeys /\ keys' = keys + 1
  /\ \E text \in {0, keys + 1} :
       /\ text # search
       /\ search' = text /\ searchTimer' = text
  /\ UNCHANGED << activeSearch, modeVars >>

SearchTimerFires ==
  /\ searchTimer # NoTimer
  /\ activeSearch' = searchTimer /\ searchTimer' = NoTimer
  /\ UNCHANGED << search, keys, modeVars >>

(* The cross, Escape, and Clear search on a page without cards. *)
HandleClearSearch ==
  /\ search' = 0 /\ activeSearch' = 0 /\ searchTimer' = NoTimer
  /\ UNCHANGED << keys, modeVars >>

-----------------------------------------------------------------------------
(* The page as it was loaded. *)
ViewInit ==
  /\ storedMode \in Modes
  /\ boardMode = storedMode /\ shownView = storedMode /\ lastServerView = storedMode
  /\ modeFetch = NoModeFetch /\ viewSaves = {}
  /\ switches = 0
  /\ viewErrors = 0 /\ modeBehind = FALSE /\ crossed = FALSE
  /\ search = 0 /\ activeSearch = 0 /\ searchTimer = NoTimer /\ keys = 0

ViewNetwork ==
  ServeSave \/ FailSave \/ ViewSaved \/ ViewRejected \/ ReadMode \/ ShowMode \/ LoseMode

ViewNext ==
  \/ ViewNetwork
  \/ HandleViewChange \/ SwitchElsewhere
  \/ HandleSearchChange \/ SearchTimerFires \/ HandleClearSearch

ViewSpec == ViewInit /\ [][ViewNext]_viewVars /\ WF_viewVars(ViewNetwork)

-----------------------------------------------------------------------------
(* However clicks on the switch, failures and the fetches of earlier saves *)
(* overlap, the view on the screen ends up as the one that is kept.  Left  *)
(* out are a switch in another tab that nothing was fetched after, or that *)
(* crossed a save of this page (the fetch then brings a mode that          *)
(* lastServerView already has, and it does not count), a failed fetch, a   *)
(* save whose answer was lost, and one during which a fetch showed another *)
(* mode than its failure goes back to.                                     *)
ViewConverges == <>[](shownView = storedMode \/ modeBehind \/ crossed)
=============================================================================
