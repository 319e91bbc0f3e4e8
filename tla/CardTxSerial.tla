---------------------------- MODULE CardTxSerial ----------------------------
(***************************************************************************)
(* What the locks of a transaction on cards keep for it, and what its      *)
(* handler knows and has written: the invariant of the proof that every    *)
(* commit is what its request does alone (CardTxProofs!CommitsAreSerial).  *)
(*                                                                         *)
(* A transaction is sure of the columns whose rows nobody else can change  *)
(* before it ends: it has locked their highest card, or, at REPEATABLE     *)
(* READ, the whole range of an empty one.  Of these columns what it read   *)
(* is what is committed (Counted, Placed), and the newest versions are its *)
(* own writes, so many statements of the handler on (Wrote).               *)
(***************************************************************************)
EXTENDS CardTx

(* Card k stays in column c, whatever is asked for. *)
Keeps(k, c) ==
  /\ InitColumn[k] = c
  /\ \A r \in Requests : /\ r.op = "move" /\ r.card = k => r.column \in {Absent, c}
                         /\ r.op = "bulk" => r.column # c

(* No card of another column is put into c. *)
Outlet(c) ==
  \A r \in Requests : (r.op = "move" => r.column # c) /\ (r.op = "bulk" => r.target # c)

(* Requests and rows of which the locks are enough: none is a delete, which *)
(* locks no other card of its column, and a column that a move can enter    *)
(* always has a card to lock.  A move runs at READ COMMITTED, where an      *)
(* empty column leaves nothing to lock.                                     *)
Steady ==
  /\ \A r \in Requests : r.op # "delete"
  /\ \A c \in Columns : Outlet(c) \/ \E k \in Cards : Keeps(k, c)

(* The rows at the start hold 0 .. N-1 in each column. *)
DenseStart == \A c \in Columns : DenseColumn(InitColumn, InitPosition, c)

-----------------------------------------------------------------------------
(* The columns whose cards p has locked; *)
Cols(p) ==
  IF tx[p].pc \in {"idle", "owned", "first"} THEN {}
  ELSE IF tx[p].pc = "second" THEN {LockOrder(p)[1]} ELSE {Source(p), Target(p)}

(* those of which it holds a committed row, *)
Owns(p) == {c \in Cols(p) : \E k \in Held(p) : column[k] = c}

(* and those nobody else changes: the others are empty, at READ COMMITTED.  *)
Sure(p) == {c \in Cols(p) : c \in Owns(p) \/ tx[p].request.op # "move"}

(* Card j is the last committed one of c. *)
Top(j, c) == column[j] = c /\ \A i \in Cards : column[i] = c => position[i] <= position[j]

Locked(p, c) ==
  IF c \in Owns(p) THEN \A j \in Cards : Top(j, c) => j \in Held(p)
  ELSE /\ << p, c, From(0) >> \in gaps
       /\ \A k \in Cards : column[k] # c /\ (newColumn[k] = c => k \in Held(p))

(* The move found its source empty: its card has left for good. *)
Gone(p, c) ==
  /\ c = Source(p) /\ Outlet(c)
  /\ column[tx[p].request.card] # c /\ newColumn[tx[p].request.card] # c

(* What p has written is in the columns it is sure of, and they are locked. *)
Guards(p) ==
  /\ \A k \in Held(p) : newColumn[k] \in Sure(p) /\ column[k] \in Sure(p) \cup {NotCreated}
  /\ \A c \in Sure(p) : Locked(p, c)
  /\ \A c \in Cols(p) \ Sure(p) : Gone(p, c)

-----------------------------------------------------------------------------
(* What the handler knows of the committed rows. *)

(* what the checks before the first lock have left; *)
Asked(p) ==
  LET t == tx[p]
      r == t.request
  IN /\ t.pc # "idle" /\ r.op # "move" => t.source = r.column /\ t.level = "repeatable read"
     /\ t.pc # "idle" /\ r.op = "bulk" =>
          r.column # r.target /\ BoardOf[r.column] = BoardOf[r.target]
     /\ t.pc \notin {"idle", "owned"} /\ r.op = "move" => column[r.card] # NotCreated
     /\ t.pc = "second" => Source(p) # Target(p)
     /\ t.pc = "open" /\ r.op = "create" => r.position # Absent

Ranked(p, before) ==
  LET rows == InColumn(column, Source(p))
  IN tx[p].ranks = [k \in rows |-> IndexIn(rows, before, k)]

(* what the locking reads have counted, numbered and ranked; *)
CountedIn(p, c) ==
  LET r == tx[p].request
      seen == tx[p].seen
  IN /\ r.op = "move" => seen[c] = Cardinality(InColumn(column, c))
     /\ ReadsMax(p, c) => seen[c] = MaxPosition(column, position, c)
     /\ r.op = "sort" /\ c = Source(p) => Ranked(p, ByAge(r.desc))
     /\ r.op = "bulk" /\ c = Source(p) => Ranked(p, ByPosition(position))

Counted(p) == \A c \in Sure(p) : CountedIn(p, c)

(* where the card of a move is. *)
Placed(p) ==
  LET t == tx[p]
      k == t.request.card
  IN t.pc \in {"close", "shift", "open", "point", "commit"} /\ t.request.op = "move" =>
       /\ column[k] = Source(p) /\ t.spot = position[k] /\ k \in Held(p)
       /\ t.pc \in {"close", "open"} => Target(p) # Source(p)
       /\ t.pc = "shift" => Target(p) = Source(p)

-----------------------------------------------------------------------------
(* What it has written: the newest rows of the columns it has locked.       *)

RowsAre(p, col, pos) ==
  \A k \in Cards : column[k] \in Sure(p) \/ newColumn[k] \in Sure(p)
                     => newColumn[k] = col[k] /\ newPosition[k] = pos[k]

Closed(p) == CloseGap(column, position, Source(p), tx[p].spot)

Shifted(p) ==
  LET r == tx[p].request
      slot == Slot(p)
      spot == tx[p].spot
  IN CASE r.op = "create" -> IF r.position = Absent THEN position
                             ELSE OpenGap(column, position, Source(p), slot)
       [] r.op = "move" ->
            IF Target(p) # Source(p) THEN OpenGap(column, Closed(p), Target(p), slot)
            ELSE IF slot < spot THEN ShiftUp(column, position, Source(p), slot, spot)
            ELSE ShiftDown(column, position, Source(p), spot, slot)

PlacedAs(p, k) == RowsAre(p, [column EXCEPT ![k] = Target(p)], [Shifted(p) EXCEPT ![k] = Slot(p)])

Wrote(p) ==
  LET pc == tx[p].pc
      r == tx[p].request
      here(k) == column[k] = Source(p)
  IN /\ pc \in {"second", "spot", "close", "shift", "rewrite", "append"} =>
          RowsAre(p, column, position)
     /\ pc = "open" => RowsAre(p, column, IF r.op = "move" THEN Closed(p) ELSE position)
     /\ pc \in {"insert", "point"} => RowsAre(p, column, Shifted(p))
     /\ pc = "commit" /\ r.op = "move" => PlacedAs(p, r.card)
     /\ pc = "commit" /\ r.op = "create" =>
          \E k \in Held(p) : column[k] = NotCreated /\ PlacedAs(p, k)
     /\ pc = "commit" /\ r.op = "sort" =>
          RowsAre(p, column, [k \in Cards |-> IF here(k) THEN tx[p].ranks[k] ELSE position[k]])
     /\ pc = "commit" /\ r.op = "bulk" =>
          RowsAre(p, [k \in Cards |-> IF here(k) THEN Target(p) ELSE column[k]],
                [k \in Cards |-> IF here(k) THEN tx[p].seen[Target(p)] + 1 + tx[p].ranks[k]
                                 ELSE position[k]])

Serial(p) == Guards(p) /\ Asked(p) /\ Counted(p) /\ Placed(p) /\ Wrote(p)

-----------------------------------------------------------------------------
(* The cards that keep a column from running empty, *)
Pins == \A k \in Cards, c \in Columns : Keeps(k, c) => column[k] = c

(* and the bound on creates: one that came this far finds an id. *)
EnoughIds == Cardinality(Creating) <= Cardinality(IdsLeft)

SerialInv == Pins /\ EnoughIds /\ \A p \in Procs : Serial(p)

-----------------------------------------------------------------------------
(* The rows of other tables that a move locks when it reads its spot again. *)
SpotRows(p) ==
  IF tx[p].pc \in {"close", "shift", "open", "point"}
  THEN {ColumnRow(Source(p)), BoardRow(BoardOf[Source(p)])} ELSE {}

(* A move takes no gaps, and no other rows than those until it commits.     *)
LocksKept(p) ==
  LET mine == {l \in locks : l[1] = p}
  IN /\ tx[p].pc \in {"idle", "owned", "first"} => mine = {} /\ \A g \in gaps : g[1] # p
     /\ tx[p].pc # "idle" /\ tx[p].request.op = "move" =>
          /\ tx[p].level = "read committed" /\ \A g \in gaps : g[1] # p
          /\ \A l \in mine : tx[p].pc = "commit" \/ (\E k \in Cards : l[2] = CardRow(k)) \/ l[2] \in SpotRows(p)

LockInv == \A p \in Procs : LocksKept(p)
=============================================================================
