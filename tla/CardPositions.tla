--------------------------- MODULE CardPositions ---------------------------
(***************************************************************************)
(* The position arithmetic of the cards of a board, one request at a time. *)
(*                                                                         *)
(* Every action is one whole transaction of backend-rs: the card handlers  *)
(* create, move (PATCH with column_id and/or position) and delete, and the *)
(* two column handlers that rewrite card positions, sort and move-cards.   *)
(* Inside an action the set-based UPDATE statements are applied in the     *)
(* order the handler issues them; each is an operator from a position      *)
(* table to a position table.  Requests that end in a 4xx change nothing   *)
(* and are not actions.  How transactions interleave is CardTx's subject.  *)
(***************************************************************************)
EXTENDS Integers, FiniteSets

CONSTANTS
  Cards,       (* cards.id values; AUTO_INCREMENT, so an id is used once    *)
  Columns,     (* columns.id values of the caller's boards                  *)
  BoardOf,     (* columns.board_id                                          *)
  CreatedAt,   (* cards.created_at of each id                               *)
  Requested,   (* the positions a request body may carry (any i32)          *)
  Absent,      (* the key is missing from the body                          *)
  NotCreated,  (* the id has not been handed out yet                        *)
  Deleted      (* the row is gone                                           *)

ASSUME ConstantsAssumption ==
  /\ Cards \subseteq Nat
  /\ Requested \subseteq Int
  /\ CreatedAt \in [Cards -> Nat]
  /\ Absent \notin Requested
  /\ Absent \notin Columns
  /\ NotCreated \notin Columns
  /\ Deleted \notin Columns
  /\ NotCreated # Deleted

VARIABLES
  column,    (* cards.column_id, or NotCreated / Deleted *)
  position   (* cards.position, 0 where there is no row  *)

vars == << column, position >>

-----------------------------------------------------------------------------
(* The SELECTs. *)

InColumn(col, c) == {k \in Cards : col[k] = c}

(* COALESCE(MAX(position), -1) *)
MaxPosition(col, pos, c) ==
  IF InColumn(col, c) = {}
  THEN -1
  ELSE CHOOSE m \in {pos[k] : k \in InColumn(col, c)} :
         \A k \in InColumn(col, c) : pos[k] <= m

(* Mutant: the lower bound forgotten. *)
ClampAbove(requested, upper) == IF requested > upper THEN upper ELSE requested

ClampPosition(requested, upper) ==
  IF requested < 0 \/ upper < 0 THEN 0
  ELSE IF requested > upper THEN upper ELSE requested

-----------------------------------------------------------------------------
(* The set-based UPDATEs. *)

(* position >= p moves up by one *)
OpenGap(col, pos, c, p) ==
  [k \in Cards |-> IF col[k] = c /\ pos[k] >= p THEN pos[k] + 1 ELSE pos[k]]

(* position > p moves down by one *)
CloseGap(col, pos, c, p) ==
  [k \in Cards |-> IF col[k] = c /\ pos[k] > p THEN pos[k] - 1 ELSE pos[k]]

(* the band [new, old) moves up by one *)
ShiftUp(col, pos, c, new, old) ==
  [k \in Cards |-> IF col[k] = c /\ new <= pos[k] /\ pos[k] < old
                   THEN pos[k] + 1 ELSE pos[k]]

(* Mutant: the band (old, new), the new slot itself left out. *)
ShiftDownExclusive(col, pos, c, old, new) ==
  [k \in Cards |-> IF col[k] = c /\ old < pos[k] /\ pos[k] < new
                   THEN pos[k] - 1 ELSE pos[k]]

(* the band (old, new] moves down by one *)
ShiftDown(col, pos, c, old, new) ==
  [k \in Cards |-> IF col[k] = c /\ old < pos[k] /\ pos[k] <= new
                   THEN pos[k] - 1 ELSE pos[k]]

(* ORDER BY created_at ASC|DESC, id ASC: the pairs <<j, k>> with j first. *)
ByAge(desc) ==
  {p \in Cards \X Cards :
     \/ CreatedAt[p[1]] = CreatedAt[p[2]] /\ p[1] < p[2]
     \/ ~desc /\ CreatedAt[p[1]] < CreatedAt[p[2]]
     \/ desc /\ CreatedAt[p[1]] > CreatedAt[p[2]]}

(* ORDER BY position ASC; equal positions come back in index (id) order. *)
ByPosition(pos) ==
  {p \in Cards \X Cards :
     \/ pos[p[1]] < pos[p[2]]
     \/ pos[p[1]] = pos[p[2]] /\ p[1] < p[2]}

(* The index of row k in the result of a SELECT of rows ordered by before. *)
IndexIn(rows, before, k) == Cardinality({j \in rows : << j, k >> \in before})

(* CASE id WHEN .. THEN index: the rows of c rewritten to 0 .. N-1. *)
RewritePositions(col, pos, c, before) ==
  [k \in Cards |-> IF col[k] = c
                   THEN IndexIn(InColumn(col, c), before, k) ELSE pos[k]]

(* Mutant: the select of the source rows without its ORDER BY position. *)
AppendByAge(col, pos, source, max) ==
  [k \in Cards |-> IF col[k] = source
                   THEN max + 1 + IndexIn(InColumn(col, source), ByAge(FALSE), k)
                   ELSE pos[k]]

(* The rows of source numbered on from max, in the order of the select. *)
AppendAfter(col, pos, source, max) ==
  [k \in Cards |-> IF col[k] = source
                   THEN max + 1 + IndexIn(InColumn(col, source), ByPosition(pos), k)
                   ELSE pos[k]]

-----------------------------------------------------------------------------
(* The handlers. *)

Init ==
  /\ column = [k \in Cards |-> NotCreated]
  /\ position = [k \in Cards |-> 0]

(* POST /cards: append, or open a gap at the clamped position, then insert. *)
CreateCard(k, c, requested) ==
  /\ column[k] = NotCreated
  /\ LET end == MaxPosition(column, position, c) + 1
         p == IF requested = Absent THEN end ELSE ClampPosition(requested, end)
         opened == IF requested = Absent THEN position
                   ELSE OpenGap(column, position, c, p)
     IN position' = [opened EXCEPT ![k] = p]
  /\ column' = [column EXCEPT ![k] = c]

(* PATCH /cards/{id} that stays in its column: one band shift, one point    *)
(* write.  A body with column_id only keeps the (clamped) present position. *)
ReorderCard(k, requested) ==
  /\ column[k] \in Columns
  /\ LET c == column[k]
         old == position[k]
         upper == Cardinality(InColumn(column, c)) - 1
         new == ClampPosition(IF requested = Absent THEN old ELSE requested, upper)
         shifted == IF new < old THEN ShiftUp(column, position, c, new, old)
                    ELSE IF new > old THEN ShiftDown(column, position, c, old, new)
                    ELSE position
     IN position' = [shifted EXCEPT ![k] = new]
  /\ UNCHANGED column

(* PATCH /cards/{id} to another column: close the gap behind the card, open *)
(* one at the clamped target position (its end when none is requested).     *)
TransferCard(k, target, requested) ==
  /\ column[k] \in Columns \ {target}
  /\ LET count == Cardinality(InColumn(column, target))
         closed == CloseGap(column, position, column[k], position[k])
         new == IF requested = Absent THEN count ELSE ClampPosition(requested, count)
         opened == OpenGap(column, closed, target, new)
     IN position' = [opened EXCEPT ![k] = new]
  /\ column' = [column EXCEPT ![k] = target]

(* DELETE /cards/{id}: the row first, then the gap it leaves. *)
DeleteCard(k) ==
  /\ column[k] \in Columns
  /\ column' = [column EXCEPT ![k] = Deleted]
  /\ position' = [CloseGap(column', position, column[k], position[k]) EXCEPT ![k] = 0]

(* PATCH /columns/{id} with sort_order. *)
SortColumn(c, desc) ==
  /\ position' = RewritePositions(column, position, c, ByAge(desc))
  /\ UNCHANGED column

(* POST /columns/{id}/move-cards: everything in source goes to the end of   *)
(* target, in source order.  An empty source is a success that writes       *)
(* nothing.                                                                 *)
MoveCards(source, target) ==
  /\ source # target
  /\ BoardOf[source] = BoardOf[target]
  /\ position' = AppendAfter(column, position, source,
                             MaxPosition(column, position, target))
  /\ column' = [k \in Cards |-> IF column[k] = source THEN target ELSE column[k]]

Next ==
  \/ \E k \in Cards, c \in Columns, r \in Requested \cup {Absent} :
       CreateCard(k, c, r) \/ TransferCard(k, c, r)
  \/ \E k \in Cards, r \in Requested \cup {Absent} : ReorderCard(k, r)
  \/ \E k \in Cards : DeleteCard(k)
  \/ \E c \in Columns, desc \in BOOLEAN : SortColumn(c, desc)
  \/ \E source, target \in Columns : MoveCards(source, target)

Spec == Init /\ [][Next]_vars

-----------------------------------------------------------------------------
(* A row is in a column of the caller, was deleted, or is still to come.    *)
(* Positions never go negative: every decrement is guarded by position > p  *)
(* with p at least 0.                                                       *)
TypeOK ==
  /\ column \in [Cards -> Columns \cup {NotCreated, Deleted}]
  /\ position \in [Cards -> Nat]

DenseColumn(col, pos, c) ==
  LET rows == InColumn(col, c) IN
  /\ \A j, k \in rows : pos[j] = pos[k] => j = k
  /\ {pos[k] : k \in rows} = 0 .. (Cardinality(rows) - 1)

(* The cards of a column hold exactly the positions 0 .. N-1, each once,    *)
(* whatever mix of requests came before: the oracle assert_dense of         *)
(* tests/api/cards_move.rs, for every request and not only for moves.       *)
Dense == \A c \in Columns : DenseColumn(column, position, c)

-----------------------------------------------------------------------------
(* The list a column shows: its cards by position (GET orders them so). *)
Listed(col, pos, c) ==
  [i \in 1 .. Cardinality(InColumn(col, c)) |->
     CHOOSE k \in InColumn(col, c) : pos[k] = i - 1]

Order == INSTANCE CardOrder WITH
           order <- [c \in Columns |-> Listed(column, position, c)],
           issued <- {k \in Cards : column[k] # NotCreated}

(* Every request does to the listed order exactly what CardOrder says: the  *)
(* gap, band and point writes of one transaction amount to taking the card  *)
(* out of one list and putting it into another (cards/store.rs).            *)
ImplementsOrder == Order!Spec
=============================================================================
