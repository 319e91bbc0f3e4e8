------------------------------- MODULE CardTx -------------------------------
(***************************************************************************)
(* The transactions that write card positions, statement by statement, as  *)
(* several requests run them against one MySQL server.                     *)
(*                                                                         *)
(* External to src/ and modelled from how the code relies on it: InnoDB's  *)
(* row locks, its gap locks under REPEATABLE READ (none under READ         *)
(* COMMITTED), the shared lock a foreign-key check takes on the parent     *)
(* row, and lock-wait errors 1213 and 1205.  A statement gets all the      *)
(* locks it needs at once or waits; a locking read, an UPDATE and a DELETE *)
(* act on the newest row versions, a plain SELECT on committed ones.  Gap  *)
(* locks are the narrowest the statement must take.                        *)
(*                                                                         *)
(* The committed rows are the table of CardPositions, whose actions say    *)
(* what each request does alone.                                           *)
(***************************************************************************)
EXTENDS CardPositions, Sequences

CONSTANTS
  Procs,            (* requests served at the same time                     *)
  Requests,         (* what clients may ask for, see RequestsAssumption     *)
  InitColumn,       (* the committed cards rows at the start                *)
  InitPosition,
  MoveMaxAttempts,  (* MOVE_MAX_ATTEMPTS                                    *)
  MayAbandon        (* a handler's future may be dropped                    *)

(* column and position are the committed cards rows. *)
VARIABLES
  newColumn, newPosition,  (* the newest version of each row                *)
  locks,                   (* {<< tx, row, "S" or "X" >>}                   *)
  gaps,                    (* {<< tx, column, range of the index >>}        *)
  tx                       (* the transaction of each request being served  *)

table == << column, position >>
newest == << newColumn, newPosition >>
txVars == << table, newest, locks, gaps, tx >>

ASSUME RequestsAssumption ==
  Requests \subseteq
         [op : {"create"}, column : Columns, position : Requested \cup {Absent}]
    \cup [op : {"move"}, card : Cards, column : Columns \cup {Absent},
          position : Requested \cup {Absent}]
    \cup [op : {"delete"}, card : Cards]
    \cup [op : {"sort"}, column : Columns, desc : BOOLEAN]
    \cup [op : {"bulk"}, column : Columns, target : Columns]

ASSUME RowsAssumption ==
  /\ Cards \subseteq Nat /\ IsFiniteSet(Cards)
  /\ Columns \subseteq Nat /\ Columns \cap {Absent, NotCreated, Deleted} = {}
  /\ Requested \subseteq Int /\ Absent \notin Requested
  /\ InitColumn \in [Cards -> Columns \cup {NotCreated, Deleted}]
  /\ InitPosition \in [Cards -> Nat]

ASSUME BoundsAssumption ==
  /\ IsFiniteSet(Procs)
  /\ MoveMaxAttempts \in Nat \ {0}
  /\ MayAbandon \in BOOLEAN

Idle == [pc |-> "idle"]

-----------------------------------------------------------------------------
(* Locks. *)

CardRow(k) == << "card", k >>
ColumnRow(c) == << "column", c >>
BoardRow(b) == << "board", b >>

(* Ranges of a column's part of the index on (column_id, position), as the  *)
(* WHERE clauses have them.                                                 *)
From(m)        == [where |-> ">=", low |-> m]
After(m)       == [where |-> ">", low |-> m]
FromUpTo(m, n) == [where |-> ">= <", low |-> m, high |-> n]
AfterUpTo(m, n) == [where |-> "> <=", low |-> m, high |-> n]

InRange(i, range) ==
  CASE range.where = ">="   -> i >= range.low
    [] range.where = ">"    -> i > range.low
    [] range.where = ">= <" -> range.low <= i /\ i < range.high
    [] range.where = "> <=" -> range.low < i /\ i <= range.high

Held(p) == {k \in Cards : << p, CardRow(k), "X" >> \in locks}

(* The rows an index range scan meets: live entries and entries that an     *)
(* uncommitted transaction has delete-marked.                               *)
Scan(c, range) ==
  {k \in Cards : \/ newColumn[k] = c /\ InRange(newPosition[k], range)
                 \/ column[k] = c /\ InRange(position[k], range)}

(* A statement: the cards it locks, the other rows it locks, the gaps it    *)
(* locks, and the newest table after it.                                    *)
Statement(cards, others, ranges, col, pos) ==
  [cards |-> cards, others |-> others, gaps |-> ranges, column |-> col, position |-> pos]

Select(cards, ranges) == Statement(cards, {}, ranges, newColumn, newPosition)
Update(c, range, pos) == Statement(Scan(c, range), {}, {<< c, range >>}, newColumn, pos)

(* The (column_id, position) index entries a statement adds. *)
Entries(s) ==
  {<< s.column[k], s.position[k] >> : k \in
     {j \in Cards : << s.column[j], s.position[j] >> # << newColumn[j], newPosition[j] >>}}

(* Transaction q holds what statement s, of another transaction, needs. *)
InTheWay(q, s) ==
  \/ \E k \in s.cards : << q, CardRow(k), "X" >> \in locks
  \/ \E o \in s.others, mode \in {"S", "X"} :
       << q, o[1], mode >> \in locks /\ "X" \in {o[2], mode}
  \/ \E e \in Entries(s), g \in gaps : g[1] = q /\ g[2] = e[1] /\ InRange(e[2], g[3])

Grantable(p, s) == \A q \in Procs \ {p} : ~InTheWay(q, s)

-----------------------------------------------------------------------------
(* What the handlers compute between statements. *)

Source(p) == tx[p].source
Target(p) ==
  LET r == tx[p].request
  IN CASE r.op = "bulk" -> r.target
       [] r.op = "move" -> IF r.column = Absent THEN Source(p) ELSE r.column
       [] OTHER -> Source(p)

(* Mutant: the source column first, whatever the ids. *)
LockOrderSourceFirst(p) ==
  IF Source(p) = Target(p) THEN << Source(p) >> ELSE << Source(p), Target(p) >>

(* The columns whose cards are locked first, in ascending id order. *)
LockOrder(p) ==
  IF Source(p) = Target(p) THEN << Source(p) >>
  ELSE IF Source(p) < Target(p) THEN << Source(p), Target(p) >>
  ELSE << Target(p), Source(p) >>

(* create and the target of move-cards lock and read only MAX(position). *)
ReadsMax(p, c) ==
  \/ tx[p].request.op = "create"
  \/ tx[p].request.op = "bulk" /\ c = Target(p)

LastEntry(c) ==
  LET used == {newPosition[k] : k \in {j \in Cards : newColumn[j] = c}}
                \cup {position[k] : k \in {j \in Cards : column[j] = c}}
  IN IF used = {} THEN 0 ELSE CHOOSE m \in used : \A u \in used : u <= m

(* The slot a request ends up in, from what its locking reads returned.     *)
Slot(p) ==
  LET wanted == tx[p].request.position
      seen == tx[p].seen[Target(p)]
  IN IF tx[p].request.op = "create"
     THEN IF wanted = Absent THEN seen + 1 ELSE ClampPosition(wanted, seen + 1)
     ELSE IF Target(p) = Source(p)
     THEN ClampPosition(IF wanted = Absent THEN tx[p].spot ELSE wanted, seen - 1)
     ELSE IF wanted = Absent THEN seen ELSE ClampPosition(wanted, seen)

-----------------------------------------------------------------------------
(* The statements, one per store function. *)

(* Mutant: row locks but no gap lock, as at READ COMMITTED. *)
LockColumnRowsOnly(p, c) ==
  Select(Scan(c, From(IF ReadsMax(p, c) THEN LastEntry(c) ELSE 0)), {})

LockColumn(p, c) ==
  LET range == From(IF ReadsMax(p, c) THEN LastEntry(c) ELSE 0)
  IN Select(Scan(c, range), {<< c, range >>})

(* FOR UPDATE of a three-table join locks the board and column rows too. *)
LockSpot(p) ==
  LET k == tx[p].request.card
      c == newColumn[k]
  IN Statement({k},
               IF c \in Columns
               THEN {<< ColumnRow(c), "X" >>, << BoardRow(BoardOf[c]), "X" >>} ELSE {},
               {}, newColumn, newPosition)

CloseCardGap(p) ==
  Update(Source(p), After(tx[p].spot),
         CloseGap(newColumn, newPosition, Source(p), tx[p].spot))

OpenCardGap(p) ==
  Update(Target(p), From(Slot(p)),
         OpenGap(newColumn, newPosition, Target(p), Slot(p)))

ShiftCards(p) ==
  LET c == Source(p)
      old == tx[p].spot
      new == Slot(p)
  IN IF new < old
     THEN Update(c, FromUpTo(new, old), ShiftUp(newColumn, newPosition, c, new, old))
     ELSE Update(c, AfterUpTo(old, new), ShiftDown(newColumn, newPosition, c, old, new))

(* Rows written in column c: the foreign key locks c's row, shared. *)
Written(cards, c, pos) ==
  Statement(cards,
            IF \E k \in cards : newColumn[k] # c THEN {<< ColumnRow(c), "S" >>} ELSE {},
            {},
            [k \in Cards |-> IF k \in cards THEN c ELSE newColumn[k]],
            [k \in Cards |-> IF k \in cards THEN pos[k] ELSE newPosition[k]])

PointMoveCard(p) ==
  LET k == tx[p].request.card IN Written({k}, Target(p), [j \in {k} |-> Slot(p)])

(* AUTO_INCREMENT: the next id that is not in use. *)
InsertCard(p) ==
  LET unused == {k \in Cards : newColumn[k] = NotCreated}
      id == CHOOSE k \in unused : \A j \in unused : k <= j
  IN Written({id}, Source(p), [j \in {id} |-> Slot(p)])

(* Deletes one row, or none when the card has gone in the meantime. *)
DeleteCardRow(p) ==
  LET k == tx[p].request.card
  IN Statement({k}, {}, {},
               IF newColumn[k] \in Columns
               THEN [newColumn EXCEPT ![k] = Deleted] ELSE newColumn,
               [newPosition EXCEPT ![k] = 0])

(* CASE id WHEN .. for the ids selected, in the order they were selected. *)
RewriteCardPositions(p) ==
  Written(DOMAIN tx[p].ranks, Source(p), tx[p].ranks)

MoveCardsInto(p) ==
  LET ids == {k \in DOMAIN tx[p].ranks : newColumn[k] = Source(p)}
  IN Written(ids, Target(p), [k \in ids |-> tx[p].seen[Target(p)] + 1 + tx[p].ranks[k]])

(* What request p has to run next. *)
Pending(p) ==
  LET pc == tx[p].pc
  IN CASE pc = "first"   -> LockColumn(p, LockOrder(p)[1])
       [] pc = "second"  -> LockColumn(p, LockOrder(p)[2])
       [] pc = "spot"    -> LockSpot(p)
       [] pc = "close"   -> CloseCardGap(p)
       [] pc = "open"    -> OpenCardGap(p)
       [] pc = "shift"   -> ShiftCards(p)
       [] pc = "point"   -> PointMoveCard(p)
       [] pc = "insert"  -> InsertCard(p)
       [] pc = "row"     -> DeleteCardRow(p)
       [] pc = "rewrite" -> RewriteCardPositions(p)
       [] pc = "append"  -> MoveCardsInto(p)

Writes == {"close", "open", "shift", "point", "insert", "row", "rewrite", "append"}
Statements == {"first", "second", "spot"} \cup Writes

(* The statement after a locking read, and the one after a write. *)
AfterLocks(p) ==
  LET r == tx[p].request
  IN CASE r.op = "create" -> IF r.position = Absent THEN "insert" ELSE "open"
       [] r.op = "move"   -> "spot"
       [] r.op = "sort"   -> "rewrite"
       [] r.op = "bulk"   -> "append"

AfterWrite(p) ==
  LET pc == tx[p].pc
      op == tx[p].request.op
  IN CASE pc = "row" -> "close"
       [] pc = "close" /\ op = "move" -> "open"
       [] pc = "open" /\ op = "create" -> "insert"
       [] pc = "open" /\ op = "move" -> "point"
       [] pc = "shift" -> "point"
       [] OTHER -> "commit"

-----------------------------------------------------------------------------
(* The steps of a request. *)

TxInit ==
  /\ column = InitColumn /\ position = InitPosition
  /\ newColumn = column /\ newPosition = position
  /\ locks = {} /\ gaps = {}
  /\ tx = [p \in Procs |-> Idle]

(* Bound: no more creates on their way than ids left. *)
Creating == {p \in Procs : tx[p].pc \notin {"idle", "commit"} /\ tx[p].request.op = "create"}
IdsLeft == {k \in Cards : newColumn[k] = NotCreated}

(* pool.begin(), at REPEATABLE READ but for move, which first runs SET       *)
(* TRANSACTION ISOLATION LEVEL READ COMMITTED.                              *)
Begin(p, r) ==
  /\ tx[p].pc = "idle"
  /\ r.op = "create" => Cardinality(Creating) < Cardinality(IdsLeft)
  /\ r.op = "bulk" => BoardOf[r.column] = BoardOf[r.target] /\ r.column # r.target
  /\ tx' = [tx EXCEPT ![p] =
       [pc |-> IF r.op \in {"move", "delete"} THEN "owned" ELSE "first",
        request |-> r, attempt |-> 0,
        level |-> IF r.op = "move" THEN "read committed" ELSE "repeatable read",
        source |-> IF r.op \in {"move", "delete"} THEN Absent ELSE r.column,
        spot |-> 0, seen |-> [c \in Columns |-> 0], ranks |-> << >>]]
  /\ UNCHANGED << table, newest, locks, gaps >>

(* Mutant: 1205 undoes its statement only and nothing rolls back the rest. *)
RollbackStatementOnly(p) ==
  /\ locks' = {l \in locks : l[1] # p}
  /\ gaps' = {g \in gaps : g[1] # p}
  /\ UNCHANGED << table, newest >>

Rollback(p) ==
  /\ newColumn' = [k \in Cards |-> IF k \in Held(p) THEN column[k] ELSE newColumn[k]]
  /\ newPosition' = [k \in Cards |-> IF k \in Held(p) THEN position[k] ELSE newPosition[k]]
  /\ locks' = {l \in locks : l[1] # p}
  /\ gaps' = {g \in gaps : g[1] # p}
  /\ UNCHANGED table

(* Mutant: a restart that does not use up an attempt. *)
RetryForever(p) ==
  IF tx[p].request.op = "move"
  THEN [tx[p] EXCEPT !.pc = "owned", !.source = Absent, !.spot = 0,
                     !.seen = [c \in Columns |-> 0]]
  ELSE Idle

(* A move starts over while it has attempts left; anything else is a 500.   *)
RetryOrFail(p) ==
  IF tx[p].request.op = "move" /\ tx[p].attempt + 1 < MoveMaxAttempts
  THEN [tx[p] EXCEPT !.pc = "owned", !.attempt = @ + 1, !.source = Absent,
                     !.spot = 0, !.seen = [c \in Columns |-> 0]]
  ELSE Idle

(* The unlocked ownership read: 404 when the card is not there. *)
ReadOwned(p) ==
  /\ tx[p].pc = "owned"
  /\ LET k == tx[p].request.card
     IN tx' = [tx EXCEPT ![p] =
          IF column[k] \in Columns
          THEN [@ EXCEPT !.source = column[k], !.spot = position[k],
                         !.pc = IF tx[p].request.op = "move" THEN "first" ELSE "row"]
          ELSE Idle]
  /\ UNCHANGED << table, newest, locks, gaps >>

Run(p, s) ==
  /\ Grantable(p, s)
  /\ newColumn' = s.column /\ newPosition' = s.position
  /\ locks' = locks \cup {<< p, CardRow(k), "X" >> : k \in s.cards}
                   \cup {<< p, o[1], o[2] >> : o \in s.others}
  /\ gaps' = gaps \cup (IF tx[p].level = "repeatable read"
                        THEN {<< p, g[1], g[2] >> : g \in s.gaps} ELSE {})
  /\ UNCHANGED table

(* One locking read of a column; sort and move-cards keep the ids in order. *)
LockCards(p) ==
  /\ tx[p].pc \in {"first", "second"}
  /\ Run(p, Pending(p))
  /\ LET c == LockOrder(p)[IF tx[p].pc = "first" THEN 1 ELSE 2]
         rows == InColumn(newColumn, c)
         r == tx[p].request
         before == IF r.op = "sort" THEN ByAge(r.desc)
                   ELSE ByPosition(newPosition)
     IN tx' = [tx EXCEPT ![p].seen[c] =
                    IF ReadsMax(p, c) THEN MaxPosition(newColumn, newPosition, c)
                    ELSE Cardinality(rows),
                  ![p].ranks =
                    IF r.op \in {"sort", "bulk"} /\ c = Source(p)
                    THEN [k \in rows |-> IndexIn(rows, before, k)] ELSE @,
                  ![p].pc = IF @ = "first" /\ Len(LockOrder(p)) = 2
                            THEN "second" ELSE AfterLocks(p)]

(* Mutant: no restart when the card has left the column that was locked. *)
ReadSpotNoRestart(p) ==
  LET k == tx[p].request.card IN
  /\ tx[p].pc = "spot"
  /\ newColumn[k] \in Columns
  /\ Run(p, Pending(p))
  /\ tx' = [tx EXCEPT ![p].spot = newPosition[k],
                      ![p].pc = IF Target(p) = Source(p) THEN "shift" ELSE "close"]

(* The spot re-read under its lock: gone is 404, in another column is a     *)
(* restart of the whole transaction.                                        *)
ReadSpot(p) ==
  LET k == tx[p].request.card IN
  /\ tx[p].pc = "spot"
  /\ Grantable(p, Pending(p))
  /\ IF newColumn[k] = Source(p)
     THEN /\ Run(p, Pending(p))
          /\ tx' = [tx EXCEPT ![p].spot = newPosition[k],
                               ![p].pc = IF Target(p) = Source(p) THEN "shift" ELSE "close"]
     ELSE /\ Rollback(p)
          /\ tx' = [tx EXCEPT ![p] = IF newColumn[k] \in Columns
                                     THEN RetryOrFail(p) ELSE Idle]

Write(p) ==
  /\ tx[p].pc \in Writes
  /\ Run(p, Pending(p))
  /\ tx' = [tx EXCEPT ![p].pc = AfterWrite(p)]

Commit(p) ==
  /\ tx[p].pc = "commit"
  /\ column' = [k \in Cards |-> IF k \in Held(p) THEN newColumn[k] ELSE column[k]]
  /\ position' = [k \in Cards |-> IF k \in Held(p) THEN newPosition[k] ELSE position[k]]
  /\ locks' = {l \in locks : l[1] # p}
  /\ gaps' = {g \in gaps : g[1] # p}
  /\ tx' = [tx EXCEPT ![p] = Idle]
  /\ UNCHANGED newest

Blocked(p) == tx[p].pc \in Statements /\ ~Grantable(p, Pending(p))

(* 1213 or 1205 ends a wait. *)
LockError(p) ==
  /\ Blocked(p)
  /\ Rollback(p)
  /\ tx' = [tx EXCEPT ![p] = RetryOrFail(p)]

(* The 30 s timeout or the client drops the handler's future, and with it   *)
(* the transaction.                                                         *)
Abandon(p) ==
  /\ MayAbandon /\ tx[p].pc # "idle"
  /\ Rollback(p)
  /\ tx' = [tx EXCEPT ![p] = Idle]

Step(p) ==
  ReadOwned(p) \/ LockCards(p) \/ ReadSpot(p) \/ Write(p) \/ Commit(p) \/ LockError(p)

TxNext == \E p \in Procs : Step(p) \/ Abandon(p) \/ \E r \in Requests : Begin(p, r)

TxSpec == TxInit /\ [][TxNext]_txVars

(* A handler is polled until it is done, and InnoDB ends every wait. *)
FairSpec == TxSpec /\ \A p \in Procs : WF_txVars(Step(p))

-----------------------------------------------------------------------------
(* Newest row versions differ from the committed ones only under the        *)
(* writer's lock, which nobody else holds: a rollback that restores the     *)
(* rows it locked is whole, and a commit publishes only rows of its own.    *)
OneWriter ==
  /\ \A k \in Cards :
       << newColumn[k], newPosition[k] >> # << column[k], position[k] >>
         => \E p \in Procs : k \in Held(p)
  /\ \A k \in Cards, p, q \in Procs : k \in Held(p) \cap Held(q) => p = q

(* No race takes a position below 0. *)
TxTypeOK ==
  /\ {column, newColumn} \subseteq [Cards -> Columns \cup {NotCreated, Deleted}]
  /\ {position, newPosition} \subseteq [Cards -> Nat]
  /\ OneWriter

(* The committed cards of a column hold 0 .. N-1, each once: the oracle of  *)
(* the concurrent fuzz in tests/api/cards_move.rs, at every commit.         *)
CommittedDense == Dense

(* What request r does when nobody else is there. *)
Alone(r) ==
  CASE r.op = "create" -> \E k \in Cards : CreateCard(k, r.column, r.position)
    [] r.op = "move" -> IF r.column \in {Absent, column[r.card]}
                        THEN ReorderCard(r.card, r.position)
                        ELSE TransferCard(r.card, r.column, r.position)
    [] r.op = "delete" -> DeleteCard(r.card)
    [] r.op = "sort" -> SortColumn(r.column, r.desc)
    [] r.op = "bulk" -> MoveCards(r.column, r.target)

(* A commit changes the committed cards exactly as its own request would    *)
(* have done alone at that moment: the locks make the transactions of       *)
(* cards/routes.rs and columns/routes.rs serializable in commit order.      *)
CommitIsRequest == [][\A p \in Procs : Commit(p) => Alone(tx[p].request)]_txVars

(* Moves never wait for each other in a ring while each card is still in    *)
(* the column its move read it in: locking columns in ascending order makes *)
(* opposite-direction moves serialize instead of deadlocking                *)
(* (lock_cards_for_update).  A stale move waits for a card in a column it   *)
(* did not lock, out of order, and a create with a position and a delete    *)
(* lock the rows of one column in opposite orders; LockError ends these.    *)
InPlace(p) ==
  tx[p].request.op = "move" /\ newColumn[tx[p].request.card] = Source(p)

NoWaitCycle ==
  ~ \E ring \in (SUBSET Procs) \ {{}} :
      \A p \in ring : Blocked(p) /\ InPlace(p) /\ \E q \in ring \ {p} : InTheWay(q, Pending(p))

(* Every request is answered, retries, restarts and waits included. *)
Finishes == \A p \in Procs : tx[p].pc # "idle" ~> tx[p].pc = "idle"
=============================================================================
