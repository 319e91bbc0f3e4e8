---------------------------- MODULE CardTxProofs ----------------------------
(***************************************************************************)
(* The lock discipline of the position transactions and the shape of the   *)
(* rows, for any requests, any number of them at a time, and any rows at   *)
(* the start.                                                              *)
(*                                                                         *)
(* What has to be known of a statement is that it locks every card it      *)
(* writes (WritesWhatItLocks): the range of an UPDATE's WHERE clause is    *)
(* the range it scans, and a point write locks its row.  And it leaves     *)
(* natural positions (PendingRows), which needs to be known of what the    *)
(* handler computed from its locking reads (Serving).                      *)
(*                                                                         *)
(* The second half is serializability, for the requests of which the locks *)
(* are enough (Steady).  What a transaction is sure of, no step of another *)
(* one disturbs (OthersUndisturbed), since two that are sure of one column *)
(* find it empty (Exclusive); so what it has read is committed when it     *)
(* writes, and what it has written is there when it commits (Serial).      *)
(***************************************************************************)
EXTENDS CardTxSerial, CardPositionsProofs

(* The versions of the rows are tables of the cards. *)
Tables ==
  /\ DOMAIN newColumn = Cards /\ DOMAIN newPosition = Cards
  /\ DOMAIN column = Cards /\ DOMAIN position = Cards

WriterInv == Tables /\ OneWriter

LocksItsWrites(s) ==
  /\ DOMAIN s.column = Cards /\ DOMAIN s.position = Cards
  /\ \A k \in Cards \ s.cards :
       s.column[k] = newColumn[k] /\ s.position[k] = newPosition[k]
  /\ \A o \in s.others, k \in Cards : o[1] # CardRow(k)

LEMMA WritesWhatItLocks ==
  ASSUME Tables, NEW p \in Procs, tx[p].pc \in Statements
  PROVE  LocksItsWrites(Pending(p))
<1> DEFINE pc == tx[p].pc
<1>1. ASSUME NEW cards, NEW ranges PROVE LocksItsWrites(Select(cards, ranges))
  BY DEF Select, Tables, LocksItsWrites, Statement
<1>2. ASSUME NEW c, NEW cards, NEW pos PROVE LocksItsWrites(Written(cards, c, pos))
  <2>1. \A k \in Cards : ColumnRow(c) # CardRow(k)
    BY DEF ColumnRow, CardRow
  <2> QED
    BY <2>1 DEF Written, LocksItsWrites, Statement
<1>3. ASSUME NEW c, NEW range, NEW pos, DOMAIN pos = Cards,
             \A k \in Cards : pos[k] # newPosition[k] =>
               newColumn[k] = c /\ InRange(newPosition[k], range)
      PROVE  LocksItsWrites(Update(c, range, pos))
  BY <1>3 DEF Update, Scan, Tables, LocksItsWrites, Statement
<1>4. CASE pc \in {"first", "second"}
  BY <1>1, <1>4 DEF Pending, LockColumn
<1>5. CASE pc = "spot"
  <2>1. \A c, k : ColumnRow(c) # CardRow(k) /\ BoardRow(BoardOf[c]) # CardRow(k)
    BY DEF ColumnRow, BoardRow, CardRow
  <2> QED
    BY <1>5, <2>1 DEF Pending, LockSpot, Tables, LocksItsWrites, Statement
<1>6. CASE pc = "close"
  <2> DEFINE pos == CloseGap(newColumn, newPosition, Source(p), tx[p].spot)
  <2>1. /\ DOMAIN pos = Cards
        /\ \A k \in Cards : pos[k] # newPosition[k] =>
             newColumn[k] = Source(p) /\ InRange(newPosition[k], After(tx[p].spot))
    BY DEF CloseGap, After, InRange
  <2> HIDE DEF pos
  <2>2. LocksItsWrites(Update(Source(p), After(tx[p].spot), pos))
    BY <1>3, <2>1
  <2> QED
    BY <1>6, <2>2 DEF Pending, CloseCardGap, pos
<1>7. CASE pc = "open"
  <2> DEFINE pos == OpenGap(newColumn, newPosition, Target(p), Slot(p))
  <2>1. /\ DOMAIN pos = Cards
        /\ \A k \in Cards : pos[k] # newPosition[k] =>
             newColumn[k] = Target(p) /\ InRange(newPosition[k], From(Slot(p)))
    BY DEF OpenGap, From, InRange
  <2> HIDE DEF pos
  <2>2. LocksItsWrites(Update(Target(p), From(Slot(p)), pos))
    BY <1>3, <2>1
  <2> QED
    BY <1>7, <2>2 DEF Pending, OpenCardGap, pos
<1>8. CASE pc = "shift"
  <2> DEFINE up   == ShiftUp(newColumn, newPosition, Source(p), Slot(p), tx[p].spot)
             down == ShiftDown(newColumn, newPosition, Source(p), tx[p].spot, Slot(p))
  <2>1. /\ DOMAIN up = Cards
        /\ \A k \in Cards : up[k] # newPosition[k] =>
             newColumn[k] = Source(p) /\ InRange(newPosition[k], FromUpTo(Slot(p), tx[p].spot))
    BY DEF ShiftUp, FromUpTo, InRange
  <2>2. /\ DOMAIN down = Cards
        /\ \A k \in Cards : down[k] # newPosition[k] =>
             newColumn[k] = Source(p) /\ InRange(newPosition[k], AfterUpTo(tx[p].spot, Slot(p)))
    BY DEF ShiftDown, AfterUpTo, InRange
  <2> HIDE DEF up, down
  <2>3. /\ LocksItsWrites(Update(Source(p), FromUpTo(Slot(p), tx[p].spot), up))
        /\ LocksItsWrites(Update(Source(p), AfterUpTo(tx[p].spot, Slot(p)), down))
    BY <1>3, <2>1, <2>2
  <2> QED
    BY <1>8, <2>3 DEF Pending, ShiftCards, up, down
<1>9. CASE pc = "point"
  BY <1>2, <1>9 DEF Pending, PointMoveCard
<1>10. CASE pc = "insert"
  BY <1>2, <1>10 DEF Pending, InsertCard
<1>11. CASE pc = "row"
  BY <1>11 DEF Pending, DeleteCardRow, Tables, LocksItsWrites, Statement
<1>12. CASE pc = "rewrite"
  BY <1>2, <1>12 DEF Pending, RewriteCardPositions
<1>13. CASE pc = "append"
  BY <1>2, <1>13 DEF Pending, MoveCardsInto
<1> QED
  BY <1>4, <1>5, <1>6, <1>7, <1>8, <1>9, <1>10, <1>11, <1>12, <1>13 DEF Statements, Writes

-----------------------------------------------------------------------------
(* Ending a transaction gives up its cards and nobody else's. *)
LEMMA Released ==
  ASSUME NEW p \in Procs, locks' = {l \in locks : l[1] # p}
  PROVE  /\ Held(p)' = {}
         /\ \A q \in Procs \ {p} : Held(q)' = Held(q)
BY DEF Held

LEMMA RollbackInv ==
  ASSUME WriterInv, NEW p \in Procs, Rollback(p)
  PROVE  WriterInv'
<1> USE DEF WriterInv, Rollback, Tables, table
<1>1. Held(p)' = {} /\ \A q \in Procs \ {p} : Held(q)' = Held(q)
  BY Released
<1>2. \A k \in Cards : << newColumn'[k], newPosition'[k] >> # << column'[k], position'[k] >>
                         => k \notin Held(p) /\ \E q \in Procs : k \in Held(q)
  BY DEF OneWriter
<1> QED
  BY <1>1, <1>2 DEF OneWriter

LEMMA CommitInv ==
  ASSUME WriterInv, NEW p \in Procs, Commit(p)
  PROVE  WriterInv'
<1> USE DEF WriterInv, Commit, Tables, newest
<1>1. Held(p)' = {} /\ \A q \in Procs \ {p} : Held(q)' = Held(q)
  BY Released
<1>2. \A k \in Cards : << newColumn'[k], newPosition'[k] >> # << column'[k], position'[k] >>
                         => k \notin Held(p) /\ \E q \in Procs : k \in Held(q)
  BY DEF OneWriter
<1> QED
  BY <1>1, <1>2 DEF OneWriter

(* A statement runs only if no other transaction has a card it locks. *)
LEMMA RunInv ==
  ASSUME WriterInv, NEW p \in Procs, tx[p].pc \in Statements, Run(p, Pending(p))
  PROVE  WriterInv'
<1> DEFINE s == Pending(p)
<1>1. LocksItsWrites(s)
  BY WritesWhatItLocks DEF WriterInv
<1>2. Run(p, s)
  OBVIOUS
<1> HIDE DEF s
<1>3. Held(p)' = Held(p) \cup (s.cards \cap Cards)
  <2>1. \A k \in Cards : << p, CardRow(k), "X" >> \in locks' <=>
                            << p, CardRow(k), "X" >> \in locks \/ k \in s.cards
    BY <1>1, <1>2 DEF Run, LocksItsWrites, CardRow
  <2> QED
    BY <2>1 DEF Held
<1>4. \A q \in Procs \ {p} : Held(q)' = Held(q) /\ Held(q) \cap s.cards = {}
  BY <1>2 DEF Run, Grantable, InTheWay, Held
<1>5. Tables'
  BY <1>1, <1>2 DEF Run, WriterInv, Tables, LocksItsWrites, table
<1>6. \A k \in Cards : << newColumn'[k], newPosition'[k] >> # << column'[k], position'[k] >>
                         => k \in s.cards \/ \E q \in Procs : k \in Held(q)
  BY <1>1, <1>2 DEF Run, WriterInv, OneWriter, LocksItsWrites, table
<1> QED
  BY <1>3, <1>4, <1>5, <1>6 DEF WriterInv, OneWriter

-----------------------------------------------------------------------------
LEMMA WriterInit == TxInit => WriterInv
BY RowsAssumption DEF TxInit, WriterInv, Tables, OneWriter, Held

LEMMA WriterNext == WriterInv /\ [TxNext]_txVars => WriterInv'
<1> SUFFICES ASSUME WriterInv, [TxNext]_txVars PROVE WriterInv'
  OBVIOUS
<1>1. ASSUME UNCHANGED << table, newest, locks >> PROVE WriterInv'
  BY <1>1 DEF WriterInv, Tables, OneWriter, Held, table, newest
<1>2. CASE UNCHANGED txVars
  BY <1>1, <1>2 DEF txVars
<1>3. ASSUME NEW p \in Procs, Step(p) \/ Abandon(p) \/ \E r \in Requests : Begin(p, r)
      PROVE  WriterInv'
  <2>1. CASE ReadOwned(p) \/ \E r \in Requests : Begin(p, r)
    BY <1>1, <2>1 DEF ReadOwned, Begin
  <2>2. CASE LockCards(p)
    BY <2>2, RunInv DEF LockCards, Statements
  <2>3. CASE ReadSpot(p)
    BY <2>3, RunInv, RollbackInv DEF ReadSpot, Statements
  <2>4. CASE Write(p)
    BY <2>4, RunInv DEF Write, Statements
  <2>5. CASE Commit(p)
    BY <2>5, CommitInv
  <2>6. CASE LockError(p) \/ Abandon(p)
    BY <2>6, RollbackInv DEF LockError, Abandon
  <2> QED
    BY <1>3, <2>1, <2>2, <2>3, <2>4, <2>5, <2>6 DEF Step
<1> QED
  BY <1>2, <1>3 DEF TxNext

-----------------------------------------------------------------------------
(* The shape of the rows. *)

ColumnTable == [Cards -> Columns \cup {NotCreated, Deleted}]
PositionTable == [Cards -> Nat]

Rows ==
  /\ column \in ColumnTable /\ newColumn \in ColumnTable
  /\ position \in PositionTable /\ newPosition \in PositionTable

(* The requests that run a statement. *)
Runs(op, pc) ==
  /\ pc \in {"owned", "close"} => op \in {"move", "delete"}
  /\ pc \in {"first", "second"} => op # "delete"
  /\ pc \in {"spot", "shift", "point"} => op = "move"
  /\ pc = "open" => op \in {"create", "move"}
  /\ pc = "insert" => op = "create"
  /\ pc = "row" => op = "delete"
  /\ pc = "rewrite" => op = "sort"
  /\ pc = "append" => op = "bulk"

Fields == {"pc", "request", "attempt", "level", "source", "spot", "seen", "ranks"}

(* What a handler knows: a column from its first read on, the spot, the     *)
(* counts or maxima of the columns it locked, and the ids in order.         *)
Serving(t) ==
  \/ t.pc = "idle"
  \/ /\ DOMAIN t = Fields
     /\ t.pc \in Statements \cup {"owned", "commit"}
     /\ t.request \in Requests /\ Runs(t.request.op, t.pc)
     /\ t.pc # "owned" => t.source \in Columns
     /\ t.spot \in Nat
     /\ t.seen \in [Columns -> Int]
     /\ \A c \in Columns : t.seen[c] >= IF t.request.op = "move" THEN 0 ELSE -1
     /\ \A k \in DOMAIN t.ranks : t.ranks[k] \in Nat

ServingInv ==
  /\ Rows
  /\ tx = [p \in Procs |-> tx[p]]
  /\ \A p \in Procs : Serving(tx[p])

-----------------------------------------------------------------------------
(* What the reads return. *)

LEMMA CountType ==
  ASSUME NEW rows \in SUBSET Cards
  PROVE  IsFiniteSet(rows) /\ Cardinality(rows) \in Nat
<1>1. IsFiniteSet(Cards)
  BY RowsAssumption
<1>2. IsFiniteSet(rows)
  BY <1>1, FS_Subset
<1> QED
  BY <1>2, FS_CardinalityType

LEMMA RankType ==
  ASSUME NEW rows \in SUBSET Cards, NEW before, NEW k
  PROVE  IndexIn(rows, before, k) \in Nat
<1> DEFINE earlier == {j \in rows : << j, k >> \in before}
<1>1. Cardinality(earlier) \in Nat
  BY CountType
<1> QED
  BY <1>1 DEF IndexIn

(* Some member of a finite set has the highest value, the one with the     *)
(* fewest members above it;                                                *)
LEMMA HasHighest ==
  ASSUME NEW S, IsFiniteSet(S), S # {}, NEW f, \A k \in S : f[k] \in Nat
  PROVE  \E k \in S : \A j \in S : f[j] <= f[k]
<1> DEFINE above(k) == {j \in S : f[j] > f[k]}
           sizes == {Cardinality(above(k)) : k \in S}
<1>1. \A k \in S : IsFiniteSet(above(k)) /\ Cardinality(above(k)) \in Nat
  BY FS_Subset, FS_CardinalityType
<1>2. sizes \subseteq Nat /\ sizes # {}
  BY <1>1
<1>3. \A m, n \in sizes : << m, n >> \in OpToRel(<, Nat) <=> m < n
  BY <1>2 DEF OpToRel
<1>4. \E n \in sizes : \A m \in sizes : << m, n >> \notin OpToRel(<, Nat)
  <2> HIDE DEF sizes
  <2> QED
    BY <1>2, WFMin, NatLessThanWellFounded
<1>5. PICK k \in S : \A m \in sizes : ~ (m < Cardinality(above(k)))
  BY <1>3, <1>4
<1>6. ASSUME NEW j \in S, ~ (f[j] <= f[k])
      PROVE  FALSE
  <2>1. above(j) \in SUBSET above(k) /\ j \in above(k) /\ j \notin above(j)
    BY <1>6
  <2>2. Cardinality(above(j)) <= Cardinality(above(k))
    BY <1>1, <2>1, FS_Subset
  <2>3. Cardinality(above(j)) # Cardinality(above(k))
    BY <1>1, <2>1, FS_Subset
  <2>4. Cardinality(above(j)) \in sizes
    OBVIOUS
  <2> HIDE DEF above, sizes
  <2> QED
    BY <1>1, <1>5, <2>2, <2>3, <2>4
<1> QED
  BY <1>5, <1>6

(* so a column that is not empty has a highest position.                   *)
LEMMA Highest ==
  ASSUME NEW rows \in SUBSET Cards, rows # {}, NEW pos \in PositionTable
  PROVE  \E k \in rows : \A j \in rows : pos[j] <= pos[k]
BY HasHighest, CountType DEF PositionTable

LEMMA MaxType ==
  ASSUME NEW col, NEW pos \in PositionTable, NEW c
  PROVE  MaxPosition(col, pos, c) \in Nat \cup {-1}
<1> DEFINE rows == InColumn(col, c)
           used == {pos[k] : k \in rows}
<1>1. rows \in SUBSET Cards
  BY DEF InColumn
<1>2. CASE rows = {}
  BY <1>2 DEF MaxPosition
<1>3. CASE rows # {}
  <2>1. PICK m \in used : \A k \in rows : pos[k] <= m
    BY <1>1, <1>3, Highest
  <2>2. used \subseteq Nat
    BY <1>1 DEF PositionTable
  <2>3. MaxPosition(col, pos, c) =
          CHOOSE n \in used : \A k \in rows : pos[k] <= n
    BY <1>3 DEF MaxPosition
  <2> HIDE DEF rows, used
  <2> QED
    BY <2>1, <2>2, <2>3
<1> QED
  BY <1>2, <1>3

-----------------------------------------------------------------------------
(* What a request wants, and the slot it ends up in. *)

LEMMA RequestFields ==
  ASSUME NEW r \in Requests
  PROVE  /\ r.op \in {"create", "move", "delete", "sort", "bulk"}
         /\ r.op \in {"create", "sort", "bulk"} => r.column \in Columns
         /\ r.op \in {"create", "move"} => r.position \in Int \cup {Absent}
         /\ r.op = "move" => r.column \in Columns \cup {Absent}
         /\ r.op = "bulk" => r.target \in Columns
         /\ r.op \in {"move", "delete"} => r.card \in Cards
BY RequestsAssumption, RowsAssumption

LEMMA RequestBody ==
  ASSUME NEW r \in Requests
  PROVE  /\ r.op \in {"create", "move"} => r.position \in Requested \cup {Absent}
         /\ r.op = "sort" => r.desc \in BOOLEAN
BY RequestsAssumption

LEMMA TargetType ==
  ASSUME NEW p \in Procs, tx[p].request \in Requests, tx[p].source \in Columns
  PROVE  Source(p) \in Columns /\ Target(p) \in Columns
BY RequestFields DEF Source, Target

LEMMA SlotType ==
  ASSUME NEW p \in Procs, Serving(tx[p]), tx[p].pc \notin {"idle", "owned"},
         tx[p].request.op \in {"create", "move"}
  PROVE  Slot(p) \in Nat
<1> DEFINE r == tx[p].request
           wanted == r.position
           seen == tx[p].seen[Target(p)]
<1>1. /\ r \in Requests /\ Target(p) \in Columns
      /\ tx[p].spot \in Nat
      /\ wanted \in Int \cup {Absent}
      /\ seen \in Int /\ seen >= -1
      /\ r.op = "move" => seen >= 0
  BY RequestFields, TargetType DEF Serving, Statements, Writes
<1> HIDE DEF seen
<1>2. /\ wanted # Absent => /\ ClampPosition(wanted, seen + 1) \in Nat
                            /\ ClampPosition(wanted, seen - 1) \in Nat
                            /\ ClampPosition(wanted, seen) \in Nat
      /\ ClampPosition(tx[p].spot, seen - 1) \in Nat
  BY <1>1 DEF ClampPosition
<1>3. CASE r.op = "create"
  BY <1>1, <1>2, <1>3 DEF Slot, seen
<1>4. CASE r.op = "move"
  BY <1>1, <1>2, <1>4 DEF Slot, seen
<1> QED
  BY <1>3, <1>4
-----------------------------------------------------------------------------
(* A statement leaves rows in shape: no gap closed and no band moved down   *)
(* takes a position below the spot, which is natural.                       *)

InShape(s) == s.column \in ColumnTable /\ s.position \in PositionTable

LEMMA WrittenInShape ==
  ASSUME Rows, NEW cards, NEW c \in Columns, NEW pos, \A k \in cards : pos[k] \in Nat
  PROVE  InShape(Written(cards, c, pos))
BY DEF Rows, ColumnTable, PositionTable, Written, Statement, InShape

LEMMA UpdateInShape ==
  ASSUME Rows, NEW c, NEW range, NEW pos \in PositionTable
  PROVE  InShape(Update(c, range, pos))
BY DEF Rows, Update, Statement, InShape

LEMMA GapsInShape ==
  ASSUME Rows, NEW c, NEW spot \in Nat, NEW slot
  PROVE  /\ CloseGap(newColumn, newPosition, c, spot) \in PositionTable
         /\ OpenGap(newColumn, newPosition, c, slot) \in PositionTable
         /\ ShiftUp(newColumn, newPosition, c, slot, spot) \in PositionTable
         /\ ShiftDown(newColumn, newPosition, c, spot, slot) \in PositionTable
<1>1. \A k \in Cards : newPosition[k] \in Nat
  BY DEF Rows, PositionTable
<1>2. \A k \in Cards : /\ newPosition[k] + 1 \in Nat
                       /\ newPosition[k] > spot => newPosition[k] - 1 \in Nat
                       /\ spot < newPosition[k] => newPosition[k] - 1 \in Nat
  BY <1>1
<1> QED
  BY <1>1, <1>2
     DEF PositionTable, CloseGap, OpenGap, ShiftUp, ShiftDown

LEMMA PendingRows ==
  ASSUME ServingInv, NEW p \in Procs, tx[p].pc \in Statements
  PROVE  InShape(Pending(p))
<1> DEFINE pc == tx[p].pc
           op == tx[p].request.op
           ranks == tx[p].ranks
<1>1. Serving(tx[p]) /\ Rows
  BY DEF ServingInv
<1>2. /\ tx[p].request \in Requests /\ Runs(op, pc)
      /\ tx[p].source \in Columns /\ tx[p].spot \in Nat
      /\ tx[p].seen \in [Columns -> Int] /\ \A c \in Columns : tx[p].seen[c] >= -1
      /\ \A k \in DOMAIN ranks : ranks[k] \in Nat
  BY <1>1 DEF Serving, Statements, Writes
<1>3. Source(p) \in Columns /\ Target(p) \in Columns
  BY <1>2, TargetType
<1>4. op \in {"create", "move"} => Slot(p) \in Nat
  BY <1>1, SlotType DEF Statements, Writes
<1>5. CASE pc \in {"first", "second", "spot"}
  BY <1>1, <1>5 DEF Pending, LockColumn, LockSpot, Select, Statement, InShape, Rows
<1>6. CASE pc = "close"
  BY <1>1, <1>2, <1>6, UpdateInShape, GapsInShape DEF Pending, CloseCardGap
<1>7. CASE pc = "open"
  BY <1>1, <1>2, <1>7, UpdateInShape, GapsInShape DEF Pending, OpenCardGap
<1>8. CASE pc = "shift"
  BY <1>1, <1>2, <1>8, UpdateInShape, GapsInShape DEF Pending, ShiftCards
<1>9. CASE pc = "point"
  <2>1. Slot(p) \in Nat
    BY <1>2, <1>4, <1>9 DEF Runs
  <2> QED
    BY <1>1, <1>3, <1>9, <2>1, WrittenInShape DEF Pending, PointMoveCard
<1>10. CASE pc = "insert"
  <2>1. Slot(p) \in Nat
    BY <1>2, <1>4, <1>10 DEF Runs
  <2> QED
    BY <1>1, <1>3, <1>10, <2>1, WrittenInShape DEF Pending, InsertCard
<1>11. CASE pc = "row"
  BY <1>1, <1>11 DEF Pending, DeleteCardRow, Statement, InShape, Rows, ColumnTable, PositionTable
<1>12. CASE pc = "rewrite"
  BY <1>1, <1>2, <1>3, <1>12, WrittenInShape DEF Pending, RewriteCardPositions
<1>13. CASE pc = "append"
  <2> DEFINE ids == {k \in DOMAIN ranks : newColumn[k] = Source(p)}
             pos == [k \in ids |-> tx[p].seen[Target(p)] + 1 + ranks[k]]
  <2>1. \A k \in ids : pos[k] \in Nat
    <3>1. PICK n \in Int : n = tx[p].seen[Target(p)] /\ n >= -1
      BY <1>2, <1>3
    <3>2. \A k \in ids : ranks[k] \in Nat /\ n + 1 + ranks[k] \in Nat
      BY <1>2, <3>1
    <3> QED
      BY <3>1, <3>2
  <2>2. Pending(p) = Written(ids, Target(p), pos)
    BY <1>13 DEF Pending, MoveCardsInto
  <2> HIDE DEF ids, pos
  <2> QED
    BY <1>1, <1>3, <2>1, <2>2, WrittenInShape
<1> QED
  BY <1>5, <1>6, <1>7, <1>8, <1>9, <1>10, <1>11, <1>12, <1>13 DEF Statements, Writes

-----------------------------------------------------------------------------
(* The steps of a request keep the rows and what is known of it in shape.   *)

LEMMA TxFrame ==
  ASSUME ServingInv, NEW p \in Procs, NEW t, Serving(t), tx' = [tx EXCEPT ![p] = t]
  PROVE  /\ tx' = [q \in Procs |-> tx'[q]]
         /\ \A q \in Procs : Serving(tx'[q])
BY DEF ServingInv

LEMMA RollbackRows ==
  ASSUME Rows, NEW p \in Procs, Rollback(p)
  PROVE  Rows'
BY DEF Rows, ColumnTable, PositionTable, Rollback, table

LEMMA RunRows ==
  ASSUME ServingInv, NEW p \in Procs, tx[p].pc \in Statements, Run(p, Pending(p))
  PROVE  Rows'
BY PendingRows DEF ServingInv, Rows, InShape, Run, table

LEMMA IdleServing == Serving(Idle)
BY DEF Idle, Serving

LEMMA RetryServing ==
  ASSUME NEW p \in Procs, Serving(tx[p]), tx[p].pc # "idle"
  PROVE  Serving(RetryOrFail(p))
<1>1. CASE tx[p].request.op = "move"
  <2> DEFINE t == [tx[p] EXCEPT !.pc = "owned", !.attempt = @ + 1, !.source = Absent,
                                !.spot = 0, !.seen = [c \in Columns |-> 0]]
  <2>1. /\ DOMAIN t = Fields /\ t.pc = "owned" /\ t.request = tx[p].request
        /\ t.spot = 0 /\ t.seen = [c \in Columns |-> 0] /\ t.ranks = tx[p].ranks
    BY DEF Serving, Fields
  <2> HIDE DEF t
  <2>2. Serving(t)
    BY <1>1, <2>1 DEF Serving, Runs
  <2> QED
    BY <2>2, IdleServing DEF RetryOrFail, t
<1>2. CASE tx[p].request.op # "move"
  BY <1>2, IdleServing DEF RetryOrFail
<1> QED
  BY <1>1, <1>2

LEMMA BeginInv ==
  ASSUME ServingInv, NEW p \in Procs, NEW r \in Requests, Begin(p, r)
  PROVE  ServingInv'
<1> DEFINE pc == IF r.op \in {"move", "delete"} THEN "owned" ELSE "first"
           t == [pc |-> pc, request |-> r, attempt |-> 0,
                 level |-> IF r.op = "move" THEN "read committed" ELSE "repeatable read",
                 source |-> IF r.op \in {"move", "delete"} THEN Absent ELSE r.column,
                 spot |-> 0, seen |-> [c \in Columns |-> 0], ranks |-> << >>]
<1>1. tx' = [tx EXCEPT ![p] = t] /\ UNCHANGED << table, newest >>
  BY DEF Begin
<1>2. Serving(t)
  <2>1. r.op \in {"create", "move", "delete", "sort", "bulk"}
        /\ (r.op \notin {"move", "delete"} => r.column \in Columns)
    BY RequestFields
  <2>2. DOMAIN t = Fields /\ DOMAIN t.ranks = {}
    BY DEF Fields
  <2> QED
    BY <2>1, <2>2 DEF Serving, Runs, Statements
<1> HIDE DEF t
<1> QED
  BY <1>1, <1>2, TxFrame DEF ServingInv, Rows, table, newest

LEMMA ReadOwnedInv ==
  ASSUME ServingInv, NEW p \in Procs, ReadOwned(p)
  PROVE  ServingInv'
<1> DEFINE k == tx[p].request.card
           t == [tx[p] EXCEPT !.source = column[k], !.spot = position[k],
                              !.pc = IF tx[p].request.op = "move" THEN "first" ELSE "row"]
<1>1. Serving(tx[p]) /\ Rows /\ tx[p].pc = "owned"
  BY DEF ServingInv, ReadOwned
<1>2. tx[p].request.op \in {"move", "delete"} /\ k \in Cards
  BY <1>1, RequestFields DEF Serving, Runs
<1>3. column[k] \in Columns => Serving(t)
  <2>1. /\ DOMAIN t = Fields /\ t.request = tx[p].request
        /\ t.pc = (IF tx[p].request.op = "move" THEN "first" ELSE "row")
        /\ t.source = column[k] /\ t.spot = position[k]
        /\ t.seen = tx[p].seen /\ t.ranks = tx[p].ranks
    BY <1>1 DEF Serving, Fields
  <2>2. position[k] \in Nat
    BY <1>1, <1>2 DEF Rows, PositionTable
  <2> HIDE DEF t
  <2> QED
    BY <1>1, <1>2, <2>1, <2>2 DEF Serving, Runs, Statements, Writes
<1>4. tx' = [tx EXCEPT ![p] = IF column[k] \in Columns THEN t ELSE Idle]
      /\ UNCHANGED << table, newest >>
  BY DEF ReadOwned
<1> HIDE DEF t
<1> QED
  BY <1>3, <1>4, IdleServing, TxFrame DEF ServingInv, Rows, table, newest

LEMMA LockCardsInv ==
  ASSUME ServingInv, NEW p \in Procs, LockCards(p)
  PROVE  ServingInv'
<1> DEFINE r == tx[p].request
           c == LockOrder(p)[IF tx[p].pc = "first" THEN 1 ELSE 2]
           rows == InColumn(newColumn, c)
           before == IF r.op = "sort" THEN ByAge(r.desc)
                     ELSE ByPosition(newPosition)
           found == IF ReadsMax(p, c) THEN MaxPosition(newColumn, newPosition, c)
                    ELSE Cardinality(rows)
           ranks == IF r.op \in {"sort", "bulk"} /\ c = Source(p)
                    THEN [k \in rows |-> IndexIn(rows, before, k)] ELSE tx[p].ranks
           pc == IF tx[p].pc = "first" /\ Len(LockOrder(p)) = 2 THEN "second" ELSE AfterLocks(p)
           seen == [tx[p].seen EXCEPT ![c] = found]
           t == [tx[p] EXCEPT !.seen = seen, !.ranks = ranks, !.pc = pc]
<1>1. Serving(tx[p]) /\ Rows /\ tx[p].pc \in {"first", "second"}
  BY DEF ServingInv, LockCards
<1>2. /\ DOMAIN tx[p] = Fields /\ r \in Requests /\ tx[p].source \in Columns
      /\ tx[p].spot \in Nat /\ tx[p].seen \in [Columns -> Int]
      /\ \A d \in Columns : tx[p].seen[d] >= IF r.op = "move" THEN 0 ELSE -1
      /\ \A k \in DOMAIN tx[p].ranks : tx[p].ranks[k] \in Nat
      /\ r.op \in {"create", "move", "sort", "bulk"}
  BY <1>1, RequestFields DEF Serving, Runs
<1>3. rows \in SUBSET Cards
  BY DEF InColumn
<1>4. found \in Int /\ found >= IF r.op = "move" THEN 0 ELSE -1
  <2>1. Cardinality(rows) \in Nat
    BY <1>3, CountType
  <2>2. MaxPosition(newColumn, newPosition, c) \in Nat \cup {-1}
    BY <1>1, MaxType DEF Rows
  <2>3. r.op = "move" => ~ReadsMax(p, c)
    BY DEF ReadsMax
  <2> HIDE DEF rows, c
  <2> QED
    BY <2>1, <2>2, <2>3
<1>5. \A k \in DOMAIN ranks : ranks[k] \in Nat
  BY <1>2, <1>3, RankType
<1>6. pc \in Statements /\ Runs(r.op, pc)
  BY <1>2 DEF AfterLocks, Statements, Writes, Runs
<1> HIDE DEF c, found, ranks, pc
<1>7. seen \in [Columns -> Int] /\ \A d \in Columns : seen[d] >= IF r.op = "move" THEN 0 ELSE -1
  BY <1>2, <1>4
<1> HIDE DEF seen
<1>8. Serving(t)
  <2>1. /\ DOMAIN t = Fields /\ t.request = r /\ t.pc = pc /\ t.source = tx[p].source
        /\ t.spot = tx[p].spot /\ t.seen = seen /\ t.ranks = ranks
    BY <1>2 DEF Fields
  <2>2. pc # "owned"
    BY <1>6 DEF Statements, Writes
  <2> HIDE DEF t
  <2> QED
    BY <1>2, <1>5, <1>6, <1>7, <2>1, <2>2 DEF Serving
<1>9. tx' = [tx EXCEPT ![p] = t] /\ Run(p, Pending(p))
  BY <1>1, <1>2 DEF LockCards, c, found, ranks, pc, seen, ServingInv, Fields
<1>10. Rows'
  BY <1>1, <1>9, RunRows DEF Statements
<1> HIDE DEF t
<1> QED
  BY <1>8, <1>9, <1>10, TxFrame DEF ServingInv

LEMMA ReadSpotInv ==
  ASSUME ServingInv, NEW p \in Procs, ReadSpot(p)
  PROVE  ServingInv'
<1> DEFINE k == tx[p].request.card
           t == [tx[p] EXCEPT !.spot = newPosition[k],
                              !.pc = IF Target(p) = Source(p) THEN "shift" ELSE "close"]
<1>1. Serving(tx[p]) /\ Rows /\ tx[p].pc = "spot"
  BY DEF ServingInv, ReadSpot
<1>2. tx[p].request.op = "move" /\ k \in Cards
  BY <1>1, RequestFields DEF Serving, Runs
<1>3. CASE newColumn[k] = Source(p)
  <2>1. Serving(t)
    <3>1. /\ DOMAIN t = Fields /\ t.request = tx[p].request
          /\ t.pc = (IF Target(p) = Source(p) THEN "shift" ELSE "close")
          /\ t.source = tx[p].source /\ t.spot = newPosition[k]
          /\ t.seen = tx[p].seen /\ t.ranks = tx[p].ranks
      BY <1>1 DEF Serving, Fields
    <3>2. newPosition[k] \in Nat
      BY <1>1, <1>2 DEF Rows, PositionTable
    <3> HIDE DEF t
    <3> QED
      BY <1>1, <1>2, <3>1, <3>2 DEF Serving, Runs, Statements, Writes
  <2>2. tx' = [tx EXCEPT ![p] = t] /\ Run(p, Pending(p))
    BY <1>3 DEF ReadSpot, ServingInv
  <2>3. Rows'
    BY <1>1, <2>2, RunRows DEF Statements
  <2> HIDE DEF t
  <2> QED
    BY <2>1, <2>2, <2>3, TxFrame DEF ServingInv
<1>4. CASE newColumn[k] # Source(p)
  <2>1. /\ Rollback(p)
        /\ tx' = [tx EXCEPT ![p] = IF newColumn[k] \in Columns THEN RetryOrFail(p) ELSE Idle]
    BY <1>4 DEF ReadSpot
  <2>2. Serving(RetryOrFail(p)) /\ Serving(Idle)
    BY <1>1, RetryServing, IdleServing
  <2>3. Rows'
    BY <1>1, <2>1, RollbackRows
  <2> QED
    BY <2>1, <2>2, <2>3, TxFrame DEF ServingInv
<1> QED
  BY <1>3, <1>4

LEMMA WriteInv ==
  ASSUME ServingInv, NEW p \in Procs, Write(p)
  PROVE  ServingInv'
<1> DEFINE t == [tx[p] EXCEPT !.pc = AfterWrite(p)]
<1>1. Serving(tx[p]) /\ Rows /\ tx[p].pc \in Writes
  BY DEF ServingInv, Write
<1>2. /\ AfterWrite(p) \in Statements \cup {"commit"}
      /\ AfterWrite(p) # "owned" /\ Runs(tx[p].request.op, AfterWrite(p))
  BY <1>1, RequestFields DEF Serving, AfterWrite, Runs, Writes, Statements
<1>3. Serving(t)
  <2>1. /\ DOMAIN t = Fields /\ t.request = tx[p].request /\ t.pc = AfterWrite(p)
        /\ t.source = tx[p].source /\ t.spot = tx[p].spot
        /\ t.seen = tx[p].seen /\ t.ranks = tx[p].ranks
    BY <1>1 DEF Serving, Fields, Writes
  <2> HIDE DEF t
  <2> QED
    BY <1>1, <1>2, <2>1 DEF Serving, Writes
<1>4. tx' = [tx EXCEPT ![p] = t] /\ Run(p, Pending(p))
  BY DEF Write, ServingInv
<1>5. Rows'
  BY <1>1, <1>4, RunRows DEF Statements
<1> HIDE DEF t
<1> QED
  BY <1>3, <1>4, <1>5, TxFrame DEF ServingInv

(* A commit, a lock error and a dropped handler. *)
LEMMA EndInv ==
  ASSUME ServingInv, NEW p \in Procs, Commit(p) \/ LockError(p) \/ Abandon(p)
  PROVE  ServingInv'
<1>1. CASE Commit(p)
  <2>1. Rows'
    BY <1>1 DEF ServingInv, Rows, ColumnTable, PositionTable, Commit, newest
  <2>2. tx' = [tx EXCEPT ![p] = Idle]
    BY <1>1 DEF Commit
  <2> QED
    BY <2>1, <2>2, IdleServing, TxFrame DEF ServingInv
<1>2. CASE LockError(p)
  <2>1. tx' = [tx EXCEPT ![p] = RetryOrFail(p)] /\ Rollback(p) /\ tx[p].pc \in Statements
    BY <1>2 DEF LockError, Blocked
  <2>2. Serving(RetryOrFail(p))
    BY <2>1, RetryServing DEF ServingInv, Statements, Writes
  <2> QED
    BY <2>1, <2>2, RollbackRows, TxFrame DEF ServingInv
<1>3. CASE Abandon(p)
  <2>1. tx' = [tx EXCEPT ![p] = Idle] /\ Rollback(p)
    BY <1>3 DEF Abandon
  <2> QED
    BY <2>1, IdleServing, RollbackRows, TxFrame DEF ServingInv
<1> QED
  BY <1>1, <1>2, <1>3

LEMMA InitInv == TxInit => ServingInv
<1> SUFFICES ASSUME TxInit PROVE ServingInv
  OBVIOUS
<1>1. Rows
  BY RowsAssumption DEF TxInit, Rows, ColumnTable, PositionTable
<1> QED
  BY <1>1, IdleServing DEF TxInit, ServingInv

LEMMA NextInv == ServingInv /\ [TxNext]_txVars => ServingInv'
<1> SUFFICES ASSUME ServingInv, [TxNext]_txVars PROVE ServingInv'
  OBVIOUS
<1>1. CASE UNCHANGED txVars
  BY <1>1 DEF txVars, table, newest, ServingInv, Rows
<1>2. ASSUME NEW p \in Procs, Step(p) \/ Abandon(p) \/ \E r \in Requests : Begin(p, r)
      PROVE  ServingInv'
  BY <1>2, BeginInv, ReadOwnedInv, LockCardsInv, ReadSpotInv, WriteInv, EndInv DEF Step
<1> QED
  BY <1>1, <1>2 DEF TxNext

(* Each card is in a column, not created or deleted, its position is never *)
(* negative, and a card whose newest version is not committed is locked by *)
(* its writer and by nobody else, whatever statements of cards/routes.rs   *)
(* and columns/routes.rs, restarts, lock errors and dropped handlers       *)
(* interleave: also where a delete or a move into an empty column breaks   *)
(* the dense numbering.  What a rollback restores and a commit publishes   *)
(* is one transaction's work.                                              *)
THEOREM WritersExclude == TxSpec => []TxTypeOK
<1>1. WriterInv /\ ServingInv => TxTypeOK
  BY DEF WriterInv, ServingInv, Rows, ColumnTable, PositionTable, TxTypeOK
<1> QED
  BY WriterInit, WriterNext, InitInv, NextInv, <1>1, PTL DEF TxSpec

(* The columns a transaction locks, in one of two orders. *)
LEMMA ColsType ==
  ASSUME ServingInv, NEW p \in Procs
  PROVE  /\ Cols(p) \subseteq Columns
         /\ tx[p].pc \notin {"idle", "owned"} =>
              /\ tx[p].request \in Requests
              /\ Source(p) \in Columns /\ Target(p) \in Columns
              /\ \/ Source(p) = Target(p) /\ LockOrder(p) = << Source(p) >>
                 \/ /\ Source(p) # Target(p)
                    /\ LockOrder(p) \in {<< Source(p), Target(p) >>, << Target(p), Source(p) >>}
<1>1. Serving(tx[p])
  BY DEF ServingInv
<1>2. CASE tx[p].pc \in {"idle", "owned"}
  BY <1>2 DEF Cols
<1>3. CASE tx[p].pc \notin {"idle", "owned"}
  <2>1. tx[p].request \in Requests /\ tx[p].source \in Columns
    BY <1>1, <1>3 DEF Serving
  <2>2. Source(p) \in Columns /\ Target(p) \in Columns
    BY <2>1, TargetType
  <2>3. \/ Source(p) = Target(p) /\ LockOrder(p) = << Source(p) >>
        \/ /\ Source(p) # Target(p)
           /\ LockOrder(p) \in {<< Source(p), Target(p) >>, << Target(p), Source(p) >>}
    BY DEF LockOrder
  <2>4. LockOrder(p)[1] \in {Source(p), Target(p)}
    BY <2>3
  <2> QED
    BY <1>3, <2>1, <2>2, <2>3, <2>4 DEF Cols
<1> QED
  BY <1>2, <1>3

(* A column with a card has a last one. *)
LEMMA HasTop ==
  ASSUME ServingInv, NEW c, NEW k \in Cards, column[k] = c
  PROVE  \E j \in Cards : Top(j, c)
<1> DEFINE rows == {i \in Cards : column[i] = c}
<1>1. \E j \in rows : \A i \in rows : position[i] <= position[j]
  BY Highest DEF ServingInv, Rows
<1> QED
  BY <1>1 DEF Top

(* A column that two transactions are sure of is empty. *)
LEMMA Exclusive ==
  ASSUME WriterInv, ServingInv, NEW p \in Procs, NEW q \in Procs, p # q, Guards(p), Guards(q),
         NEW c \in Sure(p) \cap Sure(q)
  PROVE  /\ << p, c, From(0) >> \in gaps
         /\ \A k \in Cards : column[k] # c /\ newColumn[k] # c
<1>1. Locked(p, c) /\ Locked(q, c)
  BY DEF Guards
<1>2. \A k \in Cards : ~ (k \in Held(p) /\ k \in Held(q))
  BY DEF WriterInv, OneWriter
<1>3. Held(p) \subseteq Cards /\ Held(q) \subseteq Cards
  BY DEF Held
<1>4. c \in Cols(p) /\ c \in Cols(q)
  BY DEF Sure
<1>5. CASE c \in Owns(p) /\ c \in Owns(q)
  <2>1. PICK k \in Held(p) : column[k] = c
    BY <1>5 DEF Owns
  <2>2. PICK j \in Cards : Top(j, c)
    BY <1>3, <2>1, HasTop
  <2> QED
    BY <1>1, <1>2, <1>5, <2>2 DEF Locked
<1>6. CASE c \notin Owns(p)
  <2>1. << p, c, From(0) >> \in gaps
    BY <1>1, <1>6 DEF Locked
  <2>2. \A k \in Cards : column[k] # c /\ (newColumn[k] = c => k \in Held(p))
    BY <1>1, <1>6 DEF Locked
  <2>3. c \notin Owns(q)
    BY <1>3, <2>2 DEF Owns
  <2>4. \A k \in Cards : newColumn[k] = c => k \in Held(q)
    BY <1>1, <2>3 DEF Locked
  <2> QED
    BY <1>2, <2>1, <2>2, <2>4
<1>7. CASE c \in Owns(p) /\ c \notin Owns(q)
  BY <1>1, <1>3, <1>7 DEF Owns, Locked
<1> QED
  BY <1>5, <1>6, <1>7

(* What another transaction has locked is in no column p is sure of. *)
LEMMA Apart ==
  ASSUME WriterInv, ServingInv, NEW p \in Procs, NEW q \in Procs, p # q, Guards(p), Guards(q),
         NEW k \in Held(q)
  PROVE  column[k] \notin Sure(p) /\ newColumn[k] \notin Sure(p)
<1>1. newColumn[k] \in Sure(q) /\ column[k] \in Sure(q) \cup {NotCreated} /\ k \in Cards
  BY DEF Guards, Held
<1>2. NotCreated \notin Sure(p)
  BY ColsType, RowsAssumption DEF Sure
<1> QED
  BY <1>1, <1>2, Exclusive

-----------------------------------------------------------------------------
(* A step of another transaction that leaves alone what p is sure of. *)

SameRow(k) ==
  /\ column'[k] = column[k] /\ position'[k] = position[k]
  /\ newColumn'[k] = newColumn[k] /\ newPosition'[k] = newPosition[k]

Clear(p, k) == {column[k], column'[k], newColumn[k], newColumn'[k]} \cap Sure(p) = {}

Undisturbed(p) ==
  /\ tx'[p] = tx[p] /\ Held(p)' = Held(p)
  /\ \A c \in Columns : << p, c, From(0) >> \in gaps => << p, c, From(0) >> \in gaps'
  /\ \A k \in Cards : ~ Clear(p, k) => SameRow(k)
  /\ \A k \in Cards : column[k] # NotCreated => column'[k] # NotCreated
  /\ \A k \in Cards, c \in Columns :
       Outlet(c) /\ column[k] \notin {c, NotCreated} /\ newColumn[k] # c
         => column'[k] # c /\ newColumn'[k] # c

(* What is read of a column depends on its rows only. *)
LEMMA ColumnFrame ==
  ASSUME NEW col, NEW pos, NEW col2, NEW pos2, NEW c,
         \A k \in Cards : col[k] = c \/ col2[k] = c => col2[k] = col[k] /\ pos2[k] = pos[k]
  PROVE  /\ InColumn(col2, c) = InColumn(col, c)
         /\ MaxPosition(col2, pos2, c) = MaxPosition(col, pos, c)
<1> DEFINE rows == InColumn(col, c)
<1>1. InColumn(col2, c) = rows
  BY DEF InColumn
<1>2. \A k \in rows : k \in Cards /\ pos2[k] = pos[k]
  BY DEF InColumn
<1> HIDE DEF rows
<1>3. MaxPosition(col2, pos2, c) = MaxPosition(col, pos, c)
  <2> DEFINE rows2 == InColumn(col2, c)
  <2>1. rows2 = rows
    BY <1>1
  <2> HIDE DEF rows2
  <2>2. {pos2[k] : k \in rows2} = {pos[k] : k \in rows}
    BY <1>2, <2>1
  <2>3. \A m : (\A k \in rows2 : pos2[k] <= m) <=> (\A k \in rows : pos[k] <= m)
    BY <1>2, <2>1
  <2>4. (CHOOSE m \in {pos2[k] : k \in rows2} : \A k \in rows2 : pos2[k] <= m)
          = CHOOSE m \in {pos[k] : k \in rows} : \A k \in rows : pos[k] <= m
    BY <2>2, <2>3
  <2>5. CASE rows = {}
    BY <2>1, <2>5, Zenon DEF MaxPosition, rows, rows2
  <2>6. CASE rows # {}
    <3>1. MaxPosition(col2, pos2, c)
            = CHOOSE m \in {pos2[k] : k \in rows2} : \A k \in rows2 : pos2[k] <= m
      BY <2>1, <2>6, Zenon DEF MaxPosition, rows2
    <3>2. MaxPosition(col, pos, c)
            = CHOOSE m \in {pos[k] : k \in rows} : \A k \in rows : pos[k] <= m
      BY <2>6, Zenon DEF MaxPosition, rows
    <3> QED
      BY <2>4, <3>1, <3>2, Zenon
  <2> QED
    BY <2>5, <2>6
<1> QED
  BY <1>1, <1>3 DEF rows

(* So do the ranks of a sort and of move-cards. *)
LEMMA RanksFrame ==
  ASSUME NEW rows \in SUBSET Cards, NEW pos, NEW pos2, \A k \in rows : pos2[k] = pos[k],
         NEW k \in rows
  PROVE  IndexIn(rows, ByPosition(pos2), k)
           = IndexIn(rows, ByPosition(pos), k)
<1>1. {j \in rows : << j, k >> \in ByPosition(pos2)}
        = {j \in rows : << j, k >> \in ByPosition(pos)}
  BY DEF ByPosition
<1> QED
  BY <1>1 DEF IndexIn

(* What is computed from the request and what was read of it. *)
LEMMA SameHandler ==
  ASSUME NEW p \in Procs, tx'[p] = tx[p]
  PROVE  /\ Cols(p)' = Cols(p) /\ Source(p)' = Source(p) /\ Target(p)' = Target(p)
         /\ Slot(p)' = Slot(p)
         /\ \A c : ReadsMax(p, c)' <=> ReadsMax(p, c)
<1>1. Source(p)' = Source(p) /\ Target(p)' = Target(p)
  BY DEF Source, Target
<1>2. LockOrder(p)' = LockOrder(p)
  BY <1>1 DEF LockOrder
<1>3. Cols(p)' = Cols(p)
  BY <1>1, <1>2 DEF Cols
<1>4. Slot(p)' = Slot(p)
  BY <1>1 DEF Slot, ClampPosition
<1>5. \A c : ReadsMax(p, c)' <=> ReadsMax(p, c)
  BY <1>1 DEF ReadsMax
<1> QED
  BY <1>1, <1>3, <1>4, <1>5

(* The parts of the invariant, one by one. *)
LEMMA SureFrame ==
  ASSUME ServingInv, NEW p \in Procs, Guards(p), Undisturbed(p)
  PROVE  /\ Owns(p)' = Owns(p) /\ Sure(p)' = Sure(p)
         /\ \A k \in Cards : ~ Clear(p, k) => SameRow(k)
<1>1. tx'[p] = tx[p] /\ Held(p)' = Held(p)
  BY DEF Undisturbed
<1>2. Cols(p)' = Cols(p)
  BY <1>1, SameHandler
<1>3. \A k \in Cards : ~ Clear(p, k) => SameRow(k)
  BY DEF Undisturbed
<1>4. \A k \in Held(p) : column'[k] = column[k]
  BY <1>3 DEF Guards, SameRow, Held, Clear
<1>5. Owns(p)' = Owns(p)
  BY <1>1, <1>2, <1>4 DEF Owns
<1>6. Sure(p)' = Sure(p)
  BY <1>1, <1>2, <1>5 DEF Sure
<1> QED
  BY <1>3, <1>5, <1>6

LEMMA GuardsFrame ==
  ASSUME ServingInv, NEW p \in Procs, Guards(p), Asked(p), Undisturbed(p)
  PROVE  Guards(p)'
<1>1. /\ tx'[p] = tx[p] /\ Held(p)' = Held(p)
      /\ Cols(p)' = Cols(p) /\ Source(p)' = Source(p)
      /\ Owns(p)' = Owns(p) /\ Sure(p)' = Sure(p)
      /\ \A k \in Cards : ~ Clear(p, k) => SameRow(k)
  BY SameHandler, SureFrame DEF Undisturbed
<1>2. Cols(p) \subseteq Columns /\ Held(p) \subseteq Cards
  BY ColsType DEF Held
<1>3. \A k \in Held(p) : newColumn'[k] \in Sure(p) /\ column'[k] \in Sure(p) \cup {NotCreated}
  BY <1>1, <1>2 DEF Guards, SameRow, Clear
<1>4. ASSUME NEW c \in Sure(p) PROVE Locked(p, c)'
  <2>1. Locked(p, c) /\ c \in Columns
    BY <1>2 DEF Guards, Sure
  <2>2. \A k \in Cards : c \in {column[k], column'[k], newColumn[k], newColumn'[k]} => SameRow(k)
    BY <1>1 DEF Clear
  <2>3. CASE c \in Owns(p)
    <3>1. \A j \in Cards : Top(j, c)' => Top(j, c)
      BY <2>2 DEF Top, SameRow
    <3> QED
      BY <1>1, <2>1, <2>3, <3>1 DEF Locked
  <2>4. CASE c \notin Owns(p)
    <3>1. << p, c, From(0) >> \in gaps'
      BY <2>1, <2>4 DEF Locked, Undisturbed
    <3>2. \A k \in Cards : column'[k] # c /\ (newColumn'[k] = c => k \in Held(p))
      BY <2>1, <2>2, <2>4 DEF Locked, SameRow
    <3>3. From(0)' = From(0)
      BY DEF From
    <3> QED
      BY <1>1, <2>4, <3>1, <3>2, <3>3 DEF Locked
  <2> QED
    BY <2>3, <2>4
<1>5. ASSUME NEW c \in Cols(p) \ Sure(p) PROVE Gone(p, c)'
  <2> DEFINE k == tx[p].request.card
  <2>1. Gone(p, c) /\ c \in Columns
    BY <1>2 DEF Guards
  <2>2. tx[p].pc \notin {"idle", "owned"} /\ tx[p].request.op = "move"
    BY DEF Cols, Sure
  <2>3. column[k] # NotCreated /\ k \in Cards
    BY <2>2, ColsType, RequestFields DEF Asked
  <2>4. column'[k] # c /\ newColumn'[k] # c
    BY <2>1, <2>3 DEF Gone, Undisturbed
  <2>5. Outlet(c)'
    BY <2>1 DEF Gone, Outlet
  <2> QED
    BY <1>1, <2>1, <2>4, <2>5 DEF Gone
<1> QED
  BY <1>1, <1>3, <1>4, <1>5 DEF Guards

LEMMA AskedFrame ==
  ASSUME ServingInv, NEW p \in Procs, Asked(p), Undisturbed(p)
  PROVE  Asked(p)'
<1>1. tx'[p] = tx[p] /\ Source(p)' = Source(p) /\ Target(p)' = Target(p)
  BY SameHandler DEF Undisturbed
<1>2. tx[p].pc \notin {"idle", "owned"} /\ tx[p].request.op = "move"
        => tx[p].request.card \in Cards
  BY ColsType, RequestFields
<1>3. \A k \in Cards : column[k] # NotCreated => column'[k] # NotCreated
  BY DEF Undisturbed
<1> QED
  BY <1>1, <1>2, <1>3 DEF Asked

LEMMA CountedFrame ==
  ASSUME ServingInv, NEW p \in Procs, Guards(p), Counted(p), Undisturbed(p)
  PROVE  Counted(p)'
<1>1. /\ tx'[p] = tx[p] /\ Source(p)' = Source(p) /\ Sure(p)' = Sure(p)
      /\ \A c : ReadsMax(p, c)' <=> ReadsMax(p, c)
      /\ \A k \in Cards : ~ Clear(p, k) => SameRow(k)
  BY SameHandler, SureFrame DEF Undisturbed
<1>2. ASSUME NEW c \in Sure(p)
      PROVE  /\ InColumn(column, c)' = InColumn(column, c)
             /\ MaxPosition(column, position, c)' = MaxPosition(column, position, c)
             /\ \A k \in InColumn(column, c) :
                  IndexIn(InColumn(column, c), ByPosition(position'), k)
                    = IndexIn(InColumn(column, c), ByPosition(position), k)
  <2>1. \A k \in Cards : column[k] = c \/ column'[k] = c
                           => column'[k] = column[k] /\ position'[k] = position[k]
    BY <1>1 DEF SameRow, Clear
  <2>2. PICK rows : rows = InColumn(column, c)
    OBVIOUS
  <2>3. rows \in SUBSET Cards /\ \A k \in rows : position'[k] = position[k]
    BY <2>1, <2>2 DEF InColumn
  <2>4. \A k \in rows : IndexIn(rows, ByPosition(position'), k)
                          = IndexIn(rows, ByPosition(position), k)
    BY <2>3, RanksFrame
  <2>5. /\ InColumn(column, c)' = InColumn(column, c)
        /\ MaxPosition(column, position, c)' = MaxPosition(column, position, c)
    BY <2>1, ColumnFrame
  <2> QED
    BY <2>2, <2>4, <2>5
<1>3. ASSUME NEW c \in Sure(p), NEW before, NEW before2, c = Source(p), Ranked(p, before),
             \A k \in InColumn(column, c) :
               IndexIn(InColumn(column, c), before2, k)
                 = IndexIn(InColumn(column, c), before, k)
      PROVE  tx'[p].ranks = [k \in InColumn(column', Source(p)') |->
                               IndexIn(InColumn(column', Source(p)'), before2, k)]
  <2>1. PICK rows : rows = InColumn(column, c)
    OBVIOUS
  <2>2. tx[p].ranks = [k \in rows |-> IndexIn(rows, before, k)]
    BY <1>3, <2>1 DEF Ranked
  <2>3. InColumn(column', Source(p)') = rows
    BY <1>1, <1>2, <1>3, <2>1
  <2>4. tx[p].ranks = [k \in rows |-> IndexIn(rows, before2, k)]
    BY <1>3, <2>1, <2>2
  <2> QED
    BY <1>1, <2>3, <2>4
<1>4. ASSUME NEW c \in Sure(p)
      PROVE  CountedIn(p, c)'
  <2>1. CountedIn(p, c)
    BY DEF Counted
  <2>2. tx[p].request.op = "move" => tx[p].seen[c] = Cardinality(InColumn(column', c))
    BY <1>2, <2>1 DEF CountedIn
  <2>3. ReadsMax(p, c)' => tx[p].seen[c] = MaxPosition(column', position', c)
    BY <1>1, <1>2, <2>1 DEF CountedIn
  <2>4. tx[p].request.op = "sort" /\ c = Source(p) => Ranked(p, ByAge(tx[p].request.desc))'
    BY <1>1, <1>3, <2>1 DEF CountedIn, Ranked
  <2>5. tx[p].request.op = "bulk" /\ c = Source(p) => Ranked(p, ByPosition(position))'
    BY <1>1, <1>2, <1>3, <2>1 DEF CountedIn, Ranked
  <2>6. \A d : ByAge(d)' = ByAge(d)
    BY DEF ByAge
  <2> QED
    BY <1>1, <2>2, <2>3, <2>4, <2>5, <2>6 DEF CountedIn
<1> QED
  BY <1>1, <1>4 DEF Counted

LEMMA PlacedFrame ==
  ASSUME ServingInv, NEW p \in Procs, Guards(p), Placed(p), Undisturbed(p)
  PROVE  Placed(p)'
<1>1. /\ tx'[p] = tx[p] /\ Source(p)' = Source(p) /\ Target(p)' = Target(p)
      /\ Held(p)' = Held(p)
      /\ \A k \in Cards : ~ Clear(p, k) => SameRow(k)
  BY SameHandler, SureFrame DEF Undisturbed
<1>2. \A k \in Held(p) : SameRow(k)
  BY <1>1 DEF Guards, Held, Clear
<1> QED
  BY <1>1, <1>2 DEF Placed, SameRow

(* The writes of p, at its slot. *)
LEMMA ShiftedIs ==
  ASSUME NEW p \in Procs
  PROVE  LET r == tx[p].request
             spot == tx[p].spot
         IN /\ r.op = "create" => Shifted(p) =
                 IF r.position = Absent THEN position
                 ELSE OpenGap(column, position, Source(p), Slot(p))
            /\ r.op = "move" /\ Target(p) # Source(p) =>
                 Shifted(p) = OpenGap(column, Closed(p), Target(p), Slot(p))
            /\ r.op = "move" /\ Target(p) = Source(p) /\ Slot(p) < spot =>
                 Shifted(p) = ShiftUp(column, position, Source(p), Slot(p), spot)
            /\ r.op = "move" /\ Target(p) = Source(p) /\ ~ (Slot(p) < spot) =>
                 Shifted(p) = ShiftDown(column, position, Source(p), spot, Slot(p))
BY DEF Shifted

LEMMA ShiftedTable ==
  ASSUME Tables, NEW p \in Procs, tx[p].request.op \in {"create", "move"}
  PROVE  DOMAIN Shifted(p) = Cards
BY ShiftedIs DEF Tables, OpenGap, ShiftUp, ShiftDown

(* The writes are pointwise. *)
LEMMA ShiftedFrame ==
  ASSUME NEW p \in Procs, tx'[p] = tx[p], NEW k \in Cards, SameRow(k)
  PROVE  /\ Closed(p)'[k] = Closed(p)[k]
         /\ tx[p].request.op \in {"create", "move"} => Shifted(p)'[k] = Shifted(p)[k]
<1>1. Source(p)' = Source(p) /\ Target(p)' = Target(p) /\ Slot(p)' = Slot(p)
  BY SameHandler
<1>2. Closed(p)'[k] = Closed(p)[k]
  BY <1>1 DEF Closed, CloseGap, SameRow
<1>3. CASE tx[p].request.op = "create"
  BY <1>1, <1>2, <1>3 DEF Shifted, SameRow, OpenGap
<1>4. CASE tx[p].request.op = "move" /\ Target(p) # Source(p)
  BY <1>1, <1>2, <1>4 DEF Shifted, SameRow, OpenGap
<1>5. CASE tx[p].request.op = "move" /\ Target(p) = Source(p)
  <2> DEFINE spot == tx[p].spot
  <2>1. CASE Slot(p) < spot
    <3>1. /\ Shifted(p) = ShiftUp(column, position, Source(p), Slot(p), spot)
          /\ Shifted(p)' = ShiftUp(column', position', Source(p), Slot(p), spot)
      BY <1>1, <1>5, <2>1 DEF Shifted
    <3> QED
      BY <1>2, <1>5, <3>1 DEF SameRow, ShiftUp
  <2>2. CASE ~ (Slot(p) < spot)
    <3>1. /\ Shifted(p) = ShiftDown(column, position, Source(p), spot, Slot(p))
          /\ Shifted(p)' = ShiftDown(column', position', Source(p), spot, Slot(p))
      BY <1>1, <1>5, <2>2 DEF Shifted
    <3> QED
      BY <1>2, <1>5, <3>1 DEF SameRow, ShiftDown
  <2> QED
    BY <2>1, <2>2
<1> QED
  BY <1>2, <1>3, <1>4, <1>5

LEMMA WroteFrame ==
  ASSUME ServingInv, Tables, Tables', NEW p \in Procs, Guards(p), Wrote(p), Undisturbed(p)
  PROVE  Wrote(p)'
<1> DEFINE pc == tx[p].pc
           r == tx[p].request
           near(k) == column'[k] \in Sure(p)' \/ newColumn'[k] \in Sure(p)'
<1>1. /\ tx'[p] = tx[p] /\ Source(p)' = Source(p) /\ Target(p)' = Target(p)
      /\ Slot(p)' = Slot(p) /\ Held(p)' = Held(p) /\ Sure(p)' = Sure(p)
      /\ \A k \in Cards : ~ Clear(p, k) => SameRow(k)
  BY SameHandler, SureFrame DEF Undisturbed
<1>2. \A k \in Cards : SameRow(k) =>
        /\ Closed(p)'[k] = Closed(p)[k]
        /\ r.op \in {"create", "move"} => Shifted(p)'[k] = Shifted(p)[k]
  BY <1>1, ShiftedFrame
<1>3. \A k \in Cards : near(k) => SameRow(k) /\ (column[k] \in Sure(p) \/ newColumn[k] \in Sure(p))
  BY <1>1 DEF SameRow, Clear
<1> HIDE DEF near
<1>4. RowsAre(p, column, position) => RowsAre(p, column, position)'
  BY <1>3 DEF RowsAre, SameRow, near
<1>5. RowsAre(p, column, Closed(p)) => RowsAre(p, column, Closed(p))'
  BY <1>2, <1>3 DEF RowsAre, SameRow, near
<1>6. r.op \in {"create", "move"} /\ RowsAre(p, column, Shifted(p)) => RowsAre(p, column, Shifted(p))'
  BY <1>2, <1>3 DEF RowsAre, SameRow, near
<1>7. ASSUME r.op \in {"create", "move"}, NEW k \in Cards, PlacedAs(p, k)
      PROVE  PlacedAs(p, k)'
  <2>1. DOMAIN Shifted(p) = Cards /\ DOMAIN Shifted(p)' = Cards
    <3>1. DOMAIN Shifted(p) = Cards
      BY <1>7, ShiftedTable
    <3>2. DOMAIN position' = Cards
      BY DEF Tables
    <3>3. DOMAIN Shifted(p)' = Cards
      BY <1>1, <1>7, <3>2 DEF Shifted, OpenGap, ShiftUp, ShiftDown
    <3> QED
      BY <3>1, <3>3
  <2>2. \A i \in Cards : near(i) =>
          /\ newColumn'[i] = [column' EXCEPT ![k] = Target(p)][i]
          /\ newPosition'[i] = [Shifted(p)' EXCEPT ![k] = Slot(p)][i]
    BY <1>2, <1>3, <1>7, <2>1 DEF SameRow, Tables, PlacedAs, RowsAre
  <2> QED
    BY <1>1, <2>2 DEF PlacedAs, RowsAre, near
<1>8. pc = "commit" /\ r.op = "sort" =>
        RowsAre(p, column, [k \in Cards |-> IF column[k] = Source(p)
                                          THEN tx[p].ranks[k] ELSE position[k]])'
  <2>1. SUFFICES ASSUME pc = "commit", r.op = "sort", NEW k \in Cards, near(k)
                 PROVE  /\ newColumn'[k] = column'[k]
                        /\ newPosition'[k] = IF column'[k] = Source(p) THEN tx[p].ranks[k]
                                             ELSE position'[k]
    BY <1>1 DEF RowsAre, near
  <2> QED
    BY <1>3, <2>1 DEF Wrote, RowsAre, SameRow
<1>9. pc = "commit" /\ r.op = "bulk" =>
        RowsAre(p, [k \in Cards |-> IF column[k] = Source(p) THEN Target(p) ELSE column[k]],
              [k \in Cards |-> IF column[k] = Source(p)
                               THEN tx[p].seen[Target(p)] + 1 + tx[p].ranks[k]
                               ELSE position[k]])'
  <2>1. SUFFICES ASSUME pc = "commit", r.op = "bulk", NEW k \in Cards, near(k)
                 PROVE  /\ newColumn'[k] = IF column'[k] = Source(p) THEN Target(p) ELSE column'[k]
                        /\ newPosition'[k] = IF column'[k] = Source(p)
                                             THEN tx[p].seen[Target(p)] + 1 + tx[p].ranks[k]
                                             ELSE position'[k]
    BY <1>1 DEF RowsAre, near
  <2> QED
    BY <1>3, <2>1 DEF Wrote, RowsAre, SameRow
<1>10. pc = "commit" /\ r.op = "create" =>
         \E k \in Held(p)' : column'[k] = NotCreated /\ PlacedAs(p, k)'
  <2>1. SUFFICES ASSUME pc = "commit", r.op = "create"
                 PROVE  \E k \in Held(p)' : column'[k] = NotCreated /\ PlacedAs(p, k)'
    OBVIOUS
  <2>2. PICK k \in Held(p) : column[k] = NotCreated /\ PlacedAs(p, k)
    BY <2>1 DEF Wrote
  <2>3. k \in Cards /\ SameRow(k)
    BY <1>1 DEF Guards, Held, Clear
  <2> QED
    BY <1>1, <1>7, <2>1, <2>2, <2>3 DEF SameRow
<1>11. pc \in {"open", "insert", "point"} => r.op \in {"create", "move"}
  BY DEF ServingInv, Serving, Runs
<1>12. pc = "commit" /\ r.op = "move" => r.card \in Cards
  BY ColsType, RequestFields
<1> HIDE DEF near
<1> QED
  BY <1>1, <1>4, <1>5, <1>6, <1>7, <1>8, <1>9, <1>10, <1>11, <1>12 DEF Wrote

LEMMA SerialFrame ==
  ASSUME WriterInv, WriterInv', ServingInv, NEW p \in Procs, Serial(p), Undisturbed(p)
  PROVE  Serial(p)'
BY GuardsFrame, AskedFrame, CountedFrame, PlacedFrame, WroteFrame DEF Serial, WriterInv

-----------------------------------------------------------------------------
(* What a statement locks and writes. *)

(* A statement adds its cards to the ones p has locked. *)
LEMMA RunHeld ==
  ASSUME WriterInv, NEW p \in Procs, tx[p].pc \in Statements, Run(p, Pending(p))
  PROVE  /\ Held(p)' = Held(p) \cup (Pending(p).cards \cap Cards)
         /\ \A q \in Procs \ {p} :
              Held(q)' = Held(q) /\ Held(q) \cap Pending(p).cards = {}
<1> DEFINE s == Pending(p)
<1>1. LocksItsWrites(s)
  BY WritesWhatItLocks DEF WriterInv
<1>2. Run(p, s)
  OBVIOUS
<1> HIDE DEF s
<1>3. Held(p)' = Held(p) \cup (s.cards \cap Cards)
  <2>1. \A k \in Cards : << p, CardRow(k), "X" >> \in locks' <=>
                            << p, CardRow(k), "X" >> \in locks \/ k \in s.cards
    BY <1>1, <1>2 DEF Run, LocksItsWrites, CardRow
  <2> QED
    BY <2>1 DEF Held
<1>4. \A q \in Procs \ {p} : Held(q)' = Held(q) /\ Held(q) \cap s.cards = {}
  BY <1>2 DEF Run, Grantable, InTheWay, Held
<1> QED
  BY <1>3, <1>4 DEF s

(* A transaction that writes is sure of its columns. *)
LEMMA WriterIsSure ==
  ASSUME ServingInv, NEW p \in Procs, Guards(p), Placed(p), tx[p].pc \in Writes \cup {"commit"},
         tx[p].request.op # "delete"
  PROVE  /\ Sure(p) = Cols(p) /\ Cols(p) = {Source(p), Target(p)}
         /\ tx[p].request \in Requests
         /\ Source(p) \in Columns /\ Target(p) \in Columns
         /\ Held(p) \subseteq Cards
<1>1. Cols(p) = {Source(p), Target(p)}
  BY DEF Cols, Writes
<1>2. /\ tx[p].request \in Requests
      /\ Source(p) \in Columns /\ Target(p) \in Columns
  BY ColsType DEF Writes
<1>3. CASE tx[p].request.op # "move"
  BY <1>1, <1>2, <1>3 DEF Sure, Held
<1>4. CASE tx[p].request.op = "move"
  <2>1. tx[p].pc \in {"close", "shift", "open", "point", "commit"}
    BY <1>4 DEF ServingInv, Serving, Runs, Writes
  <2>2. column[tx[p].request.card] = Source(p)
    BY <1>4, <2>1 DEF Placed
  <2>3. \A c \in Cols(p) \ Sure(p) : FALSE
    BY <2>2 DEF Guards, Gone
  <2> QED
    BY <1>1, <1>2, <2>3 DEF Sure, Held
<1> QED
  BY <1>3, <1>4

(* A row it gets to lock has no version of another transaction. *)
LEMMA Scanned ==
  ASSUME WriterInv, NEW p \in Procs, NEW s, Grantable(p, s), NEW k \in s.cards, k \in Cards
  PROVE  \/ k \in Held(p)
         \/ /\ newColumn[k] = column[k] /\ newPosition[k] = position[k]
            /\ \A q \in Procs : k \notin Held(q)
<1>1. \A q \in Procs \ {p} : k \notin Held(q)
  BY DEF Grantable, InTheWay, Held
<1> QED
  BY <1>1 DEF WriterInv, OneWriter

(* The first column locked is one of the two. *)
LEMMA Earliest ==
  ASSUME NEW ids \in SUBSET Nat, ids # {}
  PROVE  (CHOOSE k \in ids : \A j \in ids : k <= j) \in ids
<1>1. \A m, n \in ids : << m, n >> \in OpToRel(<, Nat) <=> m < n
  BY DEF OpToRel
<1>2. \E n \in ids : \A m \in ids : << m, n >> \notin OpToRel(<, Nat)
  BY WFMin, NatLessThanWellFounded
<1>3. PICK k \in ids : \A j \in ids : ~ (j < k)
  BY <1>1, <1>2
<1>4. \A j \in ids : k <= j
  BY <1>3
<1> QED
  BY <1>4

(* A create finds an id that was never used. *)
LEMMA IdLeft ==
  ASSUME EnoughIds, NEW p \in Creating
  PROVE  (CHOOSE k \in IdsLeft : \A j \in IdsLeft : k <= j) \in IdsLeft
<1>1. IsFiniteSet(Creating)
  BY BoundsAssumption, FS_Subset DEF Creating
<1>2. Cardinality(Creating) \in Nat /\ Cardinality(Creating) # 0
  BY <1>1, FS_CardinalityType, FS_EmptySet
<1>3. IdsLeft # {}
  BY <1>2, FS_EmptySet DEF EnoughIds
<1>4. IdsLeft \in SUBSET Nat
  BY RowsAssumption DEF IdsLeft
<1> QED
  BY <1>3, <1>4, Earliest

(* What a write of p does to the rows it locks. *)
Stays(p, s) ==
  \A k \in s.cards :
    /\ k \in Cards
    /\ newColumn[k] \in Sure(p) \cup {NotCreated} /\ column[k] \in Sure(p) \cup {NotCreated}
    /\ newColumn[k] = NotCreated => tx[p].pc = "insert"
    /\ s.column[k] \in Sure(p)
    /\ \A c \in Columns :
         Outlet(c) /\ column[k] \notin {c, NotCreated} /\ newColumn[k] # c => s.column[k] # c

(* An UPDATE of a locked column stays in it. *)
LEMMA UpdateStays ==
  ASSUME WriterInv, ServingInv, NEW p \in Procs, Guards(p), NEW c \in Sure(p), NEW range, NEW pos,
         Grantable(p, Update(c, range, pos))
  PROVE  Stays(p, Update(c, range, pos))
<1> DEFINE s == Update(c, range, pos)
<1>1. s.column = newColumn /\ s.cards = Scan(c, range)
  BY DEF Update, Statement
<1>2. Grantable(p, s)
  OBVIOUS
<1> HIDE DEF s
<1>3. \A k \in s.cards : k \in Cards /\ (newColumn[k] = c \/ column[k] = c)
  BY <1>1 DEF Scan
<1>4. ASSUME NEW k \in s.cards
      PROVE  newColumn[k] \in Sure(p) /\ column[k] \in Sure(p) \cup {NotCreated}
  <2>1. k \in Held(p) \/ newColumn[k] = column[k]
    BY <1>2, <1>3, Scanned
  <2> QED
    BY <1>3, <2>1 DEF Guards
<1>5. NotCreated \notin Sure(p)
  BY ColsType, RowsAssumption DEF Sure
<1>6. Stays(p, s)
  BY <1>1, <1>3, <1>4, <1>5 DEF Stays
<1> QED
  BY <1>6 DEF s

(* So does every write of the handlers. *)
LEMMA WriteStays ==
  ASSUME WriterInv, ServingInv, Steady, EnoughIds, NEW p \in Procs, Serial(p),
         tx[p].pc \in Writes, Grantable(p, Pending(p))
  PROVE  Stays(p, Pending(p))
<1> DEFINE pc == tx[p].pc
           r == tx[p].request
           s == Pending(p)
<1>1. Guards(p) /\ Asked(p) /\ Counted(p) /\ Placed(p) /\ Wrote(p)
  BY DEF Serial
<1>2. Serving(tx[p]) /\ r \in Requests /\ Runs(r.op, pc) /\ r.op # "delete"
  BY DEF ServingInv, Serving, Writes, Steady
<1>3. /\ Sure(p) = {Source(p), Target(p)} /\ Held(p) \subseteq Cards
      /\ Source(p) \in Columns /\ Target(p) \in Columns
  BY <1>1, <1>2, WriterIsSure
<1>4. NotCreated \notin Columns
  BY RowsAssumption
<1>5. CASE pc = "close"
  <2>1. s = Update(Source(p), After(tx[p].spot),
                   CloseGap(newColumn, newPosition, Source(p), tx[p].spot))
    BY <1>5 DEF Pending, CloseCardGap
  <2> QED
    BY <1>1, <1>3, <2>1, UpdateStays
<1>6. CASE pc = "open"
  <2>1. s = Update(Target(p), From(Slot(p)),
                   OpenGap(newColumn, newPosition, Target(p), Slot(p)))
    BY <1>6 DEF Pending, OpenCardGap
  <2> QED
    BY <1>1, <1>3, <2>1, UpdateStays
<1>7. CASE pc = "shift"
  <2>1. \/ s = Update(Source(p), FromUpTo(Slot(p), tx[p].spot),
                      ShiftUp(newColumn, newPosition, Source(p), Slot(p), tx[p].spot))
        \/ s = Update(Source(p), AfterUpTo(tx[p].spot, Slot(p)),
                      ShiftDown(newColumn, newPosition, Source(p), tx[p].spot, Slot(p)))
    BY <1>7 DEF Pending, ShiftCards
  <2> QED
    BY <1>1, <1>3, <2>1, UpdateStays
<1>8. CASE pc = "point"
  <2> DEFINE k == r.card
  <2>1. r.op = "move" /\ column[k] = Source(p) /\ k \in Held(p)
    BY <1>1, <1>2, <1>8 DEF Placed, Runs
  <2>2. s.cards = {k} /\ s.column[k] = Target(p)
    BY <1>3, <1>8, <2>1 DEF Pending, PointMoveCard, Written, Statement
  <2>3. \A c \in Columns : Outlet(c) /\ column[k] # c => Target(p) # c
    BY <1>2, <2>1 DEF Outlet, Target
  <2> QED
    BY <1>1, <1>3, <1>4, <2>1, <2>2, <2>3 DEF Stays, Guards
<1>9. CASE pc = "insert"
  <2> DEFINE id == CHOOSE k \in IdsLeft : \A j \in IdsLeft : k <= j
  <2>1. r.op = "create"
    BY <1>2, <1>9 DEF Runs
  <2>2. id \in IdsLeft
    BY <1>9, <2>1, IdLeft DEF Creating
  <2>3. s = Written({id}, Source(p), [j \in {id} |-> Slot(p)])
    BY <1>9 DEF Pending, InsertCard, IdsLeft
  <2> HIDE DEF id
  <2>4. id \in Cards /\ newColumn[id] = NotCreated
    BY <2>2 DEF IdsLeft
  <2>5. s.cards = {id} /\ s.column[id] = Source(p)
    BY <2>3, <2>4 DEF Written, Statement
  <2>6. column[id] = NotCreated
    BY <1>1, <1>3, <1>4, <2>4, <2>5, Scanned DEF Guards
  <2> QED
    BY <1>3, <1>9, <2>4, <2>5, <2>6 DEF Stays
<1>10. CASE pc = "rewrite"
  <2>1. r.op = "sort"
    BY <1>2, <1>10 DEF Runs
  <2>2. DOMAIN tx[p].ranks = InColumn(column, Source(p))
    BY <1>1, <1>3, <2>1 DEF Counted, CountedIn, Ranked
  <2>3. \A k \in DOMAIN tx[p].ranks : k \in Cards /\ column[k] = Source(p) /\ newColumn[k] = Source(p)
    BY <1>1, <1>3, <1>10, <2>2 DEF InColumn, Wrote, RowsAre
  <2>4. s.cards = DOMAIN tx[p].ranks /\ \A k \in s.cards : s.column[k] = Source(p)
    BY <1>10, <2>3 DEF Pending, RewriteCardPositions, Written, Statement
  <2> QED
    BY <1>3, <1>4, <2>3, <2>4 DEF Stays
<1>11. CASE pc = "append"
  <2>1. r.op = "bulk"
    BY <1>2, <1>11 DEF Runs
  <2>2. DOMAIN tx[p].ranks = InColumn(column, Source(p))
    BY <1>1, <1>3, <2>1 DEF Counted, CountedIn, Ranked
  <2>3. \A k \in DOMAIN tx[p].ranks : k \in Cards /\ column[k] = Source(p)
    BY <2>2 DEF InColumn
  <2>4. /\ s.cards = {k \in DOMAIN tx[p].ranks : newColumn[k] = Source(p)}
        /\ \A k \in s.cards : s.column[k] = Target(p)
    BY <1>11, <2>3 DEF Pending, MoveCardsInto, Written, Statement
  <2>5. \A c \in Columns : Outlet(c) => Target(p) # c
    BY <1>2, <2>1 DEF Outlet, Target
  <2> HIDE DEF s
  <2> QED
    BY <1>3, <1>4, <2>3, <2>4, <2>5 DEF Stays, s
<1>12. CASE pc = "row"
  BY <1>2, <1>12 DEF Runs
<1> QED
  BY <1>5, <1>6, <1>7, <1>8, <1>9, <1>10, <1>11, <1>12 DEF Writes

-----------------------------------------------------------------------------
(* No step of a transaction disturbs another one. *)

(* A statement that reads, *)
LEMMA ReadUndisturbed ==
  ASSUME NEW p \in Procs, tx'[p] = tx[p], Held(p)' = Held(p), UNCHANGED << table, newest >>,
         gaps \subseteq gaps'
  PROVE  Undisturbed(p)
BY DEF Undisturbed, SameRow, table, newest

(* one that ends a transaction, *)
LEMMA EndUndisturbed ==
  ASSUME WriterInv, ServingInv, NEW p \in Procs, NEW q \in Procs, p # q, Guards(p), Guards(q),
         tx'[p] = tx[p],
         \/ Rollback(q)
         \/ Commit(q)
  PROVE  Undisturbed(p)
<1>1. Held(p)' = Held(p)
  BY Released DEF Rollback, Commit
<1>2. \A c \in Columns : << p, c, From(0) >> \in gaps => << p, c, From(0) >> \in gaps'
  BY DEF Rollback, Commit
<1>3. Sure(q) \subseteq Columns /\ NotCreated \notin Columns
  BY ColsType, RowsAssumption DEF Sure
<1>4. \A k \in Held(q) : /\ k \in Cards
                         /\ column[k] \notin Sure(p) /\ newColumn[k] \notin Sure(p)
                         /\ newColumn[k] # NotCreated
  BY <1>3, Apart DEF Guards, Held
<1>5. CASE Rollback(q)
  <2>1. \A k \in Cards :
          /\ column'[k] = column[k] /\ position'[k] = position[k]
          /\ k \in Held(q) => newColumn'[k] = column[k]
          /\ k \notin Held(q) => newColumn'[k] = newColumn[k] /\ newPosition'[k] = newPosition[k]
    BY <1>5 DEF Rollback, table
  <2>2. \A k \in Cards : ~ Clear(p, k) => SameRow(k)
    BY <1>4, <2>1 DEF Clear, SameRow
  <2> QED
    BY <1>1, <1>2, <2>1, <2>2 DEF Undisturbed
<1>6. CASE Commit(q)
  <2>1. \A k \in Cards :
          /\ newColumn'[k] = newColumn[k] /\ newPosition'[k] = newPosition[k]
          /\ k \in Held(q) => column'[k] = newColumn[k]
          /\ k \notin Held(q) => column'[k] = column[k] /\ position'[k] = position[k]
    BY <1>6 DEF Commit, newest
  <2>2. \A k \in Cards : ~ Clear(p, k) => SameRow(k)
    BY <1>4, <2>1 DEF Clear, SameRow
  <2> QED
    BY <1>1, <1>2, <1>4, <2>1, <2>2 DEF Undisturbed
<1> QED
  BY <1>5, <1>6

(* and one that writes. *)
LEMMA WriteUndisturbed ==
  ASSUME WriterInv, ServingInv, Steady, EnoughIds, NEW p \in Procs, NEW q \in Procs, p # q,
         Guards(p), Serial(q), Write(q)
  PROVE  Undisturbed(p)
<1> DEFINE s == Pending(q)
<1>1. Run(q, s) /\ tx[q].pc \in Writes /\ tx[q].pc \in Statements /\ Grantable(q, s)
  BY DEF Write, Run, Statements
<1>2. tx'[p] = tx[p]
  BY DEF ServingInv, Write
<1>3. Held(p)' = Held(p)
  BY <1>1, RunHeld
<1>4. Stays(q, s) /\ LocksItsWrites(s) /\ InShape(s)
  BY <1>1, WriteStays, WritesWhatItLocks, PendingRows DEF WriterInv
<1> HIDE DEF s
<1>5. /\ newColumn' = s.column /\ newPosition' = s.position
      /\ column' = column /\ position' = position /\ gaps \subseteq gaps'
  BY <1>1 DEF Run, table
<1>6. Sure(p) \subseteq Columns /\ NotCreated \notin Columns
  BY ColsType, RowsAssumption DEF Sure
<1>7. ASSUME NEW k \in s.cards
      PROVE  Clear(p, k)
  <2>1. k \in Cards
    BY <1>4 DEF Stays
  <2>2. \A c \in Sure(p) \cap Sure(q) : column[k] # c /\ newColumn[k] # c
    BY <2>1, Exclusive DEF Serial
  <2>3. column[k] \notin Sure(p) /\ newColumn[k] \notin Sure(p)
    BY <1>4, <1>6, <2>2 DEF Stays
  <2>4. s.column[k] \notin Sure(p)
    <3>1. SUFFICES ASSUME s.column[k] \in Sure(p) PROVE FALSE
      OBVIOUS
    <3> DEFINE c == s.column[k]
               i == s.position[k]
    <3>2. c \in Sure(p) \cap Sure(q)
      BY <1>4, <3>1 DEF Stays
    <3>3. << p, c, From(0) >> \in gaps /\ newColumn[k] # c
      BY <2>1, <3>2, Exclusive DEF Serial
    <3>4. i \in Nat
      BY <1>4, <2>1 DEF InShape, PositionTable
    <3>5. InRange(i, From(0))
      BY <3>4 DEF InRange, From
    <3>6. << c, i >> \in Entries(s)
      BY <2>1, <3>3 DEF Entries
    <3>7. InTheWay(p, s)
      BY <3>3, <3>5, <3>6 DEF InTheWay
    <3> QED
      BY <1>1, <3>7 DEF Grantable
  <2> QED
    BY <1>5, <2>3, <2>4 DEF Clear
<1>8. \A k \in Cards \ s.cards : SameRow(k)
  BY <1>4, <1>5 DEF LocksItsWrites, SameRow
<1>9. \A k \in Cards, c \in Columns :
        Outlet(c) /\ column[k] \notin {c, NotCreated} /\ newColumn[k] # c
          => column'[k] # c /\ newColumn'[k] # c
  BY <1>4, <1>5, <1>8 DEF Stays, SameRow
<1> QED
  BY <1>2, <1>3, <1>5, <1>7, <1>8, <1>9 DEF Undisturbed

LEMMA OthersUndisturbed ==
  ASSUME WriterInv, ServingInv, Steady, SerialInv, NEW p \in Procs, NEW q \in Procs, p # q,
         Step(q) \/ Abandon(q) \/ \E r \in Requests : Begin(q, r)
  PROVE  Undisturbed(p)
<1>1. EnoughIds /\ Serial(p) /\ Serial(q) /\ Guards(p) /\ Guards(q)
  BY DEF SerialInv, Serial
<1>2. CASE ReadOwned(q) \/ \E r \in Requests : Begin(q, r)
  <2>1. tx'[p] = tx[p] /\ UNCHANGED << table, newest, locks, gaps >>
    BY <1>2 DEF ReadOwned, Begin, ServingInv
  <2> QED
    BY <2>1, ReadUndisturbed DEF Held
<1>3. ASSUME LockCards(q) \/ ReadSpot(q), Run(q, Pending(q)), tx[q].pc \in {"first", "second", "spot"}
      PROVE  Undisturbed(p)
  <2>1. tx'[p] = tx[p]
    BY <1>3 DEF LockCards, ReadSpot, ServingInv
  <2>2. Held(p)' = Held(p)
    BY <1>3, RunHeld DEF Statements
  <2>3. UNCHANGED << table, newest >> /\ gaps \subseteq gaps'
    BY <1>3 DEF Run, Pending, LockColumn, LockSpot, Select, Statement, newest
  <2> QED
    BY <2>1, <2>2, <2>3, ReadUndisturbed
<1>4. CASE LockCards(q)
  BY <1>3, <1>4 DEF LockCards
<1>5. CASE ReadSpot(q)
  <2>1. CASE Run(q, Pending(q))
    BY <1>3, <1>5, <2>1 DEF ReadSpot
  <2>2. CASE ~ Run(q, Pending(q))
    <3>1. Rollback(q) /\ tx'[p] = tx[p]
      BY <1>5, <2>2 DEF ReadSpot, ServingInv
    <3> QED
      BY <1>1, <3>1, EndUndisturbed
  <2> QED
    BY <2>1, <2>2
<1>6. CASE Write(q)
  BY <1>1, <1>6, WriteUndisturbed
<1>7. CASE Commit(q) \/ LockError(q) \/ Abandon(q)
  <2>1. tx'[p] = tx[p] /\ (Rollback(q) \/ Commit(q))
    BY <1>7 DEF Commit, LockError, Abandon, ServingInv
  <2> QED
    BY <1>1, <2>1, EndUndisturbed
<1> QED
  BY <1>2, <1>4, <1>5, <1>6, <1>7 DEF Step

(* A transaction that has locked nothing. *)
LEMMA NothingLocked ==
  ASSUME NEW p \in Procs, tx[p].pc \in {"idle", "owned", "first"}, Guards(p)
  PROVE  Cols(p) = {} /\ Sure(p) = {} /\ Held(p) = {}
BY DEF Cols, Sure, Guards

(* A request that has locked nothing has everything to find out. *)
LEMMA StartsSerial ==
  ASSUME NEW p \in Procs, Held(p)' = {}, tx'[p].pc \in {"idle", "owned", "first"}, Asked(p)'
  PROVE  Serial(p)'
<1>1. Cols(p)' = {} /\ Sure(p)' = {}
  BY DEF Cols, Sure
<1>2. Guards(p)' /\ Counted(p)' /\ Placed(p)' /\ Wrote(p)'
  BY <1>1 DEF Guards, Counted, Placed, Wrote
<1> QED
  BY <1>2 DEF Serial

LEMMA IdleSerial ==
  ASSUME NEW p \in Procs, Held(p)' = {}, tx'[p] = Idle
  PROVE  Serial(p)'
<1>1. tx'[p].pc = "idle"
  BY DEF Idle
<1> QED
  BY <1>1, StartsSerial DEF Asked

LEMMA BeginSerial ==
  ASSUME ServingInv, Steady, NEW p \in Procs, Guards(p), NEW r \in Requests, Begin(p, r)
  PROVE  Serial(p)'
<1>1. Held(p)' = {}
  BY NothingLocked DEF Begin, Held
<1>2. /\ tx'[p].pc \in {"owned", "first"} /\ tx'[p].request = r
      /\ tx'[p].pc = "first" => r.op \notin {"move", "delete"}
      /\ r.op \notin {"move", "delete"} =>
           tx'[p].source = r.column /\ tx'[p].level = "repeatable read"
  BY DEF Begin, ServingInv
<1>3. r.op # "delete"
  BY DEF Steady
<1>4. Asked(p)'
  BY <1>2, <1>3 DEF Asked, Begin
<1> QED
  BY <1>1, <1>2, <1>4, StartsSerial

LEMMA ReadOwnedSerial ==
  ASSUME ServingInv, Steady, NEW p \in Procs, Guards(p), ReadOwned(p)
  PROVE  Serial(p)'
<1> DEFINE k == tx[p].request.card
<1>1. Held(p)' = {}
  BY NothingLocked DEF ReadOwned, Held
<1>2. DOMAIN tx[p] = Fields /\ tx[p].request.op = "move" /\ tx = [q \in Procs |-> tx[q]]
  BY DEF ServingInv, ReadOwned, Serving, Runs, Steady
<1>3. CASE column[k] \notin Columns
  BY <1>1, <1>3, IdleSerial DEF ReadOwned, ServingInv
<1>4. CASE column[k] \in Columns
  <2>1. tx'[p] = [tx[p] EXCEPT !.source = column[k], !.spot = position[k], !.pc = "first"]
    BY <1>2, <1>4 DEF ReadOwned
  <2>2. tx'[p].pc = "first" /\ tx'[p].request = tx[p].request
    BY <1>2, <2>1 DEF Fields
  <2>3. column' = column /\ column[k] # NotCreated
    BY <1>4, RowsAssumption DEF ReadOwned, table
  <2>4. Asked(p)'
    BY <1>2, <2>2, <2>3 DEF Asked
  <2> QED
    BY <1>1, <2>2, <2>4, StartsSerial
<1> QED
  BY <1>3, <1>4

LEMMA RollbackSerial ==
  ASSUME ServingInv, NEW p \in Procs, tx[p].pc # "idle", Rollback(p),
         \/ tx' = [tx EXCEPT ![p] = Idle]
         \/ tx' = [tx EXCEPT ![p] = RetryOrFail(p)]
  PROVE  Serial(p)'
<1>1. Held(p)' = {}
  BY Released DEF Rollback
<1>2. CASE tx'[p] = Idle
  BY <1>1, <1>2, IdleSerial
<1>3. CASE tx'[p] # Idle
  <2>1. DOMAIN tx[p] = Fields
    BY DEF ServingInv, Serving
  <2>2. /\ tx[p].request.op = "move"
        /\ tx'[p] = [tx[p] EXCEPT !.pc = "owned", !.attempt = @ + 1, !.source = Absent,
                                  !.spot = 0, !.seen = [c \in Columns |-> 0]]
    BY <1>3 DEF RetryOrFail, ServingInv
  <2>3. tx'[p].pc = "owned" /\ tx'[p].request = tx[p].request
    BY <2>1, <2>2 DEF Fields
  <2>4. Asked(p)'
    BY <2>2, <2>3 DEF Asked
  <2> QED
    BY <1>1, <2>3, <2>4, StartsSerial
<1> QED
  BY <1>2, <1>3

LEMMA CommitSerial ==
  ASSUME ServingInv, NEW p \in Procs, Commit(p)
  PROVE  Serial(p)'
<1>1. Held(p)' = {} /\ tx'[p] = Idle
  BY Released DEF Commit, ServingInv
<1> QED
  BY <1>1, IdleSerial

-----------------------------------------------------------------------------
(* Locking the cards of a column. *)

(* The range a locking read of a column scans ends with its last card. *)
LEMMA LastEntryIs ==
  ASSUME ServingInv, NEW c
  PROVE  \/ /\ \A k \in Cards : newColumn[k] # c /\ column[k] # c
            /\ LastEntry(c) = 0
         \/ /\ \E k \in Cards : \/ newColumn[k] = c /\ newPosition[k] = LastEntry(c)
                                \/ column[k] = c /\ position[k] = LastEntry(c)
            /\ \A k \in Cards : /\ newColumn[k] = c => newPosition[k] <= LastEntry(c)
                                /\ column[k] = c => position[k] <= LastEntry(c)
            /\ LastEntry(c) \in Nat
<1> DEFINE new == {j \in Cards : newColumn[j] = c}
           old == {j \in Cards : column[j] = c}
           used == {newPosition[k] : k \in new} \cup {position[k] : k \in old}
<1>1. LastEntry(c) = IF used = {} THEN 0 ELSE CHOOSE m \in used : \A u \in used : u <= m
  BY DEF LastEntry
<1>2. newPosition \in PositionTable /\ position \in PositionTable
  BY DEF ServingInv, Rows
<1>3. used \subseteq Nat
  BY <1>2 DEF PositionTable
<1>4. new # {} => \E k \in new : \A j \in new : newPosition[j] <= newPosition[k]
  BY <1>2, Highest
<1>5. old # {} => \E k \in old : \A j \in old : position[j] <= position[k]
  BY <1>2, Highest
<1>6. used # {} => \E m \in used : \A u \in used : u <= m
  <2>1. CASE new = {} /\ old # {}
    BY <1>5, <2>1
  <2>2. CASE new # {} /\ old = {}
    BY <1>4, <2>2
  <2>3. CASE new # {} /\ old # {}
    <3>1. PICK i \in new : \A j \in new : newPosition[j] <= newPosition[i]
      BY <1>4, <2>3
    <3>2. PICK k \in old : \A j \in old : position[j] <= position[k]
      BY <1>5, <2>3
    <3>3. \A j \in new : newPosition[j] \in Nat
      BY <1>3
    <3>4. \A j \in old : position[j] \in Nat
      BY <1>3
    <3>5. CASE newPosition[i] <= position[k]
      <4>1. \A u \in used : u <= position[k]
        BY <3>1, <3>2, <3>3, <3>4, <3>5
      <4> QED
        BY <4>1
    <3>6. CASE position[k] <= newPosition[i]
      <4>1. \A u \in used : u <= newPosition[i]
        BY <3>1, <3>2, <3>3, <3>4, <3>6
      <4> QED
        BY <4>1
    <3> QED
      BY <3>3, <3>4, <3>5, <3>6
  <2> QED
    BY <2>1, <2>2, <2>3
<1>7. CASE used = {}
  BY <1>1, <1>7
<1>8. CASE used # {}
  <2>1. LastEntry(c) \in used /\ \A u \in used : u <= LastEntry(c)
    <3> HIDE DEF used
    <3> QED
      BY <1>1, <1>6, <1>8
  <2> QED
    BY <1>3, <2>1
<1> QED
  BY <1>7, <1>8

(* The rows of the column that a locking read locks, the ones below the     *)
(* highest included: it locks the highest, and nobody has any of them       *)
(* without that one.                                                        *)
LEMMA ReadAlone ==
  ASSUME WriterInv, ServingInv, SerialInv, NEW p \in Procs, NEW c \in Columns \ Cols(p),
         Grantable(p, LockColumn(p, c))
  PROVE  /\ \A k \in Cards : newColumn[k] = c \/ column[k] = c =>
              newColumn[k] = column[k] /\ newPosition[k] = position[k]
         /\ \A k \in Cards : Top(k, c) => k \in LockColumn(p, c).cards
         /\ \A k \in LockColumn(p, c).cards : k \in Cards /\ column[k] = c /\ k \notin Held(p)
         /\ (\A k \in Cards : column[k] # c) => LockColumn(p, c).gaps = {<< c, From(0) >>}
<1> DEFINE low == IF ReadsMax(p, c) THEN LastEntry(c) ELSE 0
           s == LockColumn(p, c)
           near(k) == newColumn[k] = c \/ column[k] = c
<1>1. s.cards = Scan(c, From(low)) /\ s.gaps = {<< c, From(low) >>}
  BY DEF LockColumn, Select, Statement
<1>2. Grantable(p, s)
  OBVIOUS
<1> HIDE DEF s
<1>3. \A k \in Cards : newPosition[k] \in Nat /\ position[k] \in Nat
  BY DEF ServingInv, Rows, PositionTable
<1>4. \A q \in Procs : Guards(q) /\ Sure(q) \subseteq Cols(q) /\ Held(q) \subseteq Cards
  BY DEF SerialInv, Serial, Sure, Held
<1>5. \A k \in Held(p) : ~ near(k)
  BY <1>4, RowsAssumption DEF Guards
<1>6. \A k \in s.cards : /\ k \in Cards /\ near(k) /\ k \notin Held(p)
                         /\ newColumn[k] = column[k] /\ newPosition[k] = position[k]
                         /\ \A q \in Procs : k \notin Held(q)
  <2>1. \A k \in s.cards : k \in Cards /\ near(k)
    BY <1>1 DEF Scan
  <2> QED
    BY <1>2, <1>5, <2>1, Scanned
<1>7. CASE \A k \in Cards : ~ near(k)
  <2>1. low = 0
    BY <1>7, LastEntryIs
  <2> QED
    BY <1>1, <1>6, <1>7, <2>1 DEF Top, s
<1>8. CASE \E k \in Cards : near(k)
  <2>1. /\ LastEntry(c) \in Nat
        /\ \E k \in Cards : \/ newColumn[k] = c /\ newPosition[k] = LastEntry(c)
                            \/ column[k] = c /\ position[k] = LastEntry(c)
        /\ \A k \in Cards : /\ newColumn[k] = c => newPosition[k] <= LastEntry(c)
                            /\ column[k] = c => position[k] <= LastEntry(c)
    BY <1>8, LastEntryIs
  <2>2. PICK last \in Cards : \/ newColumn[last] = c /\ newPosition[last] = LastEntry(c)
                              \/ column[last] = c /\ position[last] = LastEntry(c)
    BY <2>1
  <2>3. low \in Nat /\ low <= LastEntry(c)
    BY <2>1
  <2>4. last \in s.cards
    <3>1. \A i : i = LastEntry(c) => InRange(i, From(low))
      BY <2>1, <2>3 DEF InRange, From
    <3> QED
      BY <1>1, <2>2, <3>1 DEF Scan
  <2>5. /\ column[last] = c /\ position[last] = LastEntry(c)
        /\ \A q \in Procs : last \notin Held(q)
    BY <1>6, <2>2, <2>4
  <2>6. Top(last, c)
    BY <2>1, <2>5 DEF Top
  <2>7. ASSUME NEW k \in Cards, near(k), NEW q \in Procs, k \in Held(q)
        PROVE  FALSE
    <3>1. c \in Sure(q)
      BY <1>4, <2>7, RowsAssumption DEF Guards
    <3>2. Locked(q, c)
      BY <1>4, <3>1 DEF Guards
    <3> QED
      BY <2>5, <2>6, <3>2 DEF Locked
  <2>8. \A k \in Cards : near(k) => newColumn[k] = column[k] /\ newPosition[k] = position[k]
    BY <2>7 DEF WriterInv, OneWriter
  <2>9. ASSUME NEW k \in Cards, Top(k, c)
        PROVE  k \in s.cards
    <3>1. column[k] = c /\ LastEntry(c) <= position[k]
      BY <2>5, <2>9 DEF Top
    <3>2. InRange(position[k], From(low))
      BY <1>3, <2>1, <2>3, <3>1 DEF InRange, From
    <3> QED
      BY <1>1, <3>1, <3>2 DEF Scan
  <2> QED
    BY <1>6, <2>5, <2>8, <2>9 DEF s
<1> QED
  BY <1>7, <1>8

(* What the handler keeps of a locking read. *)
LEMMA LockCardsTx ==
  ASSUME ServingInv, Steady, NEW p \in Procs, Asked(p), LockCards(p)
  PROVE  LET c == LockOrder(p)[IF tx[p].pc = "first" THEN 1 ELSE 2]
             rows == InColumn(newColumn, c)
             r == tx[p].request
             before == IF r.op = "sort" THEN ByAge(r.desc)
                       ELSE ByPosition(newPosition)
         IN /\ c \in Columns \ Cols(p) /\ Cols(p)' = Cols(p) \cup {c}
            /\ c \in {Source(p), Target(p)}
            /\ tx'[p].pc \in {"second", "spot", "insert", "open", "rewrite", "append"}
            /\ tx'[p].pc \in {"insert", "open"} => r.op = "create"
            /\ tx'[p].pc = "insert" => r.position = Absent
            /\ tx'[p].pc = "open" => r.position # Absent
            /\ tx'[p].pc = "second" => Source(p) # Target(p)
            /\ Source(p)' = Source(p) /\ Target(p)' = Target(p)
            /\ \A d : ReadsMax(p, d)' <=> ReadsMax(p, d)
            /\ tx'[p].request = r /\ tx'[p].source = tx[p].source
            /\ tx'[p].level = tx[p].level /\ tx'[p].spot = tx[p].spot
            /\ \A d \in Columns : d # c => tx'[p].seen[d] = tx[p].seen[d]
            /\ tx'[p].seen[c] = IF ReadsMax(p, c) THEN MaxPosition(newColumn, newPosition, c)
                                ELSE Cardinality(rows)
            /\ tx'[p].ranks = IF r.op \in {"sort", "bulk"} /\ c = Source(p)
                              THEN [k \in rows |-> IndexIn(rows, before, k)]
                              ELSE tx[p].ranks
            /\ Run(p, LockColumn(p, c))
<1> DEFINE c == LockOrder(p)[IF tx[p].pc = "first" THEN 1 ELSE 2]
           rows == InColumn(newColumn, c)
           r == tx[p].request
           before == IF r.op = "sort" THEN ByAge(r.desc)
                     ELSE ByPosition(newPosition)
           found == IF ReadsMax(p, c) THEN MaxPosition(newColumn, newPosition, c)
                    ELSE Cardinality(rows)
           ranks == IF r.op \in {"sort", "bulk"} /\ c = Source(p)
                    THEN [k \in rows |-> IndexIn(rows, before, k)] ELSE tx[p].ranks
           pc == IF tx[p].pc = "first" /\ Len(LockOrder(p)) = 2 THEN "second" ELSE AfterLocks(p)
           seen == [tx[p].seen EXCEPT ![c] = found]
           t == [tx[p] EXCEPT !.seen = seen, !.ranks = ranks, !.pc = pc]
<1>1. Serving(tx[p]) /\ tx[p].pc \in {"first", "second"} /\ tx = [q \in Procs |-> tx[q]]
  BY DEF ServingInv, LockCards
<1>2. /\ DOMAIN tx[p] = Fields /\ r \in Requests /\ tx[p].seen \in [Columns -> Int]
      /\ r.op \in {"create", "move", "sort", "bulk"}
  BY <1>1, RequestFields DEF Serving, Runs, Steady
<1>3. /\ Source(p) \in Columns /\ Target(p) \in Columns
      /\ \/ Source(p) = Target(p) /\ LockOrder(p) = << Source(p) >>
         \/ /\ Source(p) # Target(p)
            /\ LockOrder(p) \in {<< Source(p), Target(p) >>, << Target(p), Source(p) >>}
  BY <1>1, ColsType
<1>4. tx[p].pc = "second" => Source(p) # Target(p)
  BY DEF Asked
<1>5. tx' = [tx EXCEPT ![p] = t]
  BY <1>1, <1>2 DEF LockCards, Fields
<1>6. pc \in {"second", "spot", "insert", "open", "rewrite", "append"}
      /\ (pc \in {"insert", "open"} => r.op = "create")
      /\ (pc = "insert" => r.position = Absent)
      /\ (pc = "open" => r.position # Absent)
      /\ (pc = "second" => Source(p) # Target(p) /\ tx[p].pc = "first")
      /\ (pc # "second" /\ tx[p].pc = "first" => Source(p) = Target(p))
  BY <1>2, <1>3 DEF AfterLocks
<1>7. c \in {Source(p), Target(p)} /\ c \in Columns \ Cols(p)
  BY <1>1, <1>3, <1>4 DEF Cols
<1>8. Run(p, LockColumn(p, c))
  BY <1>1 DEF LockCards, Pending
<1> HIDE DEF pc, seen, ranks
<1>9. /\ tx'[p].request = r /\ tx'[p].source = tx[p].source /\ tx'[p].level = tx[p].level
      /\ tx'[p].spot = tx[p].spot /\ tx'[p].pc = pc /\ tx'[p].seen = seen
      /\ tx'[p].ranks = ranks
  BY <1>1, <1>2, <1>5 DEF Fields
<1>10. Source(p)' = Source(p) /\ Target(p)' = Target(p)
  BY <1>9 DEF Source, Target
<1>11. \A d : ReadsMax(p, d)' <=> ReadsMax(p, d)
  BY <1>9, <1>10 DEF ReadsMax
<1>12. LockOrder(p)' = LockOrder(p)
  BY <1>10 DEF LockOrder
<1>13. Cols(p)' = Cols(p) \cup {c}
  <2>1. CASE pc = "second"
    BY <1>1, <1>6, <1>9, <1>12, <2>1 DEF Cols
  <2>2. CASE pc # "second"
    <3>1. Cols(p)' = {Source(p), Target(p)}
      BY <1>6, <1>9, <1>10, <2>2 DEF Cols
    <3>2. CASE tx[p].pc = "first"
      BY <1>3, <1>6, <1>7, <2>2, <3>1, <3>2 DEF Cols
    <3>3. CASE tx[p].pc = "second"
      <4>1. Cols(p) = {LockOrder(p)[1]} /\ c = LockOrder(p)[2]
        BY <3>3 DEF Cols
      <4> QED
        BY <1>3, <1>4, <3>1, <3>3, <4>1
    <3> QED
      BY <1>1, <3>2, <3>3
  <2> QED
    BY <2>1, <2>2
<1>14. /\ \A d \in Columns : d # c => seen[d] = tx[p].seen[d]
       /\ seen[c] = found
  BY <1>2, <1>7 DEF seen
<1> HIDE DEF c, found
<1> QED
  BY <1>6, <1>7, <1>8, <1>9, <1>10, <1>11, <1>13, <1>14 DEF found, ranks, c

-----------------------------------------------------------------------------

(* The rows of a column are the committed ones once they are locked. *)
LEMMA LockCardsSerial ==
  ASSUME WriterInv, ServingInv, Steady, SerialInv, NEW p \in Procs, LockCards(p)
  PROVE  Serial(p)'
<1> DEFINE r == tx[p].request
           t == tx'[p]
<1>1. Guards(p) /\ Asked(p) /\ Counted(p) /\ Wrote(p) /\ tx[p].pc \in {"first", "second"}
  BY DEF SerialInv, Serial, LockCards
<1>2. PICK c : c = LockOrder(p)[IF tx[p].pc = "first" THEN 1 ELSE 2]
  OBVIOUS
<1>3. /\ c \in Columns \ Cols(p) /\ Cols(p)' = Cols(p) \cup {c}
      /\ c \in {Source(p), Target(p)}
      /\ t.pc \in {"second", "spot", "insert", "open", "rewrite", "append"}
      /\ t.pc \in {"insert", "open"} => r.op = "create"
      /\ t.pc = "insert" => r.position = Absent
      /\ t.pc = "open" => r.position # Absent
      /\ t.pc = "second" => Source(p) # Target(p)
      /\ Source(p)' = Source(p) /\ Target(p)' = Target(p)
      /\ \A d : ReadsMax(p, d)' <=> ReadsMax(p, d)
      /\ t.request = r /\ t.source = tx[p].source /\ t.level = tx[p].level /\ t.spot = tx[p].spot
      /\ \A d \in Columns : d # c => t.seen[d] = tx[p].seen[d]
      /\ Run(p, LockColumn(p, c))
  BY <1>1, <1>2, LockCardsTx
<1>4. /\ t.seen[c] = IF ReadsMax(p, c) THEN MaxPosition(newColumn, newPosition, c)
                     ELSE Cardinality(InColumn(newColumn, c))
      /\ t.ranks = IF r.op \in {"sort", "bulk"} /\ c = Source(p)
                   THEN [k \in InColumn(newColumn, c) |->
                           IndexIn(InColumn(newColumn, c),
                                          IF r.op = "sort" THEN ByAge(r.desc)
                                          ELSE ByPosition(newPosition), k)]
                   ELSE tx[p].ranks
  BY <1>1, <1>2, LockCardsTx
<1>5. /\ \A k \in Cards : newColumn[k] = c \/ column[k] = c =>
           newColumn[k] = column[k] /\ newPosition[k] = position[k]
      /\ \A k \in Cards : Top(k, c) => k \in LockColumn(p, c).cards
      /\ \A k \in LockColumn(p, c).cards : k \in Cards /\ column[k] = c /\ k \notin Held(p)
      /\ (\A k \in Cards : column[k] # c) => LockColumn(p, c).gaps = {<< c, From(0) >>}
  BY <1>3, ReadAlone DEF Run
<1>6. PICK cards : cards = LockColumn(p, c).cards
  OBVIOUS
<1>7. Held(p)' = Held(p) \cup cards
  <2>1. Pending(p) = LockColumn(p, c)
    BY <1>1, <1>2 DEF Pending
  <2> QED
    BY <1>1, <1>3, <1>5, <1>6, <2>1, RunHeld DEF Statements
<1>8. column' = column /\ position' = position /\ newColumn' = newColumn /\ newPosition' = newPosition
  BY <1>3 DEF Run, LockColumn, Select, Statement, table
<1>9. /\ gaps \subseteq gaps'
      /\ tx[p].level = "repeatable read" /\ (\A k \in Cards : column[k] # c)
           => << p, c, From(0) >> \in gaps'
  <2>1. gaps' = gaps \cup (IF tx[p].level = "repeatable read"
                           THEN {<< p, g[1], g[2] >> : g \in LockColumn(p, c).gaps} ELSE {})
    BY <1>3 DEF Run
  <2>2. PICK g : g = << c, From(0) >>
    OBVIOUS
  <2>3. g[1] = c /\ g[2] = From(0)
    BY <2>2
  <2>4. (\A k \in Cards : column[k] # c) => g \in LockColumn(p, c).gaps
    BY <1>5, <2>2
  <2> QED
    BY <2>1, <2>3, <2>4
<1>10. Cols(p) \subseteq Columns /\ Sure(p) \subseteq Cols(p) /\ Held(p) \subseteq Cards
       /\ NotCreated \notin Columns
  BY ColsType, RowsAssumption DEF Sure, Held
<1>11. /\ \A d \in Cols(p) : d \in Owns(p)' <=> d \in Owns(p)
       /\ c \in Owns(p)' <=> \E k \in Cards : column[k] = c
  <2>1. \A d : d \in Owns(p)' <=> d \in Cols(p) \cup {c} /\ \E k \in Held(p) \cup cards : column[k] = d
    BY <1>3, <1>7, <1>8 DEF Owns
  <2>2. \A d : d \in Owns(p) <=> d \in Cols(p) /\ \E k \in Held(p) : column[k] = d
    BY DEF Owns
  <2>3. ASSUME NEW k \in Cards, column[k] = c PROVE \E j \in cards : column[j] = c
    BY <1>5, <1>6, <2>3, HasTop DEF Top
  <2>4. \A k \in cards : k \in Cards /\ column[k] = c
    BY <1>5, <1>6
  <2>5. \A k \in Held(p) : column[k] # c
    BY <1>1, <1>3, <1>10 DEF Guards
  <2> QED
    BY <1>3, <1>10, <2>1, <2>2, <2>3, <2>4, <2>5
<1>12. /\ \A d \in Cols(p) : d \in Sure(p)' <=> d \in Sure(p)
       /\ c \in Sure(p)' <=> c \in Owns(p)' \/ r.op # "move"
       /\ Sure(p)' \subseteq Sure(p) \cup {c}
  BY <1>3, <1>11 DEF Sure
<1>13. Guards(p)'
  <2>1. ASSUME NEW k \in Held(p)'
        PROVE  newColumn'[k] \in Sure(p)' /\ column'[k] \in Sure(p)' \cup {NotCreated}
    <3>1. CASE k \in Held(p)
      BY <1>1, <1>8, <1>10, <1>12, <3>1 DEF Guards
    <3>2. CASE k \in cards
      <4>1. k \in Cards /\ column[k] = c /\ newColumn[k] = c
        BY <1>5, <1>6, <3>2
      <4> QED
        BY <1>8, <1>11, <1>12, <4>1
    <3> QED
      BY <1>7, <2>1, <3>1, <3>2
  <2>2. ASSUME NEW d \in Sure(p)'
        PROVE  Locked(p, d)'
    <3>1. CASE d # c /\ d \in Owns(p)
      <4>1. d \in Owns(p)' /\ Locked(p, d)
        BY <1>1, <1>10, <1>11, <1>12, <3>1 DEF Guards
      <4> QED
        BY <1>7, <1>8, <3>1, <4>1 DEF Locked, Top
    <3>2. CASE d # c /\ d \notin Owns(p)
      <4>1. d \notin Owns(p)' /\ Locked(p, d)
        BY <1>1, <1>10, <1>11, <1>12, <2>2, <3>2 DEF Guards
      <4> QED
        BY <1>7, <1>8, <1>9, <3>2, <4>1 DEF Locked, From
    <3>3. CASE d = c /\ c \in Owns(p)'
      <4>1. \A j \in Cards : Top(j, c)' => j \in Held(p)'
        BY <1>5, <1>6, <1>7, <1>8 DEF Top
      <4> QED
        BY <3>3, <4>1 DEF Locked
    <3>4. CASE d = c /\ c \notin Owns(p)'
      <4>1. r.op # "move" /\ tx[p].level = "repeatable read"
        BY <1>1, <1>12, <2>2, <3>4 DEF Asked
      <4>2. \A k \in Cards : column[k] # c /\ newColumn[k] # c
        BY <1>5, <1>11, <3>4
      <4> QED
        BY <1>8, <1>9, <3>4, <4>1, <4>2 DEF Locked, From
    <3> QED
      BY <3>1, <3>2, <3>3, <3>4
  <2>3. ASSUME NEW d \in Cols(p)' \ Sure(p)'
        PROVE  Gone(p, d)'
    <3>1. CASE d # c
      <4>1. Gone(p, d)
        BY <1>1, <1>3, <1>12, <2>3, <3>1 DEF Guards
      <4> QED
        BY <1>3, <1>8, <4>1 DEF Gone, Outlet
    <3>2. CASE d = c
      <4>1. r.op = "move" /\ \A k \in Cards : column[k] # c /\ newColumn[k] # c
        BY <1>5, <1>11, <1>12, <2>3, <3>2
      <4>2. Outlet(c)
        BY <1>3, <4>1 DEF Steady, SerialInv, Pins
      <4>3. r \in Requests /\ r.card \in Cards
        BY <1>1, <4>1, ColsType, RequestFields
      <4>4. c = Source(p)
        BY <1>3, <4>1, <4>2, <4>3 DEF Target, Outlet
      <4> QED
        BY <1>3, <1>8, <3>2, <4>1, <4>2, <4>3, <4>4 DEF Gone, Outlet
    <3> QED
      BY <3>1, <3>2
  <2> QED
    BY <2>1, <2>2, <2>3 DEF Guards
<1>14. Asked(p)'
  BY <1>1, <1>3, <1>8 DEF Asked
<1>15. Placed(p)'
  <2>1. t.pc \in {"close", "shift", "open", "point", "commit"} => t.request.op # "move"
    BY <1>3
  <2> QED
    BY <2>1 DEF Placed
<1>16. Counted(p)'
  <2>1. ASSUME NEW d \in Sure(p)', d # c
        PROVE  CountedIn(p, d)'
    <3>1. CountedIn(p, d) /\ d \in Columns
      BY <1>1, <1>10, <1>12, <2>1 DEF Counted
    <3>2. t.seen[d] = tx[p].seen[d]
      BY <1>3, <2>1, <3>1
    <3>3. d = Source(p) => t.ranks = tx[p].ranks
      BY <1>4, <2>1
    <3> QED
      BY <1>3, <1>8, <3>1, <3>2, <3>3 DEF CountedIn, Ranked, ByAge
  <2>2. CountedIn(p, c)'
    <3>1. PICK rows : rows = InColumn(column, c)
      OBVIOUS
    <3>2. /\ InColumn(newColumn, c) = rows
          /\ MaxPosition(newColumn, newPosition, c) = MaxPosition(column, position, c)
          /\ \A k \in rows : IndexIn(rows, ByPosition(newPosition), k)
                               = IndexIn(rows, ByPosition(position), k)
      <4>1. \A k \in Cards : column[k] = c \/ newColumn[k] = c =>
              newColumn[k] = column[k] /\ newPosition[k] = position[k]
        BY <1>5
      <4>2. rows \in SUBSET Cards /\ \A k \in rows : newPosition[k] = position[k]
        BY <3>1, <4>1 DEF InColumn
      <4>3. \A k \in rows : IndexIn(rows, ByPosition(newPosition), k)
                              = IndexIn(rows, ByPosition(position), k)
        BY <4>2, RanksFrame
      <4>4. /\ InColumn(newColumn, c) = InColumn(column, c)
            /\ MaxPosition(newColumn, newPosition, c) = MaxPosition(column, position, c)
        BY <4>1, ColumnFrame
      <4> QED
        BY <3>1, <4>3, <4>4
    <3>3. r.op = "move" => ~ ReadsMax(p, c)
      BY DEF ReadsMax
    <3>4. r.op = "move" => t.seen[c] = Cardinality(rows)
      BY <1>4, <3>2, <3>3
    <3>5. ReadsMax(p, c) => t.seen[c] = MaxPosition(column, position, c)
      BY <1>4, <3>2
    <3>6. r.op = "sort" /\ c = Source(p) =>
            t.ranks = [k \in rows |-> IndexIn(rows, ByAge(r.desc), k)]
      BY <1>4, <3>2
    <3>7. r.op = "bulk" /\ c = Source(p) =>
            t.ranks = [k \in rows |-> IndexIn(rows, ByPosition(position), k)]
      BY <1>4, <3>2
    <3> QED
      BY <1>3, <1>8, <3>1, <3>4, <3>5, <3>6, <3>7 DEF CountedIn, Ranked, ByAge
  <2> QED
    BY <2>1, <2>2 DEF Counted
<1>17. Wrote(p)'
  <2>1. RowsAre(p, column, position)'
    <3>1. tx[p].pc = "first" => Sure(p) = {}
      BY <1>10 DEF Cols
    <3>2. \A k \in Cards : column[k] \in Sure(p) \/ newColumn[k] \in Sure(p) =>
            newColumn[k] = column[k] /\ newPosition[k] = position[k]
      BY <1>1, <3>1 DEF Wrote, RowsAre
    <3> QED
      BY <1>5, <1>8, <1>12, <3>2 DEF RowsAre
  <2>2. t.pc = "insert" => Shifted(p)' = position'
    BY <1>3 DEF Shifted
  <2>3. t.pc = "open" => t.request.op # "move"
    BY <1>3
  <2> QED
    BY <1>3, <2>1, <2>2, <2>3 DEF Wrote
<1> QED
  BY <1>13, <1>14, <1>15, <1>16, <1>17 DEF Serial

(* The spot, read again under its lock, is the committed one. *)
LEMMA ReadSpotSerial ==
  ASSUME WriterInv, ServingInv, Steady, SerialInv, NEW p \in Procs, ReadSpot(p)
  PROVE  Serial(p)'
<1> DEFINE r == tx[p].request
           k == r.card
           t == tx'[p]
<1>1. Serial(p) /\ Guards(p) /\ Asked(p) /\ Counted(p) /\ Wrote(p) /\ tx[p].pc = "spot"
  BY DEF SerialInv, Serial, ReadSpot
<1>2. CASE newColumn[k] # Source(p)
  BY <1>1, <1>2, RollbackSerial DEF ReadSpot, ServingInv
<1>3. CASE newColumn[k] = Source(p)
  <2>1. /\ Serving(tx[p]) /\ DOMAIN tx[p] = Fields /\ r \in Requests /\ r.op = "move"
        /\ k \in Cards /\ tx = [q \in Procs |-> tx[q]]
    BY <1>1, RequestFields DEF ServingInv, Serving, Runs
  <2>2. /\ Cols(p) = {Source(p), Target(p)} /\ Sure(p) \subseteq Cols(p)
        /\ Source(p) \in Columns /\ Target(p) \in Columns
    BY <1>1, ColsType DEF Cols, Sure
  <2>3. /\ Run(p, LockSpot(p))
        /\ tx' = [tx EXCEPT ![p].spot = newPosition[k],
                            ![p].pc = IF Target(p) = Source(p) THEN "shift" ELSE "close"]
    BY <1>1, <1>3 DEF ReadSpot, Pending
  <2>4. /\ t.request = r /\ t.source = tx[p].source /\ t.level = tx[p].level
        /\ t.seen = tx[p].seen /\ t.ranks = tx[p].ranks /\ t.spot = newPosition[k]
        /\ t.pc = IF Target(p) = Source(p) THEN "shift" ELSE "close"
    BY <2>1, <2>3 DEF Fields
  <2>5. /\ column' = column /\ position' = position /\ gaps \subseteq gaps'
        /\ newColumn' = newColumn /\ newPosition' = newPosition
    BY <2>3 DEF Run, LockSpot, Statement, table
  <2>6. Held(p)' = Held(p) \cup {k}
    <3>1. Pending(p).cards = {k}
      BY <1>1 DEF Pending, LockSpot, Statement
    <3> QED
      BY <1>1, <2>1, <2>3, <3>1, RunHeld DEF Statements, Pending
  <2>7. Source(p) \in Sure(p)
    BY <1>1, <1>3, <2>2 DEF Guards, Gone
  <2>8. column[k] = Source(p) /\ position[k] = newPosition[k]
    BY <1>1, <1>3, <2>1, <2>7 DEF Wrote, RowsAre
  <2>9. Sure(p) = Cols(p) /\ Owns(p) = Cols(p)
    <3>1. \A d \in Cols(p) : d \in Sure(p)
      BY <1>1, <2>7 DEF Guards, Gone
    <3> QED
      BY <2>1, <2>2, <3>1 DEF Sure, Owns
  <2>10. /\ Source(p)' = Source(p) /\ Target(p)' = Target(p)
         /\ \A d : ReadsMax(p, d)' <=> ReadsMax(p, d)
    <3>1. Source(p)' = Source(p) /\ Target(p)' = Target(p)
      BY <2>4 DEF Source, Target
    <3> QED
      BY <2>4, <3>1 DEF ReadsMax
  <2>11. Cols(p)' = Cols(p) /\ Owns(p)' = Owns(p) /\ Sure(p)' = Sure(p)
    <3>1. Cols(p)' = Cols(p)
      BY <2>2, <2>4, <2>10 DEF Cols
    <3>2. \A d \in Cols(p) : d \in Owns(p)'
      BY <2>5, <2>6, <2>9, <3>1 DEF Owns
    <3> QED
      BY <2>4, <2>9, <3>1, <3>2 DEF Owns, Sure
  <2>12. Guards(p)'
    <3>1. \A i \in Held(p)' : newColumn'[i] \in Sure(p)' /\ column'[i] \in Sure(p)' \cup {NotCreated}
      BY <1>1, <1>3, <2>5, <2>6, <2>7, <2>8, <2>11 DEF Guards
    <3>2. ASSUME NEW d \in Sure(p) PROVE Locked(p, d)'
      <4>1. d \in Owns(p) /\ Locked(p, d)
        BY <1>1, <2>9 DEF Guards
      <4> QED
        BY <2>5, <2>6, <2>11, <4>1 DEF Locked, Top
    <3> QED
      BY <2>9, <2>11, <3>1, <3>2 DEF Guards
  <2>13. Asked(p)'
    BY <1>1, <2>4, <2>5, <2>10 DEF Asked
  <2>14. ASSUME NEW d \in Sure(p) PROVE CountedIn(p, d)'
    <3>1. CountedIn(p, d)
      BY <1>1 DEF Counted
    <3> QED
      BY <2>1, <2>4, <2>5, <2>10, <3>1 DEF CountedIn, ReadsMax
  <2>15. Placed(p)'
    BY <2>4, <2>5, <2>6, <2>8, <2>10 DEF Placed
  <2>16. RowsAre(p, column, position)'
    BY <1>1, <2>5, <2>11 DEF Wrote, RowsAre
  <2>17. Wrote(p)'
    BY <2>4, <2>16 DEF Wrote
  <2> QED
    BY <2>11, <2>12, <2>13, <2>14, <2>15, <2>17 DEF Serial, Counted
<1> QED
  BY <1>2, <1>3

-----------------------------------------------------------------------------
(* What a write leaves as it was. *)

LEMMA WriteKeeps ==
  ASSUME WriterInv, ServingInv, Steady, SerialInv, NEW p \in Procs, Write(p)
  PROVE  LET s == Pending(p)
             t == tx'[p]
             r == tx[p].request
         IN /\ t.pc = AfterWrite(p) /\ t.request = r /\ t.source = tx[p].source
            /\ t.level = tx[p].level /\ t.spot = tx[p].spot /\ t.seen = tx[p].seen
            /\ t.ranks = tx[p].ranks
            /\ Source(p)' = Source(p) /\ Target(p)' = Target(p) /\ Slot(p)' = Slot(p)
            /\ \A d : ReadsMax(p, d)' <=> ReadsMax(p, d)
            /\ column' = column /\ position' = position /\ gaps \subseteq gaps'
            /\ newColumn' = s.column /\ newPosition' = s.position
            /\ Held(p)' = Held(p) \cup s.cards
            /\ Stays(p, s) /\ LocksItsWrites(s)
            /\ Sure(p) = {Source(p), Target(p)} /\ Sure(p) = Cols(p)
            /\ Cols(p)' = Cols(p) /\ Sure(p)' = Sure(p)
            /\ \A d \in Sure(p) : d \in Owns(p)' <=> d \in Owns(p)
            /\ r \in Requests /\ Runs(r.op, tx[p].pc) /\ r.op # "delete"
            /\ Source(p) \in Columns /\ Target(p) \in Columns
<1> DEFINE s == Pending(p)
           t == tx'[p]
           r == tx[p].request
<1>1. Guards(p) /\ Asked(p) /\ Counted(p) /\ Placed(p) /\ Wrote(p) /\ tx[p].pc \in Writes
  BY DEF SerialInv, Serial, Write
<1>2. /\ DOMAIN tx[p] = Fields /\ r \in Requests /\ Runs(r.op, tx[p].pc) /\ r.op # "delete"
      /\ tx = [q \in Procs |-> tx[q]]
  BY <1>1 DEF ServingInv, Serving, Writes, Steady
<1>3. tx' = [tx EXCEPT ![p].pc = AfterWrite(p)] /\ Run(p, s) /\ Grantable(p, s)
  BY DEF Write, Run
<1>4. /\ t.pc = AfterWrite(p) /\ t.request = r /\ t.source = tx[p].source
      /\ t.level = tx[p].level /\ t.spot = tx[p].spot /\ t.seen = tx[p].seen
      /\ t.ranks = tx[p].ranks
  BY <1>2, <1>3 DEF Fields
<1>5. Source(p)' = Source(p) /\ Target(p)' = Target(p)
  BY <1>4 DEF Source, Target
<1>6. Slot(p)' = Slot(p) /\ \A d : ReadsMax(p, d)' <=> ReadsMax(p, d)
  BY <1>4, <1>5 DEF Slot, ReadsMax, ClampPosition
<1>7. /\ column' = column /\ position' = position /\ gaps \subseteq gaps'
      /\ newColumn' = s.column /\ newPosition' = s.position
  BY <1>3 DEF Run, table
<1>8. Stays(p, s) /\ LocksItsWrites(s)
  BY <1>1, <1>3, WriteStays, WritesWhatItLocks DEF SerialInv, WriterInv, Statements
<1>9. Held(p)' = Held(p) \cup s.cards
  <2>1. s.cards \subseteq Cards
    BY <1>8 DEF Stays
  <2> QED
    BY <1>1, <1>3, <2>1, RunHeld DEF Statements
<1>10. /\ Sure(p) = Cols(p) /\ Cols(p) = {Source(p), Target(p)}
       /\ Source(p) \in Columns /\ Target(p) \in Columns
  BY <1>1, <1>2, WriterIsSure
<1>11. AfterWrite(p) \notin {"idle", "owned", "first", "second"}
  BY DEF AfterWrite
<1>12. Cols(p)' = Cols(p)
  BY <1>4, <1>5, <1>10, <1>11 DEF Cols
<1>13. \A d \in Sure(p) : d \in Owns(p)' <=> d \in Owns(p)
  <2>1. ASSUME NEW d \in Sure(p), d \notin Owns(p) PROVE \A k \in Cards : column[k] # d
    BY <1>1, <2>1 DEF Guards, Locked
  <2>2. \A d \in Sure(p) : d \in Owns(p)' <=> \E k \in Held(p) \cup s.cards : column[k] = d
    BY <1>7, <1>9, <1>10, <1>12 DEF Owns
  <2>3. \A d \in Sure(p) : d \in Owns(p) <=> \E k \in Held(p) : column[k] = d
    BY <1>10 DEF Owns
  <2>4. s.cards \subseteq Cards
    BY <1>8 DEF Stays
  <2> HIDE DEF s
  <2> QED
    BY <2>1, <2>2, <2>3, <2>4
<1>14. Sure(p)' = Sure(p)
  BY <1>4, <1>10, <1>12, <1>13 DEF Sure
<1> QED
  BY <1>2, <1>4, <1>5, <1>6, <1>7, <1>8, <1>9, <1>10, <1>12, <1>13, <1>14

(* The steps of a write: its locks, what it knows, what it has written. *)
LEMMA WriteGuards ==
  ASSUME WriterInv, ServingInv, Steady, SerialInv, NEW p \in Procs, Write(p)
  PROVE  Guards(p)'
<1> DEFINE s == Pending(p)
<1>1. Guards(p) /\ Held(p) \subseteq Cards
  BY DEF SerialInv, Serial, Held
<1>2. /\ column' = column /\ position' = position /\ gaps \subseteq gaps'
      /\ newColumn' = s.column
      /\ Held(p)' = Held(p) \cup s.cards
      /\ Stays(p, s) /\ LocksItsWrites(s)
      /\ Sure(p) = Cols(p) /\ Cols(p)' = Cols(p) /\ Sure(p)' = Sure(p)
      /\ \A d \in Sure(p) : d \in Owns(p)' <=> d \in Owns(p)
  BY WriteKeeps
<1> HIDE DEF s
<1>3. ASSUME NEW k \in Held(p)'
      PROVE  newColumn'[k] \in Sure(p)' /\ column'[k] \in Sure(p)' \cup {NotCreated}
  <2>1. CASE k \in s.cards
    BY <1>2, <2>1 DEF Stays
  <2>2. CASE k \notin s.cards
    BY <1>1, <1>2, <1>3, <2>2 DEF LocksItsWrites, Guards
  <2> QED
    BY <2>1, <2>2
<1>4. ASSUME NEW d \in Sure(p)
      PROVE  Locked(p, d)'
  <2>1. Locked(p, d)
    BY <1>1 DEF Guards
  <2>2. CASE d \in Owns(p)
    BY <1>2, <2>1, <2>2 DEF Locked, Top
  <2>3. CASE d \notin Owns(p)
    <3>1. \A k \in Cards : newColumn'[k] = d => k \in Held(p)'
      BY <1>2, <2>1, <2>3 DEF Locked, LocksItsWrites
    <3> QED
      BY <1>2, <2>1, <2>3, <3>1 DEF Locked, From
  <2> QED
    BY <2>2, <2>3
<1> QED
  BY <1>2, <1>3, <1>4 DEF Guards

LEMMA WriteKnows ==
  ASSUME WriterInv, ServingInv, Steady, SerialInv, NEW p \in Procs, Write(p)
  PROVE  Asked(p)' /\ Counted(p)' /\ Placed(p)'
<1> DEFINE t == tx'[p]
           r == tx[p].request
<1>1. Asked(p) /\ Counted(p) /\ Placed(p) /\ tx[p].pc \in Writes
  BY DEF SerialInv, Serial, Write
<1>2. /\ t.pc = AfterWrite(p) /\ t.request = r /\ t.source = tx[p].source
      /\ t.level = tx[p].level /\ t.spot = tx[p].spot /\ t.seen = tx[p].seen
      /\ t.ranks = tx[p].ranks
      /\ Source(p)' = Source(p) /\ Target(p)' = Target(p)
      /\ \A d : ReadsMax(p, d)' <=> ReadsMax(p, d)
      /\ column' = column /\ position' = position
      /\ Held(p)' = Held(p) \cup Pending(p).cards
      /\ Sure(p)' = Sure(p)
      /\ Runs(r.op, tx[p].pc)
  BY WriteKeeps
<1>3. /\ AfterWrite(p) \notin {"idle", "owned", "second", "shift"}
      /\ r.op = "move" =>
           /\ tx[p].pc \in {"close", "shift", "open", "point", "commit"}
           /\ AfterWrite(p) \in {"close", "open"} => tx[p].pc = "close"
      /\ AfterWrite(p) = "open" => r.op = "move"
  BY <1>1, <1>2 DEF AfterWrite, Writes, Runs
<1>4. Asked(p)'
  BY <1>1, <1>2, <1>3 DEF Asked, Writes
<1>5. ASSUME NEW d \in Sure(p) PROVE CountedIn(p, d)'
  <2>1. CountedIn(p, d)
    BY <1>1 DEF Counted
  <2> QED
    BY <1>2, <2>1 DEF CountedIn, Ranked, ByAge
<1>6. Placed(p)'
  BY <1>1, <1>2, <1>3 DEF Placed
<1> QED
  BY <1>2, <1>4, <1>5, <1>6 DEF Counted

LEMMA UpdateWrote ==
  ASSUME WriterInv, ServingInv, Steady, SerialInv, NEW p \in Procs, Write(p),
         tx[p].pc \in {"close", "open", "shift"}
  PROVE  Wrote(p)'
<1> DEFINE t == tx'[p]
           r == tx[p].request
           spot == tx[p].spot
           near(k) == column[k] \in Sure(p) \/ newColumn[k] \in Sure(p)
<1>1. Wrote(p) /\ Asked(p) /\ Placed(p)
  BY DEF SerialInv, Serial
<1>2. /\ t.pc = AfterWrite(p) /\ t.request = r /\ t.spot = spot
      /\ Source(p)' = Source(p) /\ Target(p)' = Target(p) /\ Slot(p)' = Slot(p)
      /\ column' = column /\ position' = position
      /\ newColumn' = Pending(p).column /\ newPosition' = Pending(p).position
      /\ Sure(p)' = Sure(p)
      /\ r \in Requests /\ Runs(r.op, tx[p].pc)
  BY WriteKeeps
<1>3. Closed(p)' = Closed(p) /\ Shifted(p)' = Shifted(p)
  BY <1>2 DEF Closed, Shifted
<1>5. CASE tx[p].pc = "close"
  <2>1. r.op = "move" /\ AfterWrite(p) = "open"
    BY <1>2, <1>5 DEF Runs, AfterWrite, Steady
  <2>2. /\ newColumn' = newColumn
        /\ newPosition' = CloseGap(newColumn, newPosition, Source(p), spot)
    BY <1>2, <1>5 DEF Pending, CloseCardGap, Update, Statement
  <2>3. RowsAre(p, column, position)
    BY <1>1, <1>5 DEF Wrote
  <2>4. \A k \in Cards : near(k) => newColumn[k] = column[k] /\ newPosition'[k] = Closed(p)[k]
    BY <2>2, <2>3 DEF Closed, CloseGap, RowsAre
  <2>5. RowsAre(p, column, Closed(p))'
    BY <1>2, <1>3, <2>2, <2>4 DEF RowsAre
  <2> QED
    BY <1>2, <2>1, <2>5 DEF Wrote
<1>6. CASE tx[p].pc = "open"
  <2> DEFINE before == IF r.op = "move" THEN Closed(p) ELSE position
  <2>1. r.op \in {"create", "move"}
    BY <1>2, <1>6 DEF Runs
  <2>2. /\ newColumn' = newColumn
        /\ newPosition' = OpenGap(newColumn, newPosition, Target(p), Slot(p))
    BY <1>2, <1>6 DEF Pending, OpenCardGap, Update, Statement
  <2>3. RowsAre(p, column, before)
    BY <1>1, <1>6 DEF Wrote
  <2>4. Shifted(p) = OpenGap(column, before, Target(p), Slot(p))
    <3>1. CASE r.op = "create"
      <4>1. Target(p) = Source(p) /\ r.position # Absent
        BY <1>1, <1>6, <3>1 DEF Target, Asked
      <4> QED
        BY <3>1, <4>1, ShiftedIs
    <3>2. CASE r.op = "move"
      <4>1. Target(p) # Source(p)
        BY <1>1, <1>6, <3>2 DEF Placed
      <4> QED
        BY <3>2, <4>1, ShiftedIs
    <3> QED
      BY <2>1, <3>1, <3>2
  <2> HIDE DEF before
  <2>5. \A k \in Cards : near(k) => newColumn[k] = column[k] /\ newPosition'[k] = Shifted(p)[k]
    BY <2>2, <2>3, <2>4 DEF OpenGap, RowsAre
  <2>6. RowsAre(p, column, Shifted(p))'
    BY <1>2, <1>3, <2>2, <2>5 DEF RowsAre
  <2>7. AfterWrite(p) \in {"insert", "point"}
    BY <1>6, <2>1 DEF AfterWrite
  <2> QED
    BY <1>2, <2>6, <2>7 DEF Wrote
<1>7. CASE tx[p].pc = "shift"
  <2>1. r.op = "move" /\ AfterWrite(p) = "point" /\ Target(p) = Source(p)
    BY <1>1, <1>2, <1>7 DEF Runs, AfterWrite, Placed
  <2>2. /\ newColumn' = newColumn
        /\ newPosition' = IF Slot(p) < spot
                          THEN ShiftUp(newColumn, newPosition, Source(p), Slot(p), spot)
                          ELSE ShiftDown(newColumn, newPosition, Source(p), spot, Slot(p))
    BY <1>2, <1>7 DEF Pending, ShiftCards, Update, Statement
  <2>3. RowsAre(p, column, position)
    BY <1>1, <1>7 DEF Wrote
  <2>4. \A k \in Cards : near(k) => newColumn[k] = column[k] /\ newPosition'[k] = Shifted(p)[k]
    <3>1. CASE Slot(p) < spot
      <4>1. Shifted(p) = ShiftUp(column, position, Source(p), Slot(p), spot)
        BY <2>1, <3>1, ShiftedIs
      <4> QED
        BY <2>2, <2>3, <3>1, <4>1 DEF RowsAre, ShiftUp
    <3>2. CASE ~ (Slot(p) < spot)
      <4>1. Shifted(p) = ShiftDown(column, position, Source(p), spot, Slot(p))
        BY <2>1, <3>2, ShiftedIs
      <4> QED
        BY <2>2, <2>3, <3>2, <4>1 DEF RowsAre, ShiftDown
    <3> QED
      BY <3>1, <3>2
  <2>5. RowsAre(p, column, Shifted(p))'
    BY <1>2, <1>3, <2>2, <2>4 DEF RowsAre
  <2> QED
    BY <1>2, <2>1, <2>5 DEF Wrote
<1> QED
  BY <1>5, <1>6, <1>7

(* A card put at the slot of p. *)
LEMMA PutWrote ==
  ASSUME WriterInv, ServingInv, Steady, SerialInv, NEW p \in Procs, Write(p),
         tx[p].pc \in {"point", "insert"}, NEW k \in Cards,
         Pending(p) = Written({k}, Target(p), [j \in {k} |-> Slot(p)])
  PROVE  PlacedAs(p, k)'
<1> DEFINE r == tx[p].request
           near(i) == column[i] \in Sure(p) \/ newColumn'[i] \in Sure(p)
<1>1. Wrote(p)
  BY DEF SerialInv, Serial
<1>2. /\ tx'[p].request = r /\ tx'[p].spot = tx[p].spot
      /\ Source(p)' = Source(p) /\ Target(p)' = Target(p) /\ Slot(p)' = Slot(p)
      /\ column' = column /\ position' = position
      /\ newColumn' = Pending(p).column /\ newPosition' = Pending(p).position
      /\ Sure(p)' = Sure(p) /\ r.op \in {"create", "move"}
  BY WriteKeeps DEF Runs
<1>3. Shifted(p)' = Shifted(p)
  BY <1>2 DEF Closed, Shifted
<1>4. DOMAIN Shifted(p) = Cards /\ DOMAIN column = Cards
  BY <1>2, ShiftedTable DEF WriterInv, Tables
<1>5. RowsAre(p, column, Shifted(p))
  BY <1>1 DEF Wrote
<1>6. /\ newColumn' = [i \in Cards |-> IF i \in {k} THEN Target(p) ELSE newColumn[i]]
      /\ newPosition' = [i \in Cards |-> IF i \in {k} THEN Slot(p) ELSE newPosition[i]]
  BY <1>2 DEF Written, Statement
<1>7. \A i \in Cards : near(i) =>
        /\ newColumn'[i] = [column EXCEPT ![k] = Target(p)][i]
        /\ newPosition'[i] = [Shifted(p) EXCEPT ![k] = Slot(p)][i]
  BY <1>4, <1>5, <1>6 DEF RowsAre
<1> QED
  BY <1>2, <1>3, <1>7 DEF PlacedAs, RowsAre

LEMMA WriteWrote ==
  ASSUME WriterInv, ServingInv, Steady, SerialInv, NEW p \in Procs, Write(p)
  PROVE  Wrote(p)'
<1> DEFINE t == tx'[p]
           r == tx[p].request
           ranks == tx[p].ranks
<1>1. Wrote(p) /\ Asked(p) /\ Placed(p) /\ Counted(p) /\ Guards(p) /\ tx[p].pc \in Writes
  BY DEF SerialInv, Serial, Write
<1>2. /\ t.pc = AfterWrite(p) /\ t.request = r /\ t.seen = tx[p].seen /\ t.ranks = ranks
      /\ Source(p)' = Source(p) /\ Target(p)' = Target(p)
      /\ column' = column /\ position' = position
      /\ newColumn' = Pending(p).column /\ newPosition' = Pending(p).position
      /\ Held(p)' = Held(p) \cup Pending(p).cards
      /\ Sure(p)' = Sure(p) /\ Sure(p) = {Source(p), Target(p)}
      /\ r \in Requests /\ Runs(r.op, tx[p].pc) /\ r.op # "delete"
      /\ Source(p) \in Columns /\ Target(p) \in Columns
      /\ Stays(p, Pending(p))
  BY WriteKeeps
<1>3. CASE tx[p].pc \in {"close", "open", "shift"}
  BY <1>3, UpdateWrote
<1>4. CASE tx[p].pc = "point"
  <2>1. r.op = "move" /\ r.card \in Cards /\ AfterWrite(p) = "commit"
    BY <1>2, <1>4, RequestFields DEF Runs, AfterWrite
  <2>2. Pending(p) = Written({r.card}, Target(p), [j \in {r.card} |-> Slot(p)])
    BY <1>4 DEF Pending, PointMoveCard
  <2>3. PICK k : k = r.card
    OBVIOUS
  <2>4. PlacedAs(p, k)'
    BY <1>4, <2>1, <2>2, <2>3, PutWrote
  <2> QED
    BY <1>2, <2>1, <2>3, <2>4 DEF Wrote
<1>5. CASE tx[p].pc = "insert"
  <2>1. r.op = "create" /\ AfterWrite(p) = "commit"
    BY <1>2, <1>5 DEF Runs, AfterWrite
  <2>2. Target(p) = Source(p)
    BY <2>1 DEF Target
  <2>3. PICK k : /\ k = CHOOSE i \in IdsLeft : \A j \in IdsLeft : i <= j
                 /\ Pending(p) = Written({k}, Target(p), [j \in {k} |-> Slot(p)])
    BY <1>5, <2>2 DEF Pending, InsertCard, IdsLeft
  <2>4. k \in IdsLeft
    BY <1>5, <2>1, <2>3, IdLeft DEF Creating, SerialInv
  <2>5. k \in Cards /\ newColumn[k] = NotCreated
    BY <2>4 DEF IdsLeft
  <2>6. Pending(p).cards = {k}
    BY <2>3 DEF Written, Statement
  <2>7. column[k] = NotCreated
    <3>1. Grantable(p, Pending(p))
      BY DEF Write, Run
    <3>2. k \notin Held(p)
      BY <1>1, <1>2, <2>5, RowsAssumption DEF Guards
    <3> QED
      BY <2>5, <2>6, <3>1, <3>2, Scanned
  <2>8. PlacedAs(p, k)'
    BY <1>5, <2>3, <2>5, PutWrote
  <2> QED
    BY <1>2, <2>1, <2>6, <2>7, <2>8 DEF Wrote
<1>6. CASE tx[p].pc = "rewrite"
  <2>1. r.op = "sort" /\ AfterWrite(p) = "commit" /\ Target(p) = Source(p)
    BY <1>2, <1>6 DEF Runs, AfterWrite, Target
  <2>2. DOMAIN ranks = InColumn(column, Source(p))
    BY <1>1, <1>2, <2>1 DEF Counted, CountedIn, Ranked
  <2>3. \A k \in Cards : k \in DOMAIN ranks <=> column[k] = Source(p)
    BY <2>2 DEF InColumn
  <2>4. /\ newColumn' = [k \in Cards |-> IF k \in DOMAIN ranks THEN Source(p) ELSE newColumn[k]]
        /\ newPosition' = [k \in Cards |-> IF k \in DOMAIN ranks THEN ranks[k] ELSE newPosition[k]]
    BY <1>2, <1>6 DEF Pending, RewriteCardPositions, Written, Statement
  <2>5. RowsAre(p, column, position)
    BY <1>1, <1>6 DEF Wrote
  <2>6. RowsAre(p, column, [k \in Cards |-> IF column[k] = Source(p) THEN ranks[k] ELSE position[k]])'
    BY <1>2, <2>1, <2>3, <2>4, <2>5 DEF RowsAre
  <2> QED
    BY <1>2, <2>1, <2>6 DEF Wrote
<1>7. CASE tx[p].pc = "append"
  <2>1. r.op = "bulk" /\ AfterWrite(p) = "commit"
    BY <1>2, <1>7 DEF Runs, AfterWrite
  <2>2. DOMAIN ranks = InColumn(column, Source(p))
    BY <1>1, <1>2, <2>1 DEF Counted, CountedIn, Ranked
  <2>3. \A k \in Cards : k \in DOMAIN ranks <=> column[k] = Source(p)
    BY <2>2 DEF InColumn
  <2>4. RowsAre(p, column, position)
    BY <1>1, <1>7 DEF Wrote
  <2>5. PICK ids : ids = {k \in DOMAIN ranks : newColumn[k] = Source(p)}
    OBVIOUS
  <2>6. PICK end : end = tx[p].seen[Target(p)] + 1
    OBVIOUS
  <2>7. \A k \in Cards : k \in ids <=> column[k] = Source(p)
    BY <1>2, <2>3, <2>4, <2>5 DEF RowsAre
  <2>8. /\ newColumn' = [k \in Cards |-> IF k \in ids THEN Target(p) ELSE newColumn[k]]
        /\ newPosition' = [k \in Cards |-> IF k \in ids THEN end + ranks[k] ELSE newPosition[k]]
    BY <1>2, <1>7, <2>5, <2>6 DEF Pending, MoveCardsInto, Written, Statement
  <2>9. RowsAre(p, [k \in Cards |-> IF column[k] = Source(p) THEN Target(p) ELSE column[k]],
              [k \in Cards |-> IF column[k] = Source(p)
                               THEN tx[p].seen[Target(p)] + 1 + tx[p].ranks[k]
                               ELSE position[k]])'
    BY <1>2, <2>4, <2>6, <2>7, <2>8 DEF RowsAre
  <2> QED
    BY <1>2, <2>1, <2>9 DEF Wrote
<1>8. CASE tx[p].pc = "row"
  BY <1>2, <1>8 DEF Runs
<1> QED
  BY <1>1, <1>3, <1>4, <1>5, <1>6, <1>7, <1>8 DEF Writes

LEMMA WriteSerial ==
  ASSUME WriterInv, ServingInv, Steady, SerialInv, NEW p \in Procs, Write(p)
  PROVE  Serial(p)'
BY WriteGuards, WriteKnows, WriteWrote DEF Serial

-----------------------------------------------------------------------------

(* A commit publishes what its transaction has shown. *)
LEMMA CommitShows ==
  ASSUME WriterInv, ServingInv, SerialInv, NEW p \in Procs, Commit(p),
         NEW col, NEW pos, RowsAre(p, col, pos),
         DOMAIN col = Cards, DOMAIN pos = Cards, col = [k \in Cards |-> col[k]],
         pos = [k \in Cards |-> pos[k]],
         \A k \in Cards \ Held(p) :
           column[k] \notin Sure(p) => col[k] = column[k] /\ pos[k] = position[k]
  PROVE  column' = col /\ position' = pos
<1>1. Guards(p) /\ Held(p) \subseteq Cards /\ \A q \in Procs : Guards(q)
  BY DEF SerialInv, Serial, Held
<1>2. ASSUME NEW k \in Cards
      PROVE  column'[k] = col[k] /\ position'[k] = pos[k]
  <2>1. /\ k \in Held(p) => column'[k] = newColumn[k] /\ position'[k] = newPosition[k]
        /\ k \notin Held(p) => column'[k] = column[k] /\ position'[k] = position[k]
    BY DEF Commit
  <2>2. CASE k \in Held(p)
    BY <1>1, <2>1, <2>2 DEF Guards, RowsAre
  <2>3. CASE k \notin Held(p) /\ column[k] \in Sure(p)
    <3>1. \A q \in Procs : k \notin Held(q)
      BY <1>1, <2>3, Apart
    <3>2. newColumn[k] = column[k] /\ newPosition[k] = position[k]
      BY <3>1 DEF WriterInv, OneWriter
    <3> QED
      BY <2>1, <2>3, <3>2 DEF RowsAre
  <2>4. CASE k \notin Held(p) /\ column[k] \notin Sure(p)
    BY <2>1, <2>4
  <2> QED
    BY <2>2, <2>3, <2>4
<1>3. column' = [k \in Cards |-> column'[k]] /\ position' = [k \in Cards |-> position'[k]]
  BY DEF Commit
<1> QED
  BY <1>2, <1>3

(* A transaction at its commit is sure of both of its columns. *)
LEMMA CommitFacts ==
  ASSUME ServingInv, Steady, SerialInv, NEW p \in Procs, Commit(p)
  PROVE  LET r == tx[p].request
         IN /\ Sure(p) = {Source(p), Target(p)}
            /\ Source(p) \in Columns /\ Target(p) \in Columns
            /\ r \in Requests /\ r.op \in {"create", "move", "sort", "bulk"}
            /\ r.op # "move" => Source(p) = r.column
            /\ r.op \in {"create", "move"} => Slot(p) \in Nat
            /\ CountedIn(p, Source(p)) /\ CountedIn(p, Target(p))
            /\ tx[p].pc = "commit" /\ Wrote(p) /\ Placed(p) /\ Asked(p)
            /\ tx[p].spot \in Nat
<1> DEFINE r == tx[p].request
<1>1. Guards(p) /\ Asked(p) /\ Counted(p) /\ Placed(p) /\ Wrote(p) /\ tx[p].pc = "commit"
  BY DEF SerialInv, Serial, Commit
<1>2. Serving(tx[p]) /\ r \in Requests /\ r.op # "delete" /\ tx[p].spot \in Nat
  BY <1>1 DEF ServingInv, Serving, Steady
<1>3. /\ Sure(p) = {Source(p), Target(p)}
      /\ Source(p) \in Columns /\ Target(p) \in Columns
  BY <1>1, <1>2, WriterIsSure
<1>4. r.op \in {"create", "move", "sort", "bulk"}
  BY <1>2, RequestFields
<1>5. r.op # "move" => Source(p) = r.column
  BY <1>1 DEF Asked, Source
<1>6. r.op \in {"create", "move"} => Slot(p) \in Nat
  BY <1>1, <1>2, SlotType
<1> QED
  BY <1>1, <1>2, <1>3, <1>4, <1>5, <1>6 DEF Counted

(* The four requests, each as it would be alone. *)
LEMMA CommitCreate ==
  ASSUME WriterInv, ServingInv, Steady, SerialInv, NEW p \in Procs, Commit(p),
         tx[p].request.op = "create"
  PROVE  Alone(tx[p].request)
<1> DEFINE r == tx[p].request
<1>1. /\ Sure(p) = {Source(p)} /\ Source(p) = r.column /\ Target(p) = Source(p)
      /\ CountedIn(p, Source(p)) /\ tx[p].pc = "commit" /\ Wrote(p)
  BY CommitFacts DEF Target
<1>2. PICK k \in Held(p) : column[k] = NotCreated /\ PlacedAs(p, k)
  BY <1>1 DEF Wrote
<1>3. k \in Cards
  BY DEF Held
<1>4. DOMAIN Shifted(p) = Cards /\ DOMAIN column = Cards
  BY ShiftedTable DEF WriterInv, Tables
<1> DEFINE col == [column EXCEPT ![k] = Target(p)]
           pos == [Shifted(p) EXCEPT ![k] = Slot(p)]
<1>5. \A i \in Cards : column[i] # Source(p) => Shifted(p)[i] = position[i]
  BY ShiftedIs DEF OpenGap
<1>6. /\ DOMAIN col = Cards /\ DOMAIN pos = Cards
      /\ col = [i \in Cards |-> col[i]] /\ pos = [i \in Cards |-> pos[i]]
      /\ \A i \in Cards \ Held(p) :
           column[i] \notin Sure(p) => col[i] = column[i] /\ pos[i] = position[i]
  BY <1>1, <1>3, <1>4, <1>5
<1>7. RowsAre(p, col, pos)
  BY <1>2 DEF PlacedAs
<1> HIDE DEF col, pos
<1>8. column' = col /\ position' = pos
  BY <1>6, <1>7, CommitShows
<1>9. tx[p].seen[Target(p)] = MaxPosition(column, position, r.column)
  BY <1>1 DEF CountedIn, ReadsMax
<1>10. Slot(p) = IF r.position = Absent THEN MaxPosition(column, position, r.column) + 1
                 ELSE ClampPosition(r.position,
                                           MaxPosition(column, position, r.column) + 1)
  BY <1>9 DEF Slot
<1>11. CreateCard(k, r.column, r.position)
  BY <1>1, <1>2, <1>8, <1>10, ShiftedIs DEF CreateCard, col, pos
<1> QED
  BY <1>3, <1>11 DEF Alone

LEMMA CommitMove ==
  ASSUME WriterInv, ServingInv, Steady, SerialInv, NEW p \in Procs, Commit(p),
         tx[p].request.op = "move"
  PROVE  Alone(tx[p].request)
<1> DEFINE r == tx[p].request
           k == r.card
           spot == tx[p].spot
           slot == Slot(p)
           col == [column EXCEPT ![k] = Target(p)]
           pos == [Shifted(p) EXCEPT ![k] = slot]
<1>1. /\ Sure(p) = {Source(p), Target(p)} /\ r \in Requests
      /\ CountedIn(p, Target(p)) /\ tx[p].pc = "commit" /\ Wrote(p) /\ Placed(p)
      /\ Source(p) \in Columns /\ Target(p) \in Columns
      /\ slot \in Nat /\ spot \in Nat
  BY CommitFacts
<1>2. column[k] = Source(p) /\ spot = position[k] /\ k \in Held(p) /\ k \in Cards
  BY <1>1, RequestFields DEF Placed
<1>3. /\ DOMAIN Shifted(p) = Cards /\ DOMAIN column = Cards
      /\ column = [i \in Cards |-> column[i]] /\ position = [i \in Cards |-> position[i]]
  BY ShiftedTable DEF WriterInv, Tables, ServingInv, Rows, ColumnTable, PositionTable
<1>4. \A i \in Cards : column[i] \notin {Source(p), Target(p)} => Shifted(p)[i] = position[i]
  <2>1. CASE Target(p) # Source(p)
    BY <2>1, ShiftedIs DEF OpenGap, Closed, CloseGap
  <2>2. CASE Target(p) = Source(p) /\ slot < spot
    BY <2>2, ShiftedIs DEF ShiftUp
  <2>3. CASE Target(p) = Source(p) /\ ~ (slot < spot)
    BY <2>3, ShiftedIs DEF ShiftDown
  <2> QED
    BY <2>1, <2>2, <2>3
<1>5. /\ DOMAIN col = Cards /\ DOMAIN pos = Cards
      /\ col = [i \in Cards |-> col[i]] /\ pos = [i \in Cards |-> pos[i]]
      /\ \A i \in Cards \ Held(p) :
           column[i] \notin Sure(p) => col[i] = column[i] /\ pos[i] = position[i]
  BY <1>1, <1>2, <1>3, <1>4
<1>6. RowsAre(p, col, pos)
  BY <1>1 DEF Wrote, PlacedAs
<1> HIDE DEF col, pos
<1>7. column' = col /\ position' = pos
  BY <1>5, <1>6, CommitShows
<1>8. tx[p].seen[Target(p)] = Cardinality(InColumn(column, Target(p)))
  BY <1>1 DEF CountedIn
<1> DEFINE count == Cardinality(InColumn(column, Target(p)))
<1> HIDE DEF count
<1>9. CASE Target(p) = Source(p)
  <2>1. r.column \in {Absent, column[k]}
    BY <1>2, <1>9 DEF Target
  <2>2. slot = ClampPosition(IF r.position = Absent THEN position[k] ELSE r.position, count - 1)
    BY <1>2, <1>8, <1>9 DEF Slot, count
  <2>3. column' = column
    BY <1>2, <1>3, <1>7, <1>9 DEF col
  <2>4. Shifted(p) = IF slot < position[k]
                     THEN ShiftUp(column, position, column[k], slot, position[k])
                     ELSE IF slot > position[k]
                     THEN ShiftDown(column, position, column[k], position[k], slot)
                     ELSE position
    <3>1. CASE slot < spot
      BY <1>2, <1>9, <3>1, ShiftedIs
    <3>2. CASE slot > spot
      <4>1. ~ (slot < spot)
        BY <1>1, <3>2
      <4> QED
        BY <1>2, <1>9, <3>2, <4>1, ShiftedIs
    <3>3. CASE slot = spot
      <4>1. Shifted(p) = ShiftDown(column, position, Source(p), spot, slot)
        BY <1>1, <1>9, <3>3, ShiftedIs
      <4>2. \A i \in Cards : ~ (spot < position[i] /\ position[i] <= slot)
        BY <1>1, <3>3 DEF ServingInv, Rows, PositionTable
      <4>3. Shifted(p) = [i \in Cards |-> position[i]]
        BY <4>1, <4>2 DEF ShiftDown
      <4>4. ~ (slot < position[k]) /\ ~ (slot > position[k])
        BY <1>1, <1>2, <3>3
      <4> QED
        BY <1>3, <4>3, <4>4
    <3> QED
      BY <1>1, <3>1, <3>2, <3>3
  <2>5. ReorderCard(k, r.position)
    BY <1>1, <1>2, <1>7, <1>9, <2>2, <2>3, <2>4 DEF ReorderCard, pos, count
  <2> QED
    BY <2>1, <2>5 DEF Alone
<1>10. CASE Target(p) # Source(p)
  <2>1. r.column \notin {Absent, column[k]} /\ Target(p) = r.column
    BY <1>2, <1>10 DEF Target
  <2>2. slot = IF r.position = Absent THEN count ELSE ClampPosition(r.position, count)
    BY <1>8, <1>10 DEF Slot, count
  <2>3. Shifted(p) = OpenGap(column, CloseGap(column, position, column[k], position[k]),
                                    r.column, slot)
    BY <1>2, <1>10, <2>1, ShiftedIs DEF Closed
  <2>4. TransferCard(k, r.column, r.position)
    BY <1>1, <1>2, <1>7, <2>1, <2>2, <2>3 DEF TransferCard, col, pos, count
  <2> QED
    BY <2>1, <2>4 DEF Alone
<1> QED
  BY <1>9, <1>10

LEMMA CommitSort ==
  ASSUME WriterInv, ServingInv, Steady, SerialInv, NEW p \in Procs, Commit(p),
         tx[p].request.op = "sort"
  PROVE  Alone(tx[p].request)
<1> DEFINE r == tx[p].request
           ranks == tx[p].ranks
           pos == [k \in Cards |-> IF column[k] = Source(p) THEN ranks[k] ELSE position[k]]
<1>1. /\ Sure(p) = {Source(p)} /\ Source(p) = r.column
      /\ CountedIn(p, Source(p)) /\ tx[p].pc = "commit" /\ Wrote(p)
  BY CommitFacts DEF Target
<1>2. RowsAre(p, column, pos)
  BY <1>1 DEF Wrote
<1>3. DOMAIN column = Cards /\ column = [k \in Cards |-> column[k]]
  BY DEF ServingInv, Rows, ColumnTable
<1>4. /\ DOMAIN pos = Cards /\ pos = [k \in Cards |-> pos[k]]
      /\ \A k \in Cards \ Held(p) : column[k] \notin Sure(p) => pos[k] = position[k]
  BY <1>1
<1> HIDE DEF pos
<1>5. column' = column /\ position' = pos
  BY <1>2, <1>3, <1>4, CommitShows
<1>6. pos = RewritePositions(column, position, r.column, ByAge(r.desc))
  <2>1. PICK rows : rows = InColumn(column, Source(p))
    OBVIOUS
  <2>2. ranks = [k \in rows |-> IndexIn(rows, ByAge(r.desc), k)]
    BY <1>1, <2>1 DEF CountedIn, Ranked
  <2>3. \A k \in Cards : k \in rows <=> column[k] = Source(p)
    BY <2>1 DEF InColumn
  <2>4. pos = [k \in Cards |-> IF column[k] = Source(p)
                               THEN IndexIn(rows, ByAge(r.desc), k) ELSE position[k]]
    BY <2>2, <2>3 DEF pos
  <2> QED
    BY <1>1, <2>1, <2>4 DEF RewritePositions
<1>7. SortColumn(r.column, r.desc)
  BY <1>5, <1>6 DEF SortColumn
<1> QED
  BY <1>7 DEF Alone

LEMMA CommitBulk ==
  ASSUME WriterInv, ServingInv, Steady, SerialInv, NEW p \in Procs, Commit(p),
         tx[p].request.op = "bulk"
  PROVE  Alone(tx[p].request)
<1> DEFINE r == tx[p].request
           ranks == tx[p].ranks
           col == [k \in Cards |-> IF column[k] = Source(p) THEN Target(p) ELSE column[k]]
           pos == [k \in Cards |-> IF column[k] = Source(p)
                                   THEN tx[p].seen[Target(p)] + 1 + ranks[k] ELSE position[k]]
<1>1. /\ Sure(p) = {Source(p), Target(p)} /\ Source(p) = r.column /\ Target(p) = r.target
      /\ CountedIn(p, Source(p)) /\ CountedIn(p, Target(p)) /\ tx[p].pc = "commit" /\ Wrote(p)
      /\ r.column # r.target /\ BoardOf[r.column] = BoardOf[r.target]
  BY CommitFacts DEF Target, Asked
<1>2. RowsAre(p, col, pos)
  BY <1>1 DEF Wrote
<1>3. /\ DOMAIN col = Cards /\ col = [k \in Cards |-> col[k]]
      /\ DOMAIN pos = Cards /\ pos = [k \in Cards |-> pos[k]]
      /\ \A k \in Cards \ Held(p) :
           column[k] \notin Sure(p) => col[k] = column[k] /\ pos[k] = position[k]
  BY <1>1
<1> HIDE DEF col, pos
<1>4. column' = col /\ position' = pos
  BY <1>2, <1>3, CommitShows
<1>5. pos = AppendAfter(column, position, r.column,
                               MaxPosition(column, position, r.target))
  <2>1. PICK rows : rows = InColumn(column, Source(p))
    OBVIOUS
  <2>2. ranks = [k \in rows |-> IndexIn(rows, ByPosition(position), k)]
    BY <1>1, <2>1 DEF CountedIn, Ranked
  <2>3. \A k \in Cards : k \in rows <=> column[k] = Source(p)
    BY <2>1 DEF InColumn
  <2>4. PICK max : max = MaxPosition(column, position, r.target)
    OBVIOUS
  <2>5. tx[p].seen[Target(p)] = max
    BY <1>1, <2>4 DEF CountedIn, ReadsMax
  <2>6. pos = [k \in Cards |-> IF column[k] = Source(p)
                               THEN max + 1 + IndexIn(rows, ByPosition(position), k)
                               ELSE position[k]]
    BY <2>2, <2>3, <2>5 DEF pos
  <2> QED
    BY <1>1, <2>1, <2>4, <2>6 DEF AppendAfter
<1>6. MoveCards(r.column, r.target)
  BY <1>1, <1>4, <1>5 DEF MoveCards, col
<1> QED
  BY <1>6 DEF Alone

LEMMA CommitAlone ==
  ASSUME WriterInv, ServingInv, Steady, SerialInv, NEW p \in Procs, Commit(p)
  PROVE  Alone(tx[p].request)
BY CommitFacts, CommitCreate, CommitMove, CommitSort, CommitBulk

-----------------------------------------------------------------------------

(* No more creates are under way than ids are left. *)
LEMMA CountedCards ==
  /\ IsFiniteSet(Creating) /\ Cardinality(Creating) \in Nat
  /\ IsFiniteSet(IdsLeft) /\ Cardinality(IdsLeft) \in Nat
<1>1. IsFiniteSet(Creating)
  BY BoundsAssumption, FS_Subset DEF Creating
<1>2. IsFiniteSet(IdsLeft)
  BY RowsAssumption, FS_Subset DEF IdsLeft
<1> QED
  BY <1>1, <1>2, FS_CardinalityType

(* No more creates, and no fewer ids. *)
LEMMA EnoughStay ==
  ASSUME EnoughIds, Creating' \subseteq Creating, IdsLeft \subseteq IdsLeft', IsFiniteSet(IdsLeft')
  PROVE  EnoughIds'
<1>1. PICK c, c2, i, i2 : c = Creating /\ c2 = Creating' /\ i = IdsLeft /\ i2 = IdsLeft'
  OBVIOUS
<1>2. /\ IsFiniteSet(c) /\ Cardinality(c) \in Nat /\ IsFiniteSet(i) /\ Cardinality(i) \in Nat
      /\ c2 \in SUBSET c /\ i \in SUBSET i2 /\ IsFiniteSet(i2)
  BY <1>1, CountedCards
<1>3. /\ Cardinality(c2) \in Nat /\ Cardinality(c2) <= Cardinality(c)
      /\ Cardinality(i2) \in Nat /\ Cardinality(i) <= Cardinality(i2)
  BY <1>2, FS_Subset, FS_CardinalityType
<1>4. Cardinality(c) <= Cardinality(i)
  BY <1>1 DEF EnoughIds
<1>5. Cardinality(c2) <= Cardinality(i2)
  BY <1>2, <1>3, <1>4
<1> QED
  BY <1>1, <1>5 DEF EnoughIds

LEMMA CreatingFrame ==
  ASSUME ServingInv, NEW p \in Procs, NEW t, tx' = [tx EXCEPT ![p] = t],
         t.pc \in {"idle", "commit"} \/ t.request.op # "create" \/ p \in Creating
  PROVE  Creating' \subseteq Creating
BY DEF Creating, ServingInv

LEMMA IdsFinite == IsFiniteSet(IdsLeft')
<1>1. IdsLeft' \in SUBSET Cards
  BY DEF IdsLeft
<1> QED
  BY <1>1, RowsAssumption, FS_Subset

LEMMA BeginEnough ==
  ASSUME ServingInv, EnoughIds, NEW p \in Procs, NEW r \in Requests, Begin(p, r)
  PROVE  EnoughIds'
<1>1. IdsLeft' = IdsLeft
  BY DEF Begin, newest, IdsLeft
<1>2. CASE r.op # "create"
  <2>1. tx'[p].request.op # "create" /\ \A q \in Procs \ {p} : tx'[q] = tx[q]
    BY <1>2 DEF Begin, ServingInv
  <2>2. Creating' \subseteq Creating
    BY <2>1 DEF Creating
  <2> QED
    BY <1>1, <2>2, IdsFinite, EnoughStay
<1>3. CASE r.op = "create"
  <2>1. PICK c, c2 : c = Creating /\ c2 = Creating'
    OBVIOUS
  <2>2. \A q \in Procs \ {p} : tx'[q] = tx[q]
    BY DEF Begin, ServingInv
  <2>3. c2 \in SUBSET (c \cup {p})
    BY <2>1, <2>2 DEF Creating
  <2>4. /\ IsFiniteSet(c) /\ Cardinality(c) \in Nat /\ Cardinality(IdsLeft) \in Nat
        /\ Cardinality(c) < Cardinality(IdsLeft)
    BY <1>3, <2>1, CountedCards DEF Begin
  <2>5. IsFiniteSet(c \cup {p}) /\ Cardinality(c \cup {p}) <= Cardinality(c) + 1
    <3>1. CASE p \in c
      <4>1. PICK e : e = c \cup {p}
        OBVIOUS
      <4>2. e = c
        BY <3>1, <4>1
      <4>3. IsFiniteSet(e) /\ Cardinality(e) <= Cardinality(c) + 1
        BY <2>4, <4>2
      <4> QED
        BY <4>1, <4>3
    <3>2. CASE p \notin c
      BY <2>4, <3>2, FS_AddElement
    <3> QED
      BY <3>1, <3>2
  <2>6. Cardinality(c2) \in Nat /\ Cardinality(c2) <= Cardinality(c \cup {p})
        /\ Cardinality(c \cup {p}) \in Nat
    BY <2>3, <2>5, FS_Subset, FS_CardinalityType
  <2>7. Cardinality(c2) <= Cardinality(IdsLeft)
    BY <2>4, <2>5, <2>6
  <2> QED
    BY <1>1, <2>1, <2>7 DEF EnoughIds
<1> QED
  BY <1>2, <1>3

LEMMA RollbackEnough ==
  ASSUME ServingInv, SerialInv, NEW p \in Procs, tx[p].pc # "idle", Rollback(p),
         \/ tx' = [tx EXCEPT ![p] = Idle]
         \/ tx' = [tx EXCEPT ![p] = RetryOrFail(p)]
  PROVE  EnoughIds'
<1>1. Guards(p) /\ Sure(p) \subseteq Columns /\ NotCreated \notin Columns
  BY ColsType, RowsAssumption DEF SerialInv, Serial, Sure
<1>2. IdsLeft \subseteq IdsLeft'
  BY <1>1 DEF Rollback, Guards, IdsLeft
<1>3. RetryOrFail(p) = Idle \/ RetryOrFail(p).request.op # "create"
  <2>1. CASE tx[p].request.op = "move"
    BY <2>1 DEF RetryOrFail, ServingInv, Serving, Fields
  <2>2. CASE tx[p].request.op # "move"
    BY <2>2 DEF RetryOrFail
  <2> QED
    BY <2>1, <2>2
<1>4. Creating' \subseteq Creating
  BY <1>3, CreatingFrame DEF Idle
<1> QED
  BY <1>2, <1>4, IdsFinite, EnoughStay DEF SerialInv

LEMMA ReadEnough ==
  ASSUME ServingInv, Steady, SerialInv, NEW p \in Procs,
         ReadOwned(p) \/ LockCards(p) \/ (ReadSpot(p) /\ Run(p, Pending(p))) \/ Commit(p)
  PROVE  EnoughIds'
<1>1. IdsLeft' = IdsLeft
  <2>1. newColumn' = newColumn
    BY DEF ReadOwned, LockCards, ReadSpot, Commit, newest, Run, Pending, LockColumn, LockSpot,
           Select, Statement
  <2> QED
    BY <2>1 DEF IdsLeft
<1>2. \A q \in Procs \ {p} : tx'[q] = tx[q]
  BY DEF ReadOwned, LockCards, ReadSpot, Commit, ServingInv
<1>3. p \in Creating' => p \in Creating
  <2>1. CASE ReadOwned(p)
    <3>1. DOMAIN tx[p] = Fields /\ tx[p].request.op = "move" /\ tx = [q \in Procs |-> tx[q]]
      BY <2>1 DEF ServingInv, ReadOwned, Serving, Runs, Steady
    <3>2. tx'[p].pc = "idle" \/ tx'[p].request = tx[p].request
      BY <2>1, <3>1 DEF ReadOwned, Idle, Fields
    <3> QED
      BY <3>1, <3>2 DEF Creating
  <2>2. CASE LockCards(p)
    <3>1. tx'[p].request = tx[p].request
      BY <2>2, LockCardsTx DEF SerialInv, Serial
    <3> QED
      BY <2>2, <3>1 DEF Creating, LockCards
  <2>3. CASE ReadSpot(p) /\ Run(p, Pending(p))
    <3>1. DOMAIN tx[p] = Fields /\ tx[p].request.op = "move" /\ tx = [q \in Procs |-> tx[q]]
      BY <2>3 DEF ServingInv, ReadSpot, Serving, Runs
    <3>2. tx'[p].pc = "idle" \/ tx'[p].request.op = "move"
      <4>1. CASE newColumn[tx[p].request.card] = Source(p)
        <5>1. tx' = [tx EXCEPT ![p].spot = newPosition[tx[p].request.card],
                               ![p].pc = IF Target(p) = Source(p) THEN "shift" ELSE "close"]
          BY <2>3, <4>1 DEF ReadSpot
        <5>2. tx'[p].request = tx[p].request
          BY <3>1, <5>1 DEF Fields
        <5> QED
          BY <3>1, <5>2
      <4>2. CASE newColumn[tx[p].request.card] # Source(p)
        <5>1. tx'[p] = Idle \/ tx'[p] = RetryOrFail(p)
          BY <2>3, <3>1, <4>2 DEF ReadSpot
        <5>2. RetryOrFail(p) = Idle \/ RetryOrFail(p).request = tx[p].request
          BY <3>1 DEF RetryOrFail, Fields
        <5> QED
          BY <3>1, <5>1, <5>2 DEF Idle
      <4> QED
        BY <4>1, <4>2
    <3> QED
      BY <3>2 DEF Creating
  <2>4. CASE Commit(p)
    BY <2>4 DEF Commit, Creating, ServingInv, Idle
  <2> QED
    BY <2>1, <2>2, <2>3, <2>4
<1>4. Creating' \subseteq Creating
  BY <1>2, <1>3 DEF Creating
<1> QED
  BY <1>1, <1>4, IdsFinite, EnoughStay DEF SerialInv

LEMMA WriteEnough ==
  ASSUME WriterInv, ServingInv, Steady, SerialInv, NEW p \in Procs, Write(p)
  PROVE  EnoughIds'
<1> DEFINE s == Pending(p)
<1>1. /\ newColumn' = s.column /\ Stays(p, s) /\ LocksItsWrites(s) /\ Sure(p) = Cols(p)
      /\ tx'[p].pc = AfterWrite(p) /\ tx'[p].request = tx[p].request
  BY WriteKeeps
<1>2. tx[p].pc \in Writes /\ \A q \in Procs \ {p} : tx'[q] = tx[q]
  BY DEF Write, ServingInv
<1>3. Sure(p) \subseteq Columns /\ NotCreated \notin Columns
  BY <1>1, ColsType, RowsAssumption
<1>4. \A k \in Cards : newColumn'[k] = NotCreated <=> newColumn[k] = NotCreated /\ k \notin s.cards
  BY <1>1, <1>3 DEF Stays, LocksItsWrites
<1>5. CASE tx[p].pc = "insert"
  <2> DEFINE id == CHOOSE k \in IdsLeft : \A j \in IdsLeft : k <= j
  <2>1. tx[p].request.op = "create" /\ AfterWrite(p) = "commit"
    BY <1>5 DEF ServingInv, Serving, Runs, AfterWrite
  <2>2. p \in Creating
    BY <1>5, <2>1 DEF Creating
  <2>3. id \in IdsLeft
    BY <2>2, IdLeft DEF SerialInv
  <2>4. s.cards = {id}
    BY <1>5 DEF Pending, InsertCard, Written, Statement, IdsLeft
  <2> HIDE DEF id, s
  <2>5. Creating' = Creating \ {p}
    BY <1>1, <1>2, <2>1, <2>2 DEF Creating
  <2>6. IdsLeft' = IdsLeft \ {id}
    BY <1>4, <2>4 DEF IdsLeft
  <2>7. PICK c, i : c = Creating /\ i = IdsLeft
    OBVIOUS
  <2>8. /\ IsFiniteSet(c) /\ Cardinality(c) \in Nat /\ IsFiniteSet(i) /\ Cardinality(i) \in Nat
        /\ Cardinality(c) <= Cardinality(i)
    BY <2>7, CountedCards DEF SerialInv, EnoughIds
  <2>9. Cardinality(c \ {p}) = Cardinality(c) - 1 /\ Cardinality(i \ {id}) = Cardinality(i) - 1
    BY <2>2, <2>3, <2>7, <2>8, FS_RemoveElement
  <2>10. Cardinality(c \ {p}) <= Cardinality(i \ {id})
    BY <2>8, <2>9
  <2> QED
    BY <2>5, <2>6, <2>7, <2>10 DEF EnoughIds
<1>6. CASE tx[p].pc # "insert"
  <2>1. \A k \in s.cards : newColumn[k] # NotCreated
    BY <1>1, <1>6 DEF Stays
  <2>2. IdsLeft' = IdsLeft
    BY <1>4, <2>1 DEF IdsLeft
  <2>3. p \in Creating' => p \in Creating
    BY <1>1, <1>2 DEF Creating, Writes
  <2>4. Creating' \subseteq Creating
    BY <1>2, <2>3 DEF Creating
  <2> QED
    BY <2>2, <2>4, IdsFinite, EnoughStay DEF SerialInv
<1> QED
  BY <1>5, <1>6

(* A card that keeps its column is never written out of it. *)
LEMMA PinsKept ==
  ASSUME WriterInv, ServingInv, Steady, SerialInv, NEW p \in Procs, Commit(p)
  PROVE  Pins'
<1> DEFINE r == tx[p].request
<1>1. Alone(r) /\ r \in Requests /\ r.op \in {"create", "move", "sort", "bulk"}
      /\ DOMAIN column = Cards
  BY CommitAlone, CommitFacts DEF WriterInv, Tables
<1>2. SUFFICES ASSUME NEW k \in Cards, NEW c \in Columns, Keeps(k, c), column[k] = c
               PROVE  column'[k] = c
  BY DEF SerialInv, Pins, Keeps
<1>3. NotCreated \notin Columns
  BY RowsAssumption
<1>4. CASE r.op = "create"
  BY <1>1, <1>2, <1>3, <1>4 DEF Alone, CreateCard
<1>5. CASE r.op = "move"
  <2>1. r.card = k => r.column \in {Absent, c}
    BY <1>1, <1>2, <1>5 DEF Keeps
  <2> QED
    BY <1>1, <1>2, <1>5, <2>1 DEF Alone, ReorderCard, TransferCard
<1>6. CASE r.op = "sort"
  BY <1>1, <1>2, <1>6 DEF Alone, SortColumn
<1>7. CASE r.op = "bulk"
  <2>1. r.column # c
    BY <1>1, <1>2, <1>7 DEF Keeps
  <2> QED
    BY <1>1, <1>2, <1>7, <2>1 DEF Alone, MoveCards
<1> QED
  BY <1>1, <1>4, <1>5, <1>6, <1>7

LEMMA SerialInit == TxInit => SerialInv
<1> SUFFICES ASSUME TxInit PROVE SerialInv
  OBVIOUS
<1>1. Pins
  BY DEF TxInit, Pins, Keeps
<1>2. EnoughIds
  <2>1. Creating = {}
    BY DEF TxInit, Creating, Idle
  <2> QED
    BY <2>1, CountedCards, FS_EmptySet DEF EnoughIds
<1>3. ASSUME NEW p \in Procs PROVE Serial(p)
  <2>1. tx[p].pc = "idle" /\ Held(p) = {}
    BY DEF TxInit, Idle, Held
  <2>2. Cols(p) = {} /\ Sure(p) = {}
    BY <2>1 DEF Cols, Sure
  <2> QED
    BY <2>1, <2>2 DEF Serial, Guards, Asked, Counted, Placed, Wrote
<1> QED
  BY <1>1, <1>2, <1>3 DEF SerialInv

LEMMA SerialStep ==
  ASSUME WriterInv, WriterInv', ServingInv, Steady, SerialInv, NEW p \in Procs,
         Step(p) \/ Abandon(p) \/ \E r \in Requests : Begin(p, r)
  PROVE  SerialInv'
<1>1. \A q \in Procs : Serial(q) /\ Guards(q)
  BY DEF SerialInv, Serial
<1>2. ASSUME NEW q \in Procs, q # p PROVE Serial(q)'
  <2>1. Undisturbed(q)
    BY <1>2, OthersUndisturbed
  <2> QED
    BY <1>1, <2>1, SerialFrame
<1>3. ASSUME Serial(p)', EnoughIds', UNCHANGED table PROVE SerialInv'
  <2>1. Pins'
    BY <1>3 DEF table, Pins, Keeps, SerialInv
  <2> QED
    BY <1>2, <1>3, <2>1 DEF SerialInv
<1>4. CASE \E r \in Requests : Begin(p, r)
  <2>1. EnoughIds' /\ Serial(p)' /\ UNCHANGED table
    BY <1>1, <1>4, BeginEnough, BeginSerial DEF Begin, SerialInv
  <2> QED
    BY <1>3, <2>1
<1>5. CASE ReadOwned(p)
  <2>1. EnoughIds'
    <3>1. ReadOwned(p) \/ LockCards(p) \/ (ReadSpot(p) /\ Run(p, Pending(p))) \/ Commit(p)
      BY <1>5
    <3> QED
      BY <3>1, ReadEnough
  <2>2. Serial(p)'
    BY <1>1, <1>5, ReadOwnedSerial
  <2>3. UNCHANGED table
    BY <1>5 DEF ReadOwned
  <2> QED
    BY <1>3, <2>1, <2>2, <2>3
<1>6. CASE LockCards(p)
  BY <1>3, <1>6, ReadEnough, LockCardsSerial DEF LockCards, Run
<1>7. CASE ReadSpot(p)
  <2>1. CASE Run(p, Pending(p))
    BY <1>3, <1>7, <2>1, ReadEnough, ReadSpotSerial DEF Run
  <2>2. CASE ~ Run(p, Pending(p))
    <3>1. /\ Rollback(p) /\ tx[p].pc # "idle"
          /\ \/ tx' = [tx EXCEPT ![p] = Idle]
             \/ tx' = [tx EXCEPT ![p] = RetryOrFail(p)]
      BY <1>7, <2>2 DEF ReadSpot
    <3> QED
      BY <1>3, <1>7, <3>1, RollbackEnough, ReadSpotSerial DEF Rollback
  <2> QED
    BY <2>1, <2>2
<1>8. CASE Write(p)
  BY <1>3, <1>8, WriteEnough, WriteSerial DEF Write, Run
<1>9. CASE Commit(p)
  BY <1>2, <1>9, PinsKept, ReadEnough, CommitSerial DEF SerialInv
<1>10. CASE LockError(p) \/ Abandon(p)
  <2>1. /\ Rollback(p) /\ tx[p].pc # "idle"
        /\ \/ tx' = [tx EXCEPT ![p] = Idle]
           \/ tx' = [tx EXCEPT ![p] = RetryOrFail(p)]
    BY <1>10 DEF LockError, Abandon, Blocked, Statements, Writes
  <2> QED
    BY <1>3, <2>1, RollbackEnough, RollbackSerial DEF Rollback
<1> QED
  BY <1>4, <1>5, <1>6, <1>7, <1>8, <1>9, <1>10 DEF Step

LEMMA SerialNext == WriterInv /\ WriterInv' /\ ServingInv /\ Steady /\ SerialInv /\ [TxNext]_txVars => SerialInv'
<1> SUFFICES ASSUME WriterInv, WriterInv', ServingInv, Steady, SerialInv, [TxNext]_txVars PROVE SerialInv'
  OBVIOUS
<1>1. CASE UNCHANGED txVars
  <2>1. /\ column' = column /\ position' = position /\ newColumn' = newColumn
        /\ newPosition' = newPosition /\ locks' = locks /\ gaps' = gaps /\ tx' = tx
    BY <1>1 DEF txVars, table, newest
  <2>2. \A p \in Procs : Undisturbed(p)
    BY <2>1 DEF Undisturbed, SameRow, Held
  <2>3. \A p \in Procs : Serial(p)'
    BY <2>2, SerialFrame DEF SerialInv
  <2>4. Pins' /\ EnoughIds'
    BY <2>1 DEF SerialInv, Pins, EnoughIds, Keeps, Creating, IdsLeft
  <2> QED
    BY <2>3, <2>4 DEF SerialInv
<1>2. CASE TxNext
  BY <1>2, SerialStep DEF TxNext
<1> QED
  BY <1>1, <1>2

(* A commit changes the rows as its request would alone, run on the rows    *)
(* that were committed just before: no renumbering of cards/routes.rs or    *)
(* columns/routes.rs is lost or doubled, however many creates, moves, sorts *)
(* and move-cards interleave, restart, time out and are dropped, on any     *)
(* rows and any number of columns.  Only for requests that are Steady:      *)
(* routes.rs:340 locks nothing in an empty column at READ COMMITTED, and a  *)
(* delete nothing but its card.                                             *)
THEOREM CommitsAreSerial == TxSpec /\ Steady => CommitIsRequest
<1>1. Steady /\ [TxNext]_txVars => Steady'
  BY DEF Steady, Outlet, Keeps
<1>2. WriterInv /\ ServingInv /\ Steady /\ SerialInv /\ [TxNext]_txVars
        => [\A p \in Procs : Commit(p) => Alone(tx[p].request)]_txVars
  BY CommitAlone
<1> QED
  BY WriterInit, WriterNext, InitInv, NextInv, SerialInit, SerialNext, <1>1, <1>2, PTL
     DEF TxSpec, CommitIsRequest

-----------------------------------------------------------------------------
(* The committed rows change one request at a time. *)
LEMMA StepIsRequest ==
  ASSUME WriterInv, ServingInv, Steady, SerialInv, [TxNext]_txVars
  PROVE  [Next]_vars
<1>1. CASE UNCHANGED table
  BY <1>1 DEF table, vars
<1>2. ASSUME NEW p \in Procs, Commit(p) PROVE Next
  <2> DEFINE r == tx[p].request
  <2>1. Alone(r) /\ r \in Requests /\ r.op \in {"create", "move", "sort", "bulk"}
    BY <1>2, CommitAlone, CommitFacts
  <2>2. CASE r.op = "create"
    <3>1. r.column \in Columns /\ r.position \in Requested \cup {Absent}
      BY <2>1, <2>2, RequestFields, RequestBody
    <3>2. PICK k \in Cards : CreateCard(k, r.column, r.position)
      BY <2>1, <2>2 DEF Alone
    <3> QED
      BY <3>1, <3>2 DEF Next
  <2>3. CASE r.op = "move"
    <3>1. /\ r.card \in Cards /\ r.column \in Columns \cup {Absent}
          /\ r.position \in Requested \cup {Absent}
      BY <2>1, <2>3, RequestFields, RequestBody
    <3>2. CASE r.column \in {Absent, column[r.card]}
      <4>1. ReorderCard(r.card, r.position)
        BY <2>1, <2>3, <3>2 DEF Alone
      <4> QED
        BY <3>1, <4>1 DEF Next
    <3>3. CASE r.column \notin {Absent, column[r.card]}
      <4>1. TransferCard(r.card, r.column, r.position)
        BY <2>1, <2>3, <3>3 DEF Alone
      <4> QED
        BY <3>1, <3>3, <4>1 DEF Next
    <3> QED
      BY <3>2, <3>3
  <2>4. CASE r.op = "sort"
    <3>1. r.column \in Columns /\ r.desc \in BOOLEAN
      BY <2>1, <2>4, RequestFields, RequestBody
    <3>2. SortColumn(r.column, r.desc)
      BY <2>1, <2>4 DEF Alone
    <3> QED
      BY <3>1, <3>2 DEF Next
  <2>5. CASE r.op = "bulk"
    <3>1. r.column \in Columns /\ r.target \in Columns
      BY <2>1, <2>5, RequestFields
    <3>2. MoveCards(r.column, r.target)
      BY <2>1, <2>5 DEF Alone
    <3> QED
      BY <3>1, <3>2 DEF Next
  <2> QED
    BY <2>1, <2>2, <2>3, <2>4, <2>5
<1>3. ASSUME NEW p \in Procs,
             (Step(p) /\ ~ Commit(p)) \/ Abandon(p) \/ \E r \in Requests : Begin(p, r)
      PROVE  UNCHANGED table
  BY <1>3 DEF Step, Begin, ReadOwned, LockCards, ReadSpot, Write, LockError, Abandon, Run, Rollback
<1>4. CASE UNCHANGED txVars
  BY <1>4 DEF txVars, table, vars
<1> QED
  BY <1>1, <1>2, <1>3, <1>4 DEF TxNext

LEMMA DenseInit == TxInit /\ DenseStart => IInv
<1> SUFFICES ASSUME TxInit, DenseStart PROVE IInv
  OBVIOUS
<1>1. column = InitColumn /\ position = InitPosition
  BY DEF TxInit
<1>2. TypeOK
  BY <1>1, RowsAssumption DEF TypeOK
<1>3. ASSUME NEW c \in Columns PROVE \E n \in Nat : DenseTo(column, position, c, n)
  <2> DEFINE rows == InColumn(column, c)
             n == Cardinality(rows)
  <2>1. n \in Nat
    BY RowsAssumption, FS_Subset, FS_CardinalityType DEF InColumn
  <2>2. /\ \A j, k \in rows : position[j] = position[k] => j = k
        /\ {position[k] : k \in rows} = 0 .. (n - 1)
    BY <1>1 DEF DenseStart, DenseColumn
  <2>3. rows = {k \in Cards : column[k] = c}
    BY DEF InColumn
  <2> HIDE DEF n, rows
  <2>4. DenseTo(column, position, c, n)
    BY <2>2, <2>3 DEF DenseTo
  <2> QED
    BY <2>1, <2>4
<1> QED
  BY <1>2, <1>3 DEF IInv

(* CardTx implements CardPositions: seen at the commits, any interleaving  *)
(* of Steady requests is their handlers run one after the other.           *)
THEOREM OneByOne == TxSpec /\ Steady => [][Next]_vars
<1>1. Steady /\ [TxNext]_txVars => Steady'
  BY DEF Steady, Outlet, Keeps
<1>2. WriterInv /\ ServingInv /\ Steady /\ SerialInv /\ [TxNext]_txVars => [Next]_vars
  BY StepIsRequest
<1> QED
  BY WriterInit, WriterNext, InitInv, NextInv, SerialInit, SerialNext, <1>1, <1>2, PTL DEF TxSpec

(* What assert_dense of tests/api/cards_move.rs asks of a board after      *)
(* concurrent moves: whatever Steady requests run together, each column    *)
(* holds 0 .. N-1 exactly once after every commit, if it did at the start. *)
THEOREM StaysDense == TxSpec /\ Steady /\ DenseStart => []CommittedDense
<1>1. IInv => CommittedDense
  BY DenseToIsDense DEF IInv, Dense, CommittedDense
<1> QED
  BY OneByOne, DenseInit, StepIInv, <1>1, PTL DEF TxSpec

(* And each commit does to the lists of cards what CardOrder says of its   *)
(* request: one card in, out or elsewhere, one list sorted, or two joined. *)
THEOREM CommittedLists == TxSpec /\ Steady /\ DenseStart => [][Order!Next]_(Order!vars)
BY OneByOne, DenseInit, StepIInv, StepOrder, PTL DEF TxSpec

-----------------------------------------------------------------------------
(* No ring of moves. *)

(* Locks are taken and given up by their own transaction. *)
LEMMA LocksFrame ==
  ASSUME NEW p, tx'[p] = tx[p],
         \A l : l[1] = p => (l \in locks' <=> l \in locks),
         \A g : g[1] = p => (g \in gaps' <=> g \in gaps),
         LocksKept(p)
  PROVE  LocksKept(p)'
<1>1. {l \in locks : l[1] = p}' = {l \in locks : l[1] = p}
  OBVIOUS
<1>2. Source(p)' = Source(p)
  BY DEF Source
<1>3. (\A g \in gaps : g[1] # p) <=> (\A g \in gaps' : g[1] # p)
  OBVIOUS
<1> QED
  BY <1>1, <1>2, <1>3 DEF LocksKept, SpotRows

(* The rows of any table that a statement locks. *)
RowsOf(s) == {CardRow(k) : k \in s.cards} \cup {o[1] : o \in s.others}

LEMMA RunLocks ==
  ASSUME NEW p, NEW s, Run(p, s)
  PROVE  /\ \A l \in locks' : l \in locks \/ l[2] \in RowsOf(s)
         /\ \A l : l[1] # p => (l \in locks' <=> l \in locks)
         /\ \A g : g[1] # p => (g \in gaps' <=> g \in gaps)
         /\ tx[p].level = "read committed" => gaps' = gaps
<1>1. ASSUME NEW l \in locks', l \notin locks
      PROVE  l[1] = p /\ l[2] \in RowsOf(s)
  <2>1. \/ \E k \in s.cards : l = << p, CardRow(k), "X" >>
        \/ \E o \in s.others : l = << p, o[1], o[2] >>
    BY <1>1 DEF Run
  <2> QED
    BY <2>1 DEF RowsOf
<1>2. locks \subseteq locks' /\ gaps \subseteq gaps'
  BY DEF Run
<1>3. ASSUME NEW g \in gaps', g \notin gaps
      PROVE  g[1] = p /\ tx[p].level = "repeatable read"
  <2>1. CASE tx[p].level = "repeatable read"
    <3>1. gaps' = gaps \cup {<< p, h[1], h[2] >> : h \in s.gaps}
      BY <2>1 DEF Run
    <3>2. PICK h \in s.gaps : g = << p, h[1], h[2] >>
      BY <1>3, <3>1
    <3> QED
      BY <2>1, <3>2
  <2>2. CASE tx[p].level # "repeatable read"
    <3>1. gaps' = gaps \cup {}
      BY <2>2 DEF Run
    <3> QED
      BY <1>3, <3>1
  <2> QED
    BY <2>1, <2>2
<1>4. tx[p].level = "read committed" => gaps' = gaps
  BY <1>2, <1>3
<1>5. \A l : l[1] # p => (l \in locks' <=> l \in locks)
  BY <1>1, <1>2
<1>6. \A g : g[1] # p => (g \in gaps' <=> g \in gaps)
  BY <1>2, <1>3
<1> QED
  BY <1>1, <1>4, <1>5, <1>6

(* The steps of a move and its locks. *)
LEMMA LocksRead ==
  ASSUME ServingInv, Steady, SerialInv, NEW p \in Procs, LocksKept(p), LockCards(p)
  PROVE  LocksKept(p)'
<1> DEFINE i == IF tx[p].pc = "first" THEN 1 ELSE 2
           c == LockOrder(p)[i]
<1>1. Serving(tx[p]) /\ DOMAIN tx[p] = Fields /\ tx = [q \in Procs |-> tx[q]] /\ Asked(p)
  BY DEF ServingInv, Serving, LockCards, SerialInv, Serial
<1>2. /\ tx'[p].pc \in {"second", "spot", "insert", "open", "rewrite", "append"}
      /\ tx'[p].pc \in {"insert", "open"} => tx[p].request.op = "create"
      /\ tx'[p].request = tx[p].request /\ tx'[p].level = tx[p].level
  BY <1>1, LockCardsTx
<1>3. Pending(p).others = {} /\ Pending(p).cards \subseteq Cards /\ Run(p, Pending(p))
  BY DEF LockCards, Pending, LockColumn, Select, Statement, Scan
<1>4. ASSUME tx[p].request.op = "move"
      PROVE  /\ tx[p].level = "read committed" /\ \A g \in gaps' : g[1] # p
             /\ \A l \in locks' : l[1] = p => \E k \in Cards : l[2] = CardRow(k)
  BY <1>3, <1>4, RunLocks DEF LocksKept, SpotRows, RowsOf, LockCards
<1> QED
  BY <1>2, <1>4 DEF LocksKept

LEMMA LocksEnd ==
  ASSUME NEW p, locks' = {l \in locks : l[1] # p}, gaps' = {g \in gaps : g[1] # p},
         tx'[p].pc = "idle" \/ (tx'[p].pc = "owned" /\ tx'[p].level = "read committed")
  PROVE  LocksKept(p)'
BY DEF LocksKept

LEMMA LocksSpot ==
  ASSUME ServingInv, NEW p \in Procs, LocksKept(p), ReadSpot(p),
         newColumn[tx[p].request.card] = Source(p)
  PROVE  LocksKept(p)'
<1> DEFINE k == tx[p].request.card
           s == LockSpot(p)
<1>1. /\ Serving(tx[p]) /\ DOMAIN tx[p] = Fields /\ tx = [q \in Procs |-> tx[q]]
      /\ tx[p].pc = "spot" /\ tx[p].request.op = "move" /\ k \in Cards
      /\ Source(p) \in Columns
  BY RequestFields DEF ServingInv, Serving, ReadSpot, Runs, Source
<1>2. /\ Run(p, s)
      /\ tx' = [tx EXCEPT ![p].spot = newPosition[k],
                          ![p].pc = IF Target(p) = Source(p) THEN "shift" ELSE "close"]
  BY <1>1 DEF ReadSpot, Pending
<1>3. /\ tx'[p].request = tx[p].request /\ tx'[p].level = tx[p].level
      /\ tx'[p].source = tx[p].source /\ tx'[p].pc \in {"shift", "close"}
  BY <1>1, <1>2 DEF Fields
<1>4. s.cards = {k} /\ s.others = {<< ColumnRow(Source(p)), "X" >>, << BoardRow(BoardOf[Source(p)]), "X" >>}
  BY <1>1 DEF LockSpot, Statement
<1>5. RowsOf(s) = {CardRow(k), ColumnRow(Source(p)), BoardRow(BoardOf[Source(p)])}
  BY <1>4 DEF RowsOf
<1>6. SpotRows(p) = {} /\ SpotRows(p)' = {ColumnRow(Source(p)), BoardRow(BoardOf[Source(p)])}
  BY <1>1, <1>3 DEF SpotRows, Source
<1> HIDE DEF s
<1>7. /\ \A l \in locks' : l \in locks \/ l[2] \in RowsOf(s)
      /\ tx[p].level = "read committed" => gaps' = gaps
  BY <1>2, RunLocks
<1>8. /\ tx[p].level = "read committed" /\ \A g \in gaps : g[1] # p
      /\ \A l \in locks : l[1] = p => \E j \in Cards : l[2] = CardRow(j)
  BY <1>1, <1>6 DEF LocksKept
<1>9. \A l \in locks' : l[1] = p => (\E j \in Cards : l[2] = CardRow(j)) \/ l[2] \in SpotRows(p)'
  BY <1>1, <1>5, <1>6, <1>7, <1>8
<1> QED
  BY <1>3, <1>7, <1>8, <1>9 DEF LocksKept

LEMMA LocksWrite ==
  ASSUME WriterInv, ServingInv, Steady, SerialInv, NEW p \in Procs, LocksKept(p), Write(p)
  PROVE  LocksKept(p)'
<1> DEFINE s == Pending(p)
<1>1. /\ tx[p].pc \in Writes /\ Run(p, s) /\ tx'[p].pc = AfterWrite(p)
      /\ tx'[p].request = tx[p].request /\ tx'[p].level = tx[p].level
      /\ Source(p)' = Source(p) /\ Stays(p, s)
      /\ Runs(tx[p].request.op, tx[p].pc)
  BY WriteKeeps DEF Write, ServingInv, Serving, Writes
<1>2. tx'[p].pc \notin {"idle", "owned", "first"}
  BY <1>1 DEF AfterWrite
<1>3. ASSUME tx[p].request.op = "move", tx'[p].pc # "commit"
      PROVE  LocksKept(p)'
  <2>1. tx[p].pc \in {"close", "shift", "open"} /\ tx'[p].pc \in {"open", "point"}
    BY <1>1, <1>3 DEF AfterWrite, Writes, Runs
  <2>2. s.others = {}
    BY <2>1 DEF Pending, CloseCardGap, ShiftCards, OpenCardGap, Update, Statement
  <2>3. SpotRows(p)' = SpotRows(p)
    BY <1>1, <2>1 DEF SpotRows
  <2>4. s.cards \subseteq Cards
    BY <1>1 DEF Stays
  <2> HIDE DEF s
  <2>5. /\ \A l \in locks' : l \in locks \/ \E j \in Cards : l[2] = CardRow(j)
        /\ tx[p].level = "read committed" => gaps' = gaps
    BY <1>1, <2>2, <2>4, RunLocks DEF RowsOf
  <2>6. /\ tx[p].level = "read committed" /\ \A g \in gaps : g[1] # p
        /\ \A l \in locks : l[1] = p =>
             (\E j \in Cards : l[2] = CardRow(j)) \/ l[2] \in SpotRows(p)
    BY <1>3, <2>1 DEF LocksKept
  <2>7. \A l \in locks' : l[1] = p => (\E j \in Cards : l[2] = CardRow(j)) \/ l[2] \in SpotRows(p)'
    BY <2>3, <2>5, <2>6
  <2> QED
    BY <1>1, <1>2, <2>5, <2>6, <2>7 DEF LocksKept
<1>4. tx[p].request.op = "move" => tx[p].level = "read committed" /\ \A g \in gaps' : g[1] # p
  BY <1>1, RunLocks DEF LocksKept, Writes
<1> QED
  BY <1>1, <1>2, <1>3, <1>4 DEF LocksKept

LEMMA LocksStep ==
  ASSUME WriterInv, ServingInv, Steady, SerialInv, LockInv, NEW p \in Procs,
         Step(p) \/ Abandon(p) \/ \E r \in Requests : Begin(p, r)
  PROVE  LockInv'
<1>1. LocksKept(p) /\ Serving(tx[p]) /\ tx = [q \in Procs |-> tx[q]]
  BY DEF LockInv, ServingInv
<1>2. /\ \A q \in Procs \ {p} : tx'[q] = tx[q]
      /\ \A l : l[1] # p => (l \in locks' <=> l \in locks)
      /\ \A g : g[1] # p => (g \in gaps' <=> g \in gaps)
  <2>1. CASE Rollback(p) \/ Commit(p)
    BY <1>1, <2>1 DEF Rollback, Commit, Step, Abandon, Begin, ReadOwned, LockCards, ReadSpot, Write, LockError
  <2>2. CASE Run(p, Pending(p))
    BY <1>1, <2>2, RunLocks DEF Commit, Step, Abandon, Begin, ReadOwned, LockCards, ReadSpot, Write, LockError
  <2>3. CASE ReadOwned(p) \/ \E r \in Requests : Begin(p, r)
    BY <1>1, <2>3 DEF ReadOwned, Begin
  <2> QED
    BY <2>1, <2>2, <2>3 DEF Step, Abandon, LockCards, ReadSpot, Write, LockError
<1>3. ASSUME NEW q \in Procs, q # p PROVE LocksKept(q)'
  BY <1>2, <1>3, LocksFrame DEF LockInv
<1>4. LocksKept(p)'
  <2>1. ASSUME NEW r \in Requests, Begin(p, r) PROVE LocksKept(p)'
    BY <1>1, <2>1 DEF Begin, LocksKept
  <2>2. CASE ReadOwned(p)
    <3>1. tx[p].pc = "owned" /\ DOMAIN tx[p] = Fields
      BY <1>1, <2>2 DEF ReadOwned, Serving
    <3>2. \/ tx'[p].pc = "idle"
          \/ tx'[p].pc = "first" /\ tx'[p].level = tx[p].level /\ tx'[p].request = tx[p].request
          \/ tx'[p].request.op # "move" /\ tx'[p].pc = "row"
      BY <1>1, <2>2, <3>1 DEF ReadOwned, Idle, Fields
    <3> QED
      BY <1>1, <2>2, <3>1, <3>2 DEF LocksKept, ReadOwned, SpotRows
  <2>3. CASE LockCards(p)
    BY <1>1, <2>3, LocksRead
  <2>4. CASE ReadSpot(p) /\ newColumn[tx[p].request.card] = Source(p)
    BY <1>1, <2>4, LocksSpot
  <2>5. CASE Write(p)
    BY <1>1, <2>5, LocksWrite
  <2>6. CASE Commit(p)
    BY <1>1, <2>6, LocksEnd DEF Commit, Idle
  <2>7. CASE Rollback(p) /\ tx[p].pc # "idle" /\ tx'[p] \in {Idle, RetryOrFail(p)}
    <3>1. DOMAIN tx[p] = Fields
      BY <1>1, <2>7 DEF Serving
    <3>2. tx'[p].pc = "idle" \/ (tx'[p].pc = "owned" /\ tx'[p].level = "read committed")
      <4>1. \/ RetryOrFail(p) = Idle
            \/ /\ tx[p].request.op = "move"
               /\ RetryOrFail(p).pc = "owned" /\ RetryOrFail(p).level = tx[p].level
        BY <3>1 DEF RetryOrFail, Fields
      <4>2. tx[p].request.op = "move" => tx[p].level = "read committed"
        BY <1>1, <2>7 DEF LocksKept
      <4>3. Idle.pc = "idle"
        BY DEF Idle
      <4>4. RetryOrFail(p).pc = "idle" \/ (RetryOrFail(p).pc = "owned" /\ RetryOrFail(p).level = "read committed")
        BY <4>1, <4>2, <4>3
      <4> QED
        BY <2>7, <4>3, <4>4
    <3> QED
      BY <2>7, <3>2, LocksEnd DEF Rollback
  <2>8. CASE LockError(p) \/ Abandon(p)
    <3>1. Rollback(p) /\ tx[p].pc # "idle" /\ tx'[p] \in {Idle, RetryOrFail(p)}
      BY <1>1, <2>8 DEF LockError, Abandon, Blocked, Statements, Writes
    <3> QED
      BY <2>7, <3>1
  <2>9. CASE ReadSpot(p) /\ newColumn[tx[p].request.card] # Source(p)
    <3>1. Rollback(p) /\ tx[p].pc # "idle" /\ tx'[p] \in {Idle, RetryOrFail(p)}
      BY <1>1, <2>9 DEF ReadSpot
    <3> QED
      BY <2>7, <3>1
  <2> QED
    BY <2>1, <2>2, <2>3, <2>4, <2>5, <2>6, <2>8, <2>9 DEF Step
<1> QED
  BY <1>3, <1>4 DEF LockInv

LEMMA LocksInit == TxInit => LockInv
<1> SUFFICES ASSUME TxInit, NEW p \in Procs PROVE LocksKept(p)
  BY DEF LockInv
<1>1. locks = {} /\ gaps = {} /\ tx[p].pc = "idle"
  BY DEF TxInit, Idle
<1> QED
  BY <1>1 DEF LocksKept

LEMMA LocksNext ==
  WriterInv /\ ServingInv /\ Steady /\ SerialInv /\ LockInv /\ [TxNext]_txVars => LockInv'
<1> SUFFICES ASSUME WriterInv, ServingInv, Steady, SerialInv, LockInv, [TxNext]_txVars
             PROVE  LockInv'
  OBVIOUS
<1>1. CASE UNCHANGED txVars
  BY <1>1, LocksFrame DEF txVars, LockInv
<1> QED
  BY <1>1, LocksStep DEF TxNext

-----------------------------------------------------------------------------
(* A move that waits with its card in place is sure of what it has locked. *)
LEMMA SureInPlace ==
  ASSUME ServingInv, NEW p \in Procs, Guards(p), InPlace(p)
  PROVE  Sure(p) = Cols(p)
BY DEF Guards, Gone, InPlace, Sure

(* What is known of a move that waits. *)
LEMMA InPlaceFacts ==
  ASSUME ServingInv, SerialInv, NEW p \in Procs, Blocked(p), InPlace(p)
  PROVE  /\ Guards(p) /\ Placed(p) /\ Sure(p) = Cols(p)
         /\ tx[p].pc \in {"first", "second", "spot", "close", "shift", "open", "point"}
         /\ tx[p].request.op = "move" /\ tx[p].request.card \in Cards
         /\ newColumn[tx[p].request.card] = Source(p)
         /\ Source(p) \in Columns /\ Target(p) \in Columns
         /\ tx[p].pc = "second" => Source(p) # Target(p)
<1>1. /\ Guards(p) /\ Placed(p) /\ Asked(p) /\ Serving(tx[p]) /\ tx[p].pc \in Statements
      /\ tx[p].request.op = "move" /\ newColumn[tx[p].request.card] = Source(p)
  BY DEF SerialInv, Serial, ServingInv, Blocked, InPlace
<1>2. tx[p].pc \in {"first", "second", "spot", "close", "shift", "open", "point"}
  BY <1>1 DEF Serving, Statements, Writes, Runs
<1> QED
  BY <1>1, <1>2, SureInPlace, ColsType, RequestFields DEF Serving, Asked

(* The locks of such a move that another one may wait for. *)
LEMMA HoldsOnly ==
  ASSUME NEW q \in Procs, LocksKept(q), tx[q].request.op = "move",
         tx[q].pc \in {"first", "second", "spot", "close", "shift", "open", "point"},
         NEW s, InTheWay(q, s),
         \A o \in s.others : o[1] \notin {CardRow(j) : j \in Cards}
  PROVE  \/ \E j \in s.cards : << q, CardRow(j), "X" >> \in locks
         \/ \E o \in s.others : o[1] \in SpotRows(q)
<1>1. \A g \in gaps : g[1] # q
  BY DEF LocksKept
<1>2. ASSUME NEW o \in s.others, NEW mode, << q, o[1], mode >> \in locks
      PROVE  o[1] \in SpotRows(q)
  <2>1. << q, o[1], mode >> \in {l \in locks : l[1] = q}
    BY <1>2
  <2>2. (\E j \in Cards : << q, o[1], mode >>[2] = CardRow(j)) \/ << q, o[1], mode >>[2] \in SpotRows(q)
    BY <2>1 DEF LocksKept
  <2> QED
    BY <2>2
<1> QED
  BY <1>1, <1>2 DEF InTheWay

(* A move that writes waits for no other one: nobody has locked rows of its *)
(* columns, and the row of its target column is locked only by moves from   *)
(* there.                                                                   *)
LEMMA WriterWaits ==
  ASSUME WriterInv, ServingInv, SerialInv, LockInv, NEW p \in Procs, NEW q \in Procs, p # q,
         Blocked(p), Blocked(q), InPlace(p), InPlace(q), tx[p].pc \in Writes
  PROVE  ~ InTheWay(q, Pending(p))
<1> DEFINE s == Pending(p)
           k == tx[p].request.card
<1>1. tx[p].pc \in {"close", "shift", "open", "point"} /\ LocksKept(q)
  BY InPlaceFacts DEF Writes, LockInv
<1>2. Sure(p) = {Source(p), Target(p)}
  BY <1>1, InPlaceFacts DEF Cols
<1>3. \A j \in s.cards : j \in Cards /\ {column[j], newColumn[j]} \cap Sure(p) # {}
  <2>1. CASE tx[p].pc = "point"
    BY <1>2, <2>1, InPlaceFacts DEF Pending, PointMoveCard, Written, Statement
  <2>2. CASE tx[p].pc # "point"
    <3>1. \E range : s.cards \in {Scan(Source(p), range), Scan(Target(p), range)}
      BY <1>1, <2>2 DEF Pending, CloseCardGap, ShiftCards, OpenCardGap, Update, Statement
    <3> QED
      BY <1>2, <3>1 DEF Scan
  <2> QED
    BY <2>1, <2>2
<1>4. s.others \subseteq {<< ColumnRow(Target(p)), "S" >>}
  BY <1>1 DEF Pending, PointMoveCard, Written, CloseCardGap, ShiftCards, OpenCardGap, Update, Statement
<1> HIDE DEF s
<1>5. \A j \in s.cards : << q, CardRow(j), "X" >> \notin locks
  BY <1>3, Apart, InPlaceFacts DEF Held
<1>6. ColumnRow(Target(p)) \notin SpotRows(q)
  <2>1. SUFFICES ASSUME ColumnRow(Target(p)) \in SpotRows(q) PROVE FALSE
    OBVIOUS
  <2>2. Target(p) = Source(q) /\ tx[q].pc \in {"close", "shift", "open", "point"}
    BY <2>1 DEF SpotRows, ColumnRow, BoardRow
  <2>3. Target(p) \in Sure(p) \cap Sure(q)
    BY <1>2, <2>2, InPlaceFacts DEF Cols
  <2> QED
    BY <2>2, <2>3, Exclusive, InPlaceFacts
<1>7. \A o \in s.others : o[1] \notin {CardRow(j) : j \in Cards}
  BY <1>4 DEF CardRow, ColumnRow
<1>8. InTheWay(q, s) => \/ \E j \in s.cards : << q, CardRow(j), "X" >> \in locks
                       \/ \E o \in s.others : o[1] \in SpotRows(q)
  BY <1>1, <1>7, HoldsOnly, InPlaceFacts
<1>9. \A o \in s.others : o[1] = ColumnRow(Target(p))
  BY <1>4
<1>10. ~ InTheWay(q, s)
  BY <1>5, <1>6, <1>8, <1>9
<1> QED
  BY <1>10 DEF s

(* One that reads its spot waits for a move that writes, on the same board. *)
LEMMA SpotWaits ==
  ASSUME WriterInv, ServingInv, SerialInv, LockInv, NEW p \in Procs, NEW q \in Procs, p # q,
         Blocked(p), Blocked(q), InPlace(p), InPlace(q), tx[p].pc = "spot",
         InTheWay(q, Pending(p))
  PROVE  tx[q].pc \in Writes
<1> DEFINE s == Pending(p)
           k == tx[p].request.card
<1>1. s.cards = {k} /\ \A o \in s.others : o[1] \notin {CardRow(j) : j \in Cards}
  BY DEF Pending, LockSpot, Statement, CardRow, ColumnRow, BoardRow
<1> HIDE DEF s
<1>2. newColumn[k] \in Sure(p) /\ k \in Cards
  BY InPlaceFacts DEF Cols
<1>3. << q, CardRow(k), "X" >> \notin locks
  BY <1>2, Apart, InPlaceFacts DEF Held
<1>4. InTheWay(q, s) /\ LocksKept(q)
  BY DEF LockInv, s
<1>5. \E o \in s.others : o[1] \in SpotRows(q)
  BY <1>1, <1>3, <1>4, HoldsOnly, InPlaceFacts
<1> QED
  BY <1>5 DEF SpotRows, Writes

(* One that locks a column waits for a move that has locked it. *)
Awaited(p) == LockOrder(p)[IF tx[p].pc = "first" THEN 1 ELSE 2]

LEMMA LockWaits ==
  ASSUME WriterInv, ServingInv, SerialInv, LockInv, NEW p \in Procs, NEW q \in Procs, p # q,
         Blocked(p), Blocked(q), InPlace(p), InPlace(q), tx[p].pc \in {"first", "second"},
         InTheWay(q, Pending(p))
  PROVE  Awaited(p) \in Cols(q)
<1> DEFINE s == Pending(p)
           c == Awaited(p)
<1>1. s.others = {} /\ \A j \in s.cards : j \in Cards /\ c \in {column[j], newColumn[j]}
  BY DEF Pending, LockColumn, Select, Statement, Scan, Awaited
<1>2. c \in Columns
  BY ColsType, InPlaceFacts DEF Awaited
<1> HIDE DEF s, c
<1>3. InTheWay(q, s) /\ LocksKept(q)
  BY DEF LockInv, s
<1>4. PICK j \in s.cards : << q, CardRow(j), "X" >> \in locks
  BY <1>1, <1>3, HoldsOnly, InPlaceFacts
<1>5. j \in Held(q) /\ c \in {column[j], newColumn[j]}
  BY <1>1, <1>4 DEF Held
<1>6. c \in Sure(q) \cup {NotCreated}
  BY <1>5, InPlaceFacts DEF Guards
<1> QED
  BY <1>2, <1>6, RowsAssumption, InPlaceFacts DEF c

(* Of the moves that have locked one column and wait for another, the one  *)
(* whose first column is the highest waits for none of the others.         *)
LEMMA NoRing ==
  ASSUME WriterInv, ServingInv, SerialInv, LockInv
  PROVE  NoWaitCycle
<1> SUFFICES ASSUME NEW ring \in (SUBSET Procs) \ {{}},
                    \A p \in ring :
                      Blocked(p) /\ InPlace(p) /\ \E q \in ring \ {p} : InTheWay(q, Pending(p))
             PROVE  FALSE
  BY Zenon DEF NoWaitCycle
<1>1. \A p \in ring : tx[p].pc \notin Writes
  BY WriterWaits
<1>2. \A p \in ring : tx[p].pc # "spot"
  BY <1>1, SpotWaits
<1>3. \A p \in ring : tx[p].pc \in {"first", "second"}
  BY <1>1, <1>2, InPlaceFacts DEF Writes
<1>4. ASSUME NEW p \in ring
      PROVE  \E q \in ring : tx[q].pc = "second" /\ LockOrder(q)[1] = Awaited(p)
  <2>1. PICK q \in ring \ {p} : InTheWay(q, Pending(p))
    OBVIOUS
  <2>2. Awaited(p) \in Cols(q)
    BY <1>3, <2>1, LockWaits
  <2> QED
    BY <1>3, <2>2 DEF Cols
<1> DEFINE waiting == {q \in ring : tx[q].pc = "second"}
           lowest == [q \in Procs |-> LockOrder(q)[1]]
<1>5. waiting # {} /\ IsFiniteSet(waiting)
  <2>1. \E p : p \in ring
    <3>1. ring # {} /\ ring \in SUBSET Procs
      OBVIOUS
    <3> HIDE DEF waiting, lowest
    <3> QED
      BY <3>1
  <2>2. waiting # {}
    BY <1>4, <2>1
  <2>3. waiting \in SUBSET Procs
    OBVIOUS
  <2> QED
    BY <2>2, <2>3, BoundsAssumption, FS_Subset
<1>6. ASSUME NEW p \in waiting
      PROVE  lowest[p] \in Nat /\ \E q \in waiting : ~ (lowest[q] <= lowest[p])
  <2>1. Source(p) \in Nat /\ Target(p) \in Nat /\ Source(p) # Target(p)
    BY RowsAssumption, InPlaceFacts
  <2>2. LockOrder(p)[1] \in Nat /\ LockOrder(p)[2] \in Nat /\ LockOrder(p)[1] < LockOrder(p)[2]
    BY <2>1 DEF LockOrder
  <2>3. PICK q \in waiting : LockOrder(q)[1] = LockOrder(p)[2]
    BY <1>4 DEF Awaited
  <2> QED
    BY <2>2, <2>3
<1> HIDE DEF waiting, lowest
<1> QED
  BY <1>5, <1>6, HasHighest

(* Moves whose cards are in place never wait for each other in a ring,     *)
(* however many there are: lock_cards_for_update in ascending column order *)
(* is enough, also with the rows of columns and boards that the spot       *)
(* read (fetch_card_spot_for_update) and the foreign key lock.             *)
THEOREM NoMovesInARing == TxSpec /\ Steady => []NoWaitCycle
<1>1. Steady /\ [TxNext]_txVars => Steady'
  BY DEF Steady, Outlet, Keeps
<1> QED
  BY WriterInit, WriterNext, InitInv, NextInv, SerialInit, SerialNext, LocksInit, LocksNext, NoRing,
     <1>1, PTL DEF TxSpec
=============================================================================
