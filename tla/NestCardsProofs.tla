-------------------------- MODULE NestCardsProofs --------------------------
(***************************************************************************)
(* For any cards, columns, positions and number of overlapping requests of *)
(* the NestJS backend:                                                     *)
(*   - no interleaving of its unlocked handlers gives a card a negative    *)
(*     position or leaves it in a column that is gone;                     *)
(*   - a move that overlapped no other request lands where it was sent;    *)
(*   - the card an undo creates stands where the deleted one stood.        *)
(*                                                                         *)
(* The first needs to know what a handler holds between its reads and its  *)
(* writes: rows computed from a table that has changed since are still     *)
(* rows with positions in Nat (each shift helper maps such a table to such *)
(* a table), and what a save() names is a column that once existed, whose  *)
(* presence the foreign key checks at the write.  The second needs that    *)
(* nothing moved under a lone transaction, and the arithmetic of the shift *)
(* helpers; the third that ids are never reused, and what a list is.       *)
(***************************************************************************)
EXTENDS NestCards, FiniteSetTheorems, SequenceTheorems, TLAPS

Row == [column : Columns, position : Nat]
Table == [Cards -> Row \cup {None}]

(* What the handler with state q may hold. *)
Held(q) ==
  /\ q.at = "create" => q.column \in Columns /\ q.position \in Nat
  /\ q.at \in {"update", "shifted"} =>
       /\ q.card \in Cards /\ q.old \in Row
       /\ q.to \in Columns \cup {None} /\ q.place \in Places \cup {None}
  /\ q.at = "shifted" => \A k \in DOMAIN q.rows : q.rows[k] \in Nat
  /\ q.at = "updateColumn" => q.column \in Columns \cap issued /\ q.row # None
  /\ q.at = "save" => \A k \in DOMAIN q.rows : q.rows[k] \in Row
  /\ q.at = "moveAll" => q.cards \subseteq Cards /\ q.target \in Columns

(* Every card is in a column that exists; only an id handed out exists. *)
Referenced ==
  /\ \A k \in Cards : card[k] # None => columns[card[k].column] # None
  /\ \A c \in Columns : columns[c] # None => c \in issued

PlacedInv ==
  /\ card \in Table
  /\ columns = [c \in Columns |-> columns[c]]
  /\ req = [r \in Requests |-> req[r]]
  /\ Referenced
  /\ \A r \in Requests : Held(req[r])

-----------------------------------------------------------------------------
(* The SELECTs. *)

(* MAX(position) ?? -1 over any finite set of positions. *)
LEMMA MaxOfPositions ==
  ASSUME NEW set \in SUBSET Nat, IsFiniteSet(set)
  PROVE  MaxOf(set) \in Nat \cup {-1}
<1>1. CASE set = {}
  BY <1>1 DEF MaxOf
<1>2. CASE set # {}
  <2> DEFINE above(m) == {x \in set : x > m}
             sizes == {Cardinality(above(m)) : m \in set}
  <2>1. \A m \in set : IsFiniteSet(above(m)) /\ Cardinality(above(m)) \in Nat
    BY FS_Subset, FS_CardinalityType
  <2>2. sizes \subseteq Nat /\ sizes # {}
    BY <1>2, <2>1
  <2>3. \A n \in sizes, i \in sizes :
          << n, i >> \in OpToRel(<, Nat) <=> n < i
    BY <2>2 DEF OpToRel
  <2>4. \E n \in sizes : \A i \in sizes : ~ (i < n)
    <3> HIDE DEF sizes
    <3>1. \E n \in sizes : \A i \in sizes : << i, n >> \notin OpToRel(<, Nat)
      BY <2>2, WFMin, NatLessThanWellFounded
    <3> QED
      BY <2>3, <3>1
  <2>5. PICK m \in set : \A i \in sizes : ~ (i < Cardinality(above(m)))
    BY <2>4
  <2>6. \A x \in set : x <= m
    <3> SUFFICES ASSUME NEW x \in set, ~ (x <= m)
                 PROVE  FALSE
      OBVIOUS
    <3>1. above(x) \in SUBSET above(m) /\ x \in above(m) /\ x \notin above(x)
      <4>1. m \in Nat /\ x \in Nat /\ x > m /\ set \subseteq Nat
        OBVIOUS
      <4>2. \A y \in set : y > x => y > m
        BY <4>1
      <4>3. above(x) \subseteq above(m)
        BY <4>2
      <4>4. x \in above(m) /\ x \notin above(x)
        BY <4>1
      <4> QED
        BY <4>3, <4>4
    <3>2. Cardinality(above(x)) < Cardinality(above(m))
      <4> HIDE DEF above
      <4>1. Cardinality(above(x)) <= Cardinality(above(m))
            /\ Cardinality(above(m)) # Cardinality(above(x))
        BY <2>1, <3>1, FS_Subset
      <4> QED
        BY <2>1, <4>1
    <3> QED
      BY <2>5, <3>2
  <2> QED
    BY <1>2, <2>6 DEF MaxOf
<1> QED
  BY <1>1, <1>2

LEMMA ColumnFinite ==
  ASSUME NEW tab, NEW c
  PROVE  /\ IsFiniteSet(InColumn(tab, c))
         /\ Cardinality(InColumn(tab, c)) \in Nat
BY FS_Subset, FS_CardinalityType, NestCardsAssumption DEF InColumn

LEMMA MaxPositionBound ==
  ASSUME NEW tab \in Table, NEW c
  PROVE  MaxPositionInColumn(tab, c) \in Nat \cup {-1}
<1> DEFINE taken == {tab[k].position : k \in InColumn(tab, c)}
<1>1. taken \in SUBSET Nat
  BY DEF InColumn, Table, Row
<1>2. IsFiniteSet(taken)
  <2> DEFINE at == [k \in InColumn(tab, c) |-> tab[k].position]
  <2>1. at \in Surjection(InColumn(tab, c), taken)
    BY DEF Surjection
  <2> QED
    BY <2>1, ColumnFinite, FS_Surjection
<1>3. MaxOf(taken) \in Nat \cup {-1}
  BY <1>1, <1>2, MaxOfPositions
<1> QED
  BY <1>3 DEF MaxPositionInColumn

-----------------------------------------------------------------------------
(* The shift helpers take a table of placed cards to another one. *)

LEMMA ShiftedRows ==
  ASSUME NEW tab \in Table, NEW rows \in SUBSET Cards, NEW by \in {-1, 1},
         \A k \in rows : tab[k] \in Row /\ tab[k].position + by >= 0
  PROVE  /\ Shifted(tab, rows, by) \in Table
         /\ \A k \in Cards : Shifted(tab, rows, by)[k] # tab[k]
                               => Shifted(tab, rows, by)[k] \in Row
BY DEF Shifted, Table, Row

Rewritten(tab, new) ==
  /\ new \in Table
  /\ \A k \in Cards : new[k] # tab[k] => new[k] \in Row

LEMMA ReorderRows ==
  ASSUME NEW tab \in Table, NEW c, NEW old \in Nat, NEW new \in Nat
  PROVE  Rewritten(tab, ReorderWithinColumn(tab, c, old, new))
<1> DEFINE top == Cardinality(InColumn(tab, c)) - 1
           from == Within(old, top)
           to == Within(new, top)
<1>1. from \in Nat /\ to \in Nat
  BY ColumnFinite DEF Within
<1>2. \A lo, hi : /\ Band(tab, c, lo, hi) \in SUBSET Cards
                  /\ \A k \in Band(tab, c, lo, hi) :
                       tab[k] \in Row /\ tab[k].position \in lo .. hi
  BY DEF Band, InColumn, Table
<1> HIDE DEF top, from, to
<1>3. Rewritten(tab, Shifted(tab, Band(tab, c, from + 1, to), -1))
  <2>1. \A k \in Band(tab, c, from + 1, to) :
          tab[k] \in Row /\ tab[k].position + (-1) >= 0
    BY <1>1, <1>2 DEF Row
  <2> QED
    BY <1>2, <2>1, ShiftedRows DEF Rewritten
<1>4. Rewritten(tab, Shifted(tab, Band(tab, c, to, from - 1), 1))
  <2>1. \A k \in Band(tab, c, to, from - 1) :
          tab[k] \in Row /\ tab[k].position + 1 >= 0
    BY <1>2 DEF Row
  <2> QED
    BY <1>2, <2>1, ShiftedRows DEF Rewritten
<1> QED
  BY <1>3, <1>4 DEF ReorderWithinColumn, top, from, to

LEMMA FromRows ==
  ASSUME NEW tab \in Table, NEW c, NEW lo
  PROVE  /\ From(tab, c, lo) \in SUBSET Cards
         /\ \A k \in From(tab, c, lo) : tab[k] \in Row /\ tab[k].position >= lo
BY DEF From, InColumn, Table

LEMMA RemoveRows ==
  ASSUME NEW tab \in Table, NEW c, NEW position \in Nat
  PROVE  Rewritten(tab, RemoveFromColumn(tab, c, position))
<1>1. \A k \in From(tab, c, position + 1) :
        tab[k] \in Row /\ tab[k].position + (-1) >= 0
  BY FromRows DEF Row
<1> QED
  BY <1>1, FromRows, ShiftedRows DEF RemoveFromColumn, Rewritten

LEMMA InsertRows ==
  ASSUME NEW tab \in Table, NEW c, NEW position \in Nat
  PROVE  Rewritten(tab, InsertIntoColumn(tab, c, position))
<1>1. \A k \in From(tab, c, position) :
        tab[k] \in Row /\ tab[k].position + 1 >= 0
  BY FromRows DEF Row
<1> QED
  BY <1>1, FromRows, ShiftedRows DEF InsertIntoColumn, Rewritten

LEMMA RearrangedRows ==
  ASSUME NEW tab \in Table, NEW k \in Cards, NEW old \in Row,
         NEW place \in Places \cup {None}, NEW to \in Columns
  PROVE  Rewritten(tab, Rearranged(tab, k, old, place, to))
<1>1. CASE place = None
  BY <1>1 DEF Rearranged, Rewritten
<1>2. CASE place # None /\ to = old.column
  <2>1. place \in Nat /\ old.position \in Nat
    BY <1>2, NestCardsAssumption DEF Row
  <2>2. Rewritten(tab, ReorderWithinColumn(tab, to, old.position, place))
    BY <2>1, ReorderRows
  <2> QED
    BY <1>2, <2>2 DEF Rearranged, Rewritten
<1>3. CASE place # None /\ to # old.column
  <2> DEFINE left == RemoveFromColumn(tab, old.column, old.position)
             top == MaxPositionInColumn(left, to) + 1
             slot == IF place > top THEN top ELSE place
  <2>1. Rewritten(tab, left)
    BY RemoveRows DEF Row
  <2>2. left \in Table
    BY <2>1 DEF Rewritten
  <2>3. top \in Nat
    BY <2>2, MaxPositionBound
  <2>4. slot \in Nat
    BY <1>3, <2>3, NestCardsAssumption
  <2> HIDE DEF left, slot
  <2>5. Rewritten(left, InsertIntoColumn(left, to, slot))
    BY <2>2, <2>4, InsertRows
  <2>6. Rewritten(tab, InsertIntoColumn(left, to, slot))
    BY <2>1, <2>5 DEF Rewritten
  <2> QED
    BY <1>3, <2>6 DEF Rearranged, left, slot
<1> QED
  BY <1>1, <1>2, <1>3

-----------------------------------------------------------------------------
(* The writes. *)

(* An answer leaves nothing held. *)
LEMMA Answered ==
  ASSUME PlacedInv, NEW r \in Requests, Answer(r), issued \subseteq issued'
  PROVE  /\ req' = [o \in Requests |-> req'[o]]
         /\ \A o \in Requests : Held(req[o])'
<1>1. /\ req' = [o \in Requests |-> IF o = r THEN Idle ELSE req[o]]
  BY DEF Answer, PlacedInv
<1>2. \A o \in Requests : o # r => req'[o] = req[o]
  BY <1>1
<1>3. req'[r] = Idle /\ Idle.at = "idle"
  BY <1>1 DEF Idle
<1>4. Held(req[r])'
  BY <1>3 DEF Held
<1>5. ASSUME NEW o \in Requests, o # r
      PROVE  Held(req[o])'
  BY <1>2, <1>5 DEF Held, PlacedInv
<1> QED
  BY <1>1, <1>4, <1>5

(* A handler that begins, with a state it may hold. *)
LEMMA Begun ==
  ASSUME PlacedInv, NEW r \in Requests, NEW rec, Begin(r, rec), Held(rec), Nothing
  PROVE  PlacedInv'
<1>1. req' = [o \in Requests |-> IF o = r THEN rec ELSE req[o]]
  BY DEF Begin, PlacedInv
<1>2. card' = card /\ columns' = columns /\ issued' = issued
  BY DEF Nothing
<1>3. \A o \in Requests : Held(req[o])'
  BY <1>1, <1>2 DEF Held, PlacedInv
<1> QED
  BY <1>1, <1>2, <1>3 DEF PlacedInv, Referenced

(* save() of any rows keeps the table and its foreign keys. *)
LEMMA Saved ==
  ASSUME PlacedInv, NEW entities, \A k \in DOMAIN entities : entities[k] \in Row,
         SaveCards(entities), columns' = columns, issued \subseteq issued'
  PROVE  card' \in Table /\ Referenced'
BY DEF SaveCards, PlacedInv, Referenced, Table

LEMMA ReadersInv ==
  ASSUME PlacedInv, NEW r \in Requests,
         \/ CreateCard(r)   \/ UpdateCard(r)   \/ RemoveCard(r)
         \/ CreateColumn(r) \/ UpdateColumn(r) \/ RemoveColumn(r)
         \/ SortCards(r)    \/ MoveAllCards(r)
  PROVE  PlacedInv'
<1>1. CASE CreateCard(r)
  <2>1. PICK c \in Columns, place \in Places \cup {None} :
          /\ Begin(r, [at |-> "create", column |-> c,
                       position |-> IF place = None THEN MaxPositionInColumn(card, c) + 1
                                    ELSE place])
          /\ Nothing
    BY <1>1 DEF CreateCard
  <2> DEFINE slot == IF place = None THEN MaxPositionInColumn(card, c) + 1 ELSE place
  <2>2. slot \in Nat
    BY MaxPositionBound, NestCardsAssumption DEF PlacedInv
  <2> HIDE DEF slot
  <2>3. Held([at |-> "create", column |-> c, position |-> slot])
    BY <2>2 DEF Held
  <2> QED
    BY <2>1, <2>3, Begun DEF slot
<1>2. CASE UpdateCard(r)
  <2>1. PICK k \in Cards, to \in Columns \cup {None}, place \in Places \cup {None} :
          /\ card[k] # None
          /\ Begin(r, [at |-> "update", card |-> k, old |-> card[k], to |-> to,
                       place |-> place])
          /\ Nothing
    BY <1>2 DEF UpdateCard
  <2>2. Held([at |-> "update", card |-> k, old |-> card[k], to |-> to, place |-> place])
    BY <2>1 DEF Held, PlacedInv, Table
  <2> QED
    BY <2>1, <2>2, Begun
<1>3. CASE RemoveCard(r)
  <2>1. \A k : Held([at |-> "remove", card |-> k])
    BY DEF Held
  <2> QED
    BY <1>3, <2>1, Begun DEF RemoveCard
<1>4. CASE CreateColumn(r)
  <2>1. \A row : Held([at |-> "createColumn", row |-> row])
    BY DEF Held
  <2> QED
    BY <1>4, <2>1, Begun DEF CreateColumn
<1>5. CASE UpdateColumn(r)
  <2>1. PICK c \in Columns :
          /\ columns[c] # None
          /\ Begin(r, [at |-> "updateColumn", column |-> c, row |-> columns[c]])
          /\ Nothing
    BY <1>5 DEF UpdateColumn
  <2>2. Held([at |-> "updateColumn", column |-> c, row |-> columns[c]])
    BY <2>1 DEF Held, PlacedInv, Referenced
  <2> QED
    BY <2>1, <2>2, Begun
<1>6. CASE RemoveColumn(r)
  <2>1. \A c : Held([at |-> "removeColumn", column |-> c])
    BY DEF Held
  <2> QED
    BY <1>6, <2>1, Begun DEF RemoveColumn
<1>7. CASE SortCards(r)
  <2> DEFINE Index(c, desc, k) ==
               Cardinality({j \in InColumn(card, c) : IF desc THEN k < j ELSE j < k})
  <2>1. PICK c \in Columns, desc \in BOOLEAN :
          /\ Begin(r, [at |-> "save",
                       rows |-> [k \in InColumn(card, c) |->
                                   [column |-> c, position |-> Index(c, desc, k)]]])
          /\ Nothing
    BY <1>7 DEF SortCards
  <2>2. \A k : Index(c, desc, k) \in Nat
    BY ColumnFinite, FS_Subset, FS_CardinalityType
  <2> HIDE DEF Index
  <2>3. Held([at |-> "save", rows |-> [k \in InColumn(card, c) |->
                                         [column |-> c, position |-> Index(c, desc, k)]]])
    BY <2>2 DEF Held, Row
  <2> QED
    BY <2>1, <2>3, Begun
<1>8. CASE MoveAllCards(r)
  <2>1. PICK source \in Columns, target \in Columns :
          /\ Begin(r, [at |-> "moveAll", cards |-> InColumn(card, source),
                       target |-> target])
          /\ Nothing
    BY <1>8 DEF MoveAllCards
  <2>2. Held([at |-> "moveAll", cards |-> InColumn(card, source), target |-> target])
    BY DEF Held, InColumn
  <2> QED
    BY <2>1, <2>2, Begun
<1> QED
  BY <1>1, <1>2, <1>3, <1>4, <1>5, <1>6, <1>7, <1>8

(* The rows a transaction computes stay rows, whoever commits before it. *)
LEMMA ShiftInv ==
  ASSUME PlacedInv, NEW r \in Requests, ShiftCards(r)
  PROVE  PlacedInv'
<1> DEFINE q == req[r]
           new == Rearranged(card, q.card, q.old, q.place,
                             IF q.to = None THEN q.old.column ELSE q.to)
           rows == {k \in Cards : new[k] # card[k]}
           rec == [at |-> "shifted", card |-> q.card, old |-> q.old,
                   to |-> q.to, place |-> q.place,
                   rows |-> [k \in rows |-> new[k].position]]
<1>1. /\ q.at = "update"
      /\ q.card \in Cards /\ q.old \in Row
      /\ q.to \in Columns \cup {None} /\ q.place \in Places \cup {None}
  BY DEF ShiftCards, PlacedInv, Held
<1>2. Rewritten(card, new)
  BY <1>1, RearrangedRows DEF PlacedInv, Row
<1>3. req' = [req EXCEPT ![r] = rec] /\ UNCHANGED << columns, card, issued >>
  BY DEF ShiftCards
<1> HIDE DEF new
<1>4. \A k \in rows : new[k].position \in Nat
  BY <1>2 DEF Rewritten, Row
<1> HIDE DEF rows
<1>5. Held(rec)
  BY <1>1, <1>4 DEF Held
<1> HIDE DEF rec
<1>6. \A o \in Requests : Held(req[o])'
  BY <1>3, <1>5 DEF PlacedInv, Held
<1> QED
  BY <1>3, <1>6 DEF PlacedInv, Referenced

LEMMA CommitInv ==
  ASSUME PlacedInv, NEW r \in Requests, CommitUpdate(r)
  PROVE  PlacedInv'
<1> DEFINE q == req[r]
           done == q.to = None \/ columns[q.to] # None
           Pos(k) == IF k = q.card /\ q.place # None THEN q.place
                     ELSE IF k \in DOMAIN q.rows THEN q.rows[k]
                     ELSE card[k].position
           Col(k) == IF k = q.card /\ q.to # None THEN q.to ELSE card[k].column
<1>1. /\ card' = IF done
                 THEN [k \in Cards |-> IF card[k] = None THEN None
                                       ELSE [column |-> Col(k), position |-> Pos(k)]]
                 ELSE card
      /\ Answer(r) /\ UNCHANGED << columns, issued >>
  BY DEF CommitUpdate
<1>2. /\ q.at = "shifted"
      /\ q.to \in Columns \cup {None} /\ q.place \in Places \cup {None}
      /\ \A k \in DOMAIN q.rows : q.rows[k] \in Nat
  BY DEF CommitUpdate, PlacedInv, Held
<1>3. \A k \in Cards : card[k] # None => card[k] \in Row /\ columns[card[k].column] # None
  BY DEF PlacedInv, Table, Referenced
<1>4. \A k \in Cards : card[k] # None => Pos(k) \in Nat
  BY <1>2, <1>3, NestCardsAssumption DEF Row
<1>5. \A k \in Cards : card[k] # None /\ done
                         => Col(k) \in Columns /\ columns[Col(k)] # None
  BY <1>2, <1>3 DEF Row
<1> HIDE DEF Pos, Col
<1>6. CASE done
  <2>1. \A k \in Cards : /\ card[k] = None => card'[k] = None
                         /\ card[k] # None => card'[k] \in Row /\ card'[k].column = Col(k)
    BY <1>1, <1>4, <1>5, <1>6 DEF Row
  <2>2. card' \in Table
    BY <1>1, <1>6, <2>1 DEF Table
  <2>3. Referenced'
    BY <1>1, <1>5, <1>6, <2>1 DEF Referenced, PlacedInv
  <2> QED
    BY <1>1, <2>2, <2>3, Answered DEF PlacedInv
<1>7. CASE ~done
  <2>1. UNCHANGED card
    BY <1>1, <1>7
  <2> QED
    BY <1>1, <2>1, Answered DEF PlacedInv, Referenced
<1> QED
  BY <1>6, <1>7

LEMMA CardWritersInv ==
  ASSUME PlacedInv, NEW r \in Requests,
         InsertCard(r) \/ SaveSorted(r) \/ SaveMoved(r)
  PROVE  PlacedInv'
<1>1. CASE InsertCard(r)
  <2>1. PICK k \in Cards \ issued :
          /\ issued' = issued \cup {k}
          /\ SaveCards([j \in {k} |-> [column |-> req[r].column,
                                       position |-> req[r].position]])
    BY <1>1 DEF InsertCard
  <2>2. req[r].column \in Columns /\ req[r].position \in Nat
    BY <1>1 DEF InsertCard, PlacedInv, Held
  <2> DEFINE entities == [j \in {k} |-> [column |-> req[r].column,
                                         position |-> req[r].position]]
  <2>3. \A j \in DOMAIN entities : entities[j] \in Row
    BY <2>2 DEF Row
  <2> HIDE DEF entities
  <2>4. card' \in Table /\ Referenced'
    BY <1>1, <2>1, <2>3, Saved DEF InsertCard, entities
  <2> QED
    BY <1>1, <2>1, <2>4, Answered DEF InsertCard, PlacedInv
<1>2. CASE SaveSorted(r)
  <2>1. \A j \in DOMAIN req[r].rows : req[r].rows[j] \in Row
    BY <1>2 DEF SaveSorted, PlacedInv, Held
  <2>2. card' \in Table /\ Referenced'
    BY <1>2, <2>1, Saved DEF SaveSorted
  <2> QED
    BY <1>2, <2>2, Answered DEF SaveSorted, PlacedInv
<1>3. CASE SaveMoved(r)
  <2> DEFINE cards == req[r].cards
             target == req[r].target
             last == MaxPositionInColumn(card, target)
  <2>1. cards \subseteq Cards /\ target \in Columns
    BY <1>3 DEF SaveMoved, PlacedInv, Held
  <2>2. PICK order \in SetToSeqs(cards) :
          SaveCards([k \in cards |->
                       [column |-> target,
                        position |-> last + (CHOOSE i \in DOMAIN order : order[i] = k)]])
    BY <1>3 DEF SaveMoved
  <2>3. IsFiniteSet(cards) /\ Cardinality(cards) \in Nat
    BY <2>1, FS_Subset, FS_CardinalityType, NestCardsAssumption
  <2>4. \A k \in cards : \E i \in DOMAIN order : order[i] = k
    <3> DEFINE D == 1 .. Cardinality(cards)
    <3>1. order \in Injection(D, cards)
      BY <2>2 DEF SetToSeqs, Injection, IsInjective
    <3>2. IsFiniteSet(D) /\ Cardinality(D) = Cardinality(cards)
      BY <2>3, FS_Interval
    <3>3. order \in Surjection(D, cards)
      BY <2>3, <3>1, <3>2, FS_Injection
    <3> QED
      BY <3>3 DEF Surjection
  <2>5. DOMAIN order \subseteq Nat \ {0}
    BY <2>2, <2>3 DEF SetToSeqs
  <2>6. last \in Nat \cup {-1}
    BY MaxPositionBound DEF PlacedInv
  <2> DEFINE Place(k) == CHOOSE i \in DOMAIN order : order[i] = k
             entities == [k \in cards |-> [column |-> target, position |-> last + Place(k)]]
  <2>7. \A k \in cards : Place(k) \in Nat \ {0}
    BY <2>4, <2>5
  <2> HIDE DEF last, Place
  <2>8. \A k \in cards : last + Place(k) \in Nat
    <3> SUFFICES ASSUME NEW k \in cards PROVE last + Place(k) \in Nat
      OBVIOUS
    <3>1. last \in Int
      BY <2>6
    <3> QED
      BY <2>6, <2>7, <3>1
  <2>9. \A k \in DOMAIN entities : entities[k] \in Row
    BY <2>1, <2>8 DEF Row
  <2> HIDE DEF entities
  <2>10. SaveCards(entities)
    BY <2>2 DEF entities, last, Place
  <2>11. card' \in Table /\ Referenced'
    BY <1>3, <2>9, <2>10, Saved DEF SaveMoved
  <2> QED
    BY <1>3, <2>11, Answered DEF SaveMoved, PlacedInv
<1> QED
  BY <1>1, <1>2, <1>3

LEMMA OtherWritersInv ==
  ASSUME PlacedInv, NEW r \in Requests,
         \/ DeadlockedUpdate(r) \/ DeleteCard(r) \/ InsertColumn(r)
         \/ SaveColumn(r) \/ DropColumn(r)
  PROVE  PlacedInv'
<1>1. CASE DeadlockedUpdate(r)
  BY <1>1, Answered DEF DeadlockedUpdate, Nothing, PlacedInv, Referenced
<1>2. CASE DeleteCard(r)
  <2>1. card' = [card EXCEPT ![req[r].card] = None] /\ UNCHANGED << columns, issued >>
    BY <1>2 DEF DeleteCard
  <2>2. card' \in Table /\ Referenced'
    BY <2>1 DEF PlacedInv, Referenced, Table
  <2> QED
    BY <1>2, <2>1, <2>2, Answered DEF DeleteCard, PlacedInv
<1>3. CASE InsertColumn(r)
  <2>1. PICK c \in Columns \ issued :
          /\ issued' = issued \cup {c}
          /\ columns' = [columns EXCEPT ![c] = req[r].row]
          /\ UNCHANGED card
    BY <1>3 DEF InsertColumn
  <2>2. columns' = [d \in Columns |-> columns'[d]]
    BY <2>1 DEF PlacedInv
  <2>3. Referenced'
    BY <2>1 DEF PlacedInv, Referenced, Table, Row
  <2> QED
    BY <1>3, <2>1, <2>2, <2>3, Answered DEF InsertColumn, PlacedInv
<1>4. CASE SaveColumn(r)
  <2>1. /\ columns' = [columns EXCEPT ![req[r].column] = req[r].row]
        /\ UNCHANGED << card, issued >>
    BY <1>4 DEF SaveColumn
  <2>2. req[r].column \in Columns \cap issued /\ req[r].row # None
    BY <1>4 DEF SaveColumn, PlacedInv, Held
  <2>3. columns' = [d \in Columns |-> columns'[d]]
    BY <2>1 DEF PlacedInv
  <2>4. Referenced'
    BY <2>1, <2>2 DEF PlacedInv, Referenced, Table, Row
  <2> QED
    BY <1>4, <2>1, <2>3, <2>4, Answered DEF SaveColumn, PlacedInv
<1>5. CASE DropColumn(r)
  <2>1. /\ columns' = [columns EXCEPT ![req[r].column] = None]
        /\ card' = [k \in Cards |-> IF k \in InColumn(card, req[r].column)
                                    THEN None ELSE card[k]]
        /\ UNCHANGED issued
    BY <1>5 DEF DropColumn
  <2>2. card' \in Table
    BY <2>1 DEF PlacedInv, Table
  <2>3. columns' = [d \in Columns |-> columns'[d]]
    BY <2>1 DEF PlacedInv
  <2>4. Referenced'
    BY <2>1 DEF PlacedInv, Referenced, Table, Row, InColumn
  <2> QED
    BY <1>5, <2>1, <2>2, <2>3, <2>4, Answered DEF DropColumn, PlacedInv
<1> QED
  BY <1>1, <1>2, <1>3, <1>4, <1>5

-----------------------------------------------------------------------------
LEMMA InitInv == Init => PlacedInv
<1> SUFFICES ASSUME Init PROVE PlacedInv
  OBVIOUS
<1>1. /\ columns = [c \in Columns |->
                      IF c \in DOMAIN Home
                      THEN [board |-> Home[c],
                            position |-> Cardinality({d \in DOMAIN Home :
                                                        d < c /\ Home[d] = Home[c]})]
                      ELSE None]
      /\ card \in [Cards -> [column : DOMAIN Home, position : 0 .. Cardinality(Stored) - 1]
                              \cup {None}]
      /\ issued = DOMAIN Home \cup Stored
      /\ req = [r \in Requests |-> Idle]
  BY DEF Init
<1>2. Cardinality(Stored) \in Nat
  BY FS_Subset, FS_CardinalityType, NestCardsAssumption
<1>3. card \in Table
  BY <1>1, <1>2, NestCardsAssumption DEF Table, Row
<1>4. columns = [c \in Columns |-> columns[c]]
  BY <1>1
<1>5. \A c \in Columns : columns[c] # None => c \in issued
  BY <1>1
<1>6. \A c \in DOMAIN Home : columns[c] # None
  <2> DEFINE place(c) == Cardinality({d \in DOMAIN Home : d < c /\ Home[d] = Home[c]})
  <2>1. \A c : place(c) \in Nat
    <3> DEFINE left(c) == {d \in DOMAIN Home : d < c /\ Home[d] = Home[c]}
    <3>1. \A c : left(c) \in SUBSET Columns
      BY NestCardsAssumption
    <3> HIDE DEF left
    <3>2. \A c : IsFiniteSet(left(c))
      BY <3>1, FS_Subset, NestCardsAssumption
    <3>3. \A c : Cardinality(left(c)) \in Nat
      BY <3>2, FS_CardinalityType
    <3> QED
      BY <3>3 DEF left
  <2>2. \A c \in DOMAIN Home : columns[c] = [board |-> Home[c], position |-> place(c)]
    BY <1>1, NestCardsAssumption
  <2> HIDE DEF place
  <2>3. \A c \in DOMAIN Home : columns[c] \in [board : Boards, position : Nat]
    <3> SUFFICES ASSUME NEW c \in DOMAIN Home
                 PROVE  [board |-> Home[c], position |-> place(c)]
                          \in [board : Boards, position : Nat]
      BY <2>2
    <3>1. Home[c] \in Boards /\ place(c) \in Nat
      BY <2>1, NestCardsAssumption
    <3> QED
      BY <3>1
  <2> QED
    BY <2>3, NestCardsAssumption
<1>7. Referenced
  BY <1>1, <1>5, <1>6 DEF Referenced
<1>8. \A r \in Requests : Held(req[r])
  BY <1>1 DEF Held, Idle
<1> QED
  BY <1>1, <1>3, <1>4, <1>7, <1>8 DEF PlacedInv

LEMMA NextInv == PlacedInv /\ [Next]_vars => PlacedInv'
<1> SUFFICES ASSUME PlacedInv, [Next]_vars PROVE PlacedInv'
  OBVIOUS
<1>1. CASE UNCHANGED vars
  BY <1>1 DEF vars, PlacedInv, Referenced, Held
<1>2. ASSUME NEW r \in Requests, CardsController(r) \/ ColumnsController(r)
      PROVE  PlacedInv'
  BY <1>2, ReadersInv, ShiftInv, CommitInv, CardWritersInv, OtherWritersInv
     DEF CardsController, ColumnsController
<1> QED
  BY <1>1, <1>2 DEF Next

(* However overlapping moves, deletes, sorts and bulk moves of             *)
(* cards.service.ts and columns.service.ts interleave, no card has a       *)
(* negative position and every card is in a column that exists.            *)
THEOREM AlwaysPlaced == Spec => []CardsPlaced
<1>1. PlacedInv => CardsPlaced
  BY DEF PlacedInv, Referenced, CardsPlaced, Table, Row
<1> QED
  BY <1>1, InitInv, NextInv, PTL DEF Spec
LEMMA RowIsNotNone == None \notin Row
BY NestCardsAssumption DEF Row

-----------------------------------------------------------------------------
(* The list a column shows. *)

(* s has the cards of column c by ascending position, no two at the same.   *)
Lists(tab, c, s, n) ==
  /\ s = [i \in 1 .. n |-> s[i]]
  /\ \A i \in 1 .. n : s[i] \in InColumn(tab, c)
  /\ \A k \in InColumn(tab, c) : \E i \in 1 .. n : s[i] = k
  /\ \A i, j \in 1 .. n : i < j => tab[s[i]].position < tab[s[j]].position

(* s has the card at position i - 1 in its slot i.                          *)
Numbers(tab, c, s, n) ==
  /\ s = [i \in 1 .. n |-> s[i]]
  /\ \A i \in 1 .. n : s[i] \in InColumn(tab, c) /\ tab[s[i]].position = i - 1
  /\ \A k \in InColumn(tab, c) : \E i \in 1 .. n : s[i] = k

LEMMA PlaceType ==
  ASSUME NEW tab \in Table, NEW c
  PROVE  \A k \in InColumn(tab, c) : k \in Nat /\ tab[k].position \in Nat
BY NestCardsAssumption DEF Table, Row, InColumn

LEMMA CountedBy ==
  ASSUME NEW n \in Nat, NEW set, NEW f, f = [i \in 1 .. n |-> f[i]],
         \A i \in 1 .. n : f[i] \in set,
         \A i, j \in 1 .. n : f[i] = f[j] => i = j,
         \A e \in set : \E i \in 1 .. n : f[i] = e
  PROVE  Cardinality(set) = n
<1>1. f \in Bijection(1 .. n, set)
  BY DEF Bijection, Injection, Surjection, IsInjective
<1>2. IsFiniteSet(1 .. n) /\ Cardinality(1 .. n) = n
  BY FS_Interval
<1> QED
  BY <1>1, <1>2, FS_Bijection DEF ExistsBijection

(* There is one such list, and it is the one shown. *)
LEMMA OnlyList ==
  ASSUME NEW tab \in Table, NEW c, NEW n \in Nat, NEW s, Lists(tab, c, s, n)
  PROVE  Cardinality(InColumn(tab, c)) = n /\ Shown(tab, c) = s
<1> DEFINE rows == InColumn(tab, c)
<1>1. \A k \in rows : k \in Nat /\ tab[k].position \in Nat
  BY PlaceType
<1>2. \A i, j \in 1 .. n : s[i] = s[j] => i = j
  BY <1>1 DEF Lists
<1>3. Cardinality(rows) = n
  BY <1>2, CountedBy DEF Lists
<1>4. ASSUME NEW i \in 1 .. n
      PROVE  Cardinality(Earlier(tab, c, s[i])) = i - 1
  <2> DEFINE front == [j \in 1 .. (i - 1) |-> s[j]]
  <2>1. PICK m \in Nat : m = i - 1 /\ \A j : j \in 1 .. m <=> j \in 1 .. n /\ j < i
    OBVIOUS
  <2>2. \A j \in 1 .. n : j < i <=> s[j] \in Earlier(tab, c, s[i])
    <3> SUFFICES ASSUME NEW j \in 1 .. n
                 PROVE  j < i <=> s[j] \in Earlier(tab, c, s[i])
      OBVIOUS
    <3>1. CASE j < i
      BY <3>1 DEF Lists, Earlier
    <3>2. CASE j = i
      BY <1>1, <3>2 DEF Lists, Earlier
    <3>3. CASE i < j
      <4>1. tab[s[i]].position < tab[s[j]].position
        BY <3>3 DEF Lists
      <4> QED
        BY <1>1, <3>3, <4>1 DEF Lists, Earlier
    <3> QED
      BY <3>1, <3>2, <3>3
  <2>3. Earlier(tab, c, s[i]) \subseteq rows
    BY DEF Earlier
  <2>4. /\ front = [j \in 1 .. m |-> front[j]]
        /\ \A j \in 1 .. m : front[j] \in Earlier(tab, c, s[i])
        /\ \A j, l \in 1 .. m : front[j] = front[l] => j = l
        /\ \A e \in Earlier(tab, c, s[i]) : \E j \in 1 .. m : front[j] = e
    <3>1. front = [j \in 1 .. m |-> s[j]]
      BY <2>1
    <3>2. \A e \in Earlier(tab, c, s[i]) : \E j \in 1 .. m : s[j] = e
      <4> SUFFICES ASSUME NEW e \in Earlier(tab, c, s[i]) PROVE \E j \in 1 .. m : s[j] = e
        OBVIOUS
      <4>1. PICK j \in 1 .. n : s[j] = e
        BY <2>3 DEF Lists
      <4> QED
        BY <2>1, <2>2, <4>1
    <3> QED
      BY <1>2, <2>1, <2>2, <3>1, <3>2
  <2> HIDE DEF front
  <2> QED
    BY <2>1, <2>4, CountedBy
<1>5. \A i \in 1 .. n : (CHOOSE k \in rows : Cardinality(Earlier(tab, c, k)) = i - 1) = s[i]
  <2> SUFFICES ASSUME NEW i \in 1 .. n
               PROVE  (CHOOSE k \in rows : Cardinality(Earlier(tab, c, k)) = i - 1) = s[i]
    OBVIOUS
  <2>1. s[i] \in rows /\ Cardinality(Earlier(tab, c, s[i])) = i - 1
    BY <1>4 DEF Lists
  <2>2. ASSUME NEW k \in rows, Cardinality(Earlier(tab, c, k)) = i - 1
        PROVE  k = s[i]
    <3>1. PICK j \in 1 .. n : s[j] = k
      BY DEF Lists
    <3>2. Cardinality(Earlier(tab, c, s[j])) = j - 1
      BY <1>4
    <3> QED
      BY <2>2, <3>1, <3>2
  <2> QED
    BY <2>1, <2>2
<1>6. Shown(tab, c) = [i \in 1 .. n |-> s[i]]
  BY <1>3, <1>5 DEF Shown
<1> QED
  BY <1>3, <1>6 DEF Lists

LEMMA NumbersLists ==
  ASSUME NEW tab, NEW c, NEW n \in Nat, NEW s, Numbers(tab, c, s, n)
  PROVE  Lists(tab, c, s, n)
BY DEF Numbers, Lists

LEMMA NumberedShown ==
  ASSUME NEW tab \in Table, NEW c, NEW n \in Nat, NEW s, Numbers(tab, c, s, n)
  PROVE  /\ Shown(tab, c) = s /\ Gapless(tab, c)
         /\ Cardinality(InColumn(tab, c)) = n
<1>1. Shown(tab, c) = s /\ Cardinality(InColumn(tab, c)) = n
  BY NumbersLists, OnlyList
<1>2. {tab[k].position : k \in InColumn(tab, c)} = 0 .. (n - 1)
  <2>1. \A k \in InColumn(tab, c) : tab[k].position \in 0 .. (n - 1)
    BY DEF Numbers
  <2>2. ASSUME NEW p \in 0 .. (n - 1)
        PROVE  \E k \in InColumn(tab, c) : tab[k].position = p
    <3>1. PICK i \in 1 .. n : i = p + 1
      OBVIOUS
    <3> QED
      BY <3>1 DEF Numbers
  <2> QED
    BY <2>1, <2>2
<1> QED
  BY <1>1, <1>2 DEF Gapless

(* Positions 0 .. n-1 on n cards: each once. *)
LEMMA GaplessNumbered ==
  ASSUME NEW tab \in Table, NEW c, Gapless(tab, c)
  PROVE  Numbers(tab, c, Shown(tab, c), Cardinality(InColumn(tab, c)))
<1> DEFINE rows == InColumn(tab, c)
           n == Cardinality(rows)
           place == [k \in rows |-> tab[k].position]
           s == [i \in 1 .. n |-> CHOOSE k \in rows : tab[k].position = i - 1]
<1>1. IsFiniteSet(rows) /\ n \in Nat
  BY ColumnFinite
<1>2. {tab[k].position : k \in rows} = 0 .. (n - 1)
  BY DEF Gapless
<1>3. IsFiniteSet(0 .. (n - 1)) /\ Cardinality(0 .. (n - 1)) = n
  BY <1>1, FS_Interval
<1>4. place \in Surjection(rows, 0 .. (n - 1))
  BY <1>2 DEF Surjection
<1>5. place \in Injection(rows, 0 .. (n - 1))
  BY <1>1, <1>3, <1>4, FS_Surjection
<1>6. \A j, k \in rows : tab[j].position = tab[k].position => j = k
  BY <1>5 DEF Injection, IsInjective
<1>7. ASSUME NEW i \in 1 .. n
      PROVE  s[i] \in rows /\ tab[s[i]].position = i - 1
  <2>1. \E k \in rows : tab[k].position = i - 1
    <3>1. PICK p \in 0 .. (n - 1) : p = i - 1
      BY <1>1
    <3> QED
      BY <1>2, <3>1
  <2> QED
    BY <2>1
<1>8. ASSUME NEW k \in rows
      PROVE  \E i \in 1 .. n : s[i] = k
  <2>1. PICK p \in 0 .. (n - 1) : p = tab[k].position
    BY <1>2
  <2>2. PICK i \in 1 .. n : i - 1 = p
    BY <1>1
  <2>3. s[i] \in rows /\ tab[s[i]].position = tab[k].position
    BY <1>7, <2>1, <2>2
  <2> QED
    BY <1>6, <2>3
<1>9. s = [i \in 1 .. n |-> s[i]]
  OBVIOUS
<1> HIDE DEF s, n, rows
<1>10. Numbers(tab, c, s, n)
  BY <1>7, <1>8, <1>9 DEF Numbers, rows
<1> QED
  BY <1>1, <1>10, NumberedShown DEF n, rows

(* Taking card k out of a column closes the gap it leaves: the list is the  *)
(* one without k, whether or not the others have moved up yet.              *)
LEMMA TakenOut ==
  ASSUME NEW tab \in Table, NEW c, Gapless(tab, c), NEW k \in InColumn(tab, c),
         NEW closed \in Table,
         InColumn(closed, c) = InColumn(tab, c) \ {k},
         \A j \in InColumn(closed, c) :
           closed[j].position = IF tab[j].position > tab[k].position
                                THEN tab[j].position - 1 ELSE tab[j].position
  PROVE  LET list == Shown([tab EXCEPT ![k] = None], c)
             n == Cardinality(InColumn(tab, c)) - 1
         IN n \in Nat /\ Numbers(closed, c, list, n) /\ list = [i \in 1 .. n |-> list[i]]
<1> DEFINE rest == [tab EXCEPT ![k] = None]
           rows == InColumn(tab, c)
           s == Shown(tab, c)
           list == [i \in 1 .. (Cardinality(rows) - 1) |->
                      IF i <= tab[k].position THEN s[i] ELSE s[i + 1]]
<1>1. PICK n \in Nat : n = Cardinality(rows)
  BY ColumnFinite
<1>2. Numbers(tab, c, s, n)
  BY <1>1, GaplessNumbered
<1>3. PICK at \in 1 .. n : s[at] = k /\ tab[k].position = at - 1
  BY <1>2 DEF Numbers
<1>4. PICK m \in Nat : m = n - 1
  BY <1>3
<1>5. list = [i \in 1 .. m |-> IF i < at THEN s[i] ELSE s[i + 1]]
  BY <1>1, <1>3, <1>4
<1>6. \A j \in rows : tab[j].position \in Nat
  BY PlaceType
<1>7. \A i, j \in 1 .. n : s[i] = s[j] => i = j
  BY <1>2 DEF Numbers
<1> HIDE DEF s, list
<1>8. ASSUME NEW i \in 1 .. m
      PROVE  list[i] \in rows \ {k} /\ tab[list[i]].position = IF i < at THEN i - 1 ELSE i
  <2>1. CASE i < at
    BY <1>2, <1>3, <1>4, <1>5, <1>7, <2>1 DEF Numbers
  <2>2. CASE i >= at
    <3>1. PICK j \in 1 .. n : j = i + 1
      BY <1>4
    <3>2. list[i] = s[j]
      BY <1>5, <2>2, <3>1
    <3>3. s[j] \in rows /\ tab[s[j]].position = j - 1 /\ s[j] # k
      BY <1>2, <1>3, <1>7, <2>2, <3>1 DEF Numbers
    <3> QED
      BY <2>2, <3>1, <3>2, <3>3
  <2> QED
    BY <2>1, <2>2
<1>9. ASSUME NEW j \in rows \ {k}
      PROVE  \E i \in 1 .. m : list[i] = j
  <2>1. PICK a \in 1 .. n : s[a] = j
    BY <1>2 DEF Numbers
  <2>2. a # at
    BY <1>3, <2>1
  <2>3. CASE a < at
    <3>1. a \in 1 .. m
      BY <1>4, <2>3
    <3> QED
      BY <1>5, <2>1, <2>3, <3>1
  <2>4. CASE a > at
    <3>1. PICK b \in 1 .. m : b = a - 1
      BY <1>4, <2>4
    <3>2. b + 1 = a /\ ~ (b < at)
      BY <2>4, <3>1
    <3> QED
      BY <1>5, <2>1, <3>2
  <2> QED
    BY <2>2, <2>3, <2>4
<1>10. list = [i \in 1 .. m |-> list[i]]
  BY <1>5
<1>11. Numbers(closed, c, list, m)
  <2>1. ASSUME NEW i \in 1 .. m
        PROVE  list[i] \in InColumn(closed, c) /\ closed[list[i]].position = i - 1
    <3>1. list[i] \in InColumn(closed, c)
      BY <1>8
    <3>2. closed[list[i]].position = IF tab[list[i]].position > at - 1
                                     THEN tab[list[i]].position - 1 ELSE tab[list[i]].position
      BY <1>3, <3>1
    <3> QED
      BY <1>8, <3>1, <3>2
  <2> QED
    BY <1>9, <1>10, <2>1 DEF Numbers
<1>12. rest \in Table /\ InColumn(rest, c) = rows \ {k}
  BY DEF InColumn, Table
<1>13. Lists(rest, c, list, m)
  <2>1. \A i \in 1 .. m : rest[list[i]] = tab[list[i]] /\ list[i] \in InColumn(rest, c)
    BY <1>8, <1>12 DEF InColumn, Table
  <2>2. \A i, j \in 1 .. m : i < j => tab[list[i]].position < tab[list[j]].position
    BY <1>8
  <2> QED
    BY <1>9, <1>10, <1>12, <2>1, <2>2 DEF Lists
<1>14. Shown(rest, c) = list
  BY <1>12, <1>13, OnlyList
<1> QED
  BY <1>1, <1>4, <1>10, <1>11, <1>14

LEMMA InsertedAt ==
  ASSUME NEW S, NEW s \in Seq(S), NEW i \in 1 .. (Len(s) + 1), NEW e \in S
  PROVE  /\ InsertAt(s, i, e) \in Seq(S)
         /\ Len(InsertAt(s, i, e)) = Len(s) + 1
         /\ \A j \in 1 .. (Len(s) + 1) :
              InsertAt(s, i, e)[j] =
                IF j < i THEN s[j] ELSE IF j = i THEN e ELSE s[j - 1]
<1> DEFINE front == SubSeq(s, 1, i - 1)
           back == SubSeq(s, i, Len(s))
<1>1. Len(s) \in Nat /\ i \in Int
  BY LenProperties
<1>2. Len(s) \in Nat /\ \A j \in 1 .. Len(s) : s[j] \in S
  BY LenProperties, ElementOfSeq
<1>3. /\ front \in Seq(S)
      /\ Len(front) = i - 1
      /\ \A j \in 1 .. (i - 1) : front[j] = s[j]
  BY <1>2, SubSeqProperties
<1>4. /\ back \in Seq(S)
      /\ Len(back) = Len(s) - i + 1
      /\ \A j \in 1 .. (Len(s) - i + 1) : back[j] = s[i + j - 1]
  BY <1>2, SubSeqProperties
<1>5. /\ << e >> \in Seq(S)
      /\ Len(<< e >>) = 1
      /\ << e >>[1] = e
  OBVIOUS
<1> HIDE DEF front, back
<1> DEFINE led == front \o << e >>
<1>6. /\ led \in Seq(S)
      /\ Len(led) = Len(front) + Len(<< e >>)
      /\ \A j \in 1 .. (Len(front) + Len(<< e >>)) :
           led[j] = IF j <= Len(front) THEN front[j] ELSE << e >>[j - Len(front)]
  BY <1>3, <1>5, ConcatProperties
<1> HIDE DEF led
<1>7. led \in Seq(S) /\ Len(led) = i /\ \A j \in 1 .. i : led[j] = IF j < i THEN s[j] ELSE e
  <2>1. Len(led) = i
    BY <1>3, <1>5, <1>6
  <2>2. ASSUME NEW j \in 1 .. i, j < i
        PROVE  led[j] = s[j]
    BY <1>3, <1>5, <1>6, <2>2
  <2>3. led[i] = e
    BY <1>3, <1>5, <1>6
  <2> QED
    BY <1>6, <2>1, <2>2, <2>3
<1> DEFINE all == led \o back
<1>8. /\ all \in Seq(S)
      /\ Len(all) = Len(s) + 1
      /\ \A j \in 1 .. (Len(s) + 1) :
           all[j] = IF j <= i THEN led[j] ELSE back[j - i]
  <2>1. /\ all \in Seq(S)
        /\ Len(all) = Len(led) + Len(back)
        /\ \A j \in 1 .. (Len(led) + Len(back)) :
             all[j] = IF j <= Len(led) THEN led[j] ELSE back[j - Len(led)]
    BY <1>4, <1>7, ConcatProperties
  <2> QED
    BY <1>2, <1>4, <1>6, <1>7, <2>1
<1>9. InsertAt(s, i, e) = all
  BY DEF InsertAt, led, front, back
<1> HIDE DEF all
<1>10. ASSUME NEW j \in 1 .. (Len(s) + 1)
      PROVE  all[j] = IF j < i THEN s[j] ELSE IF j = i THEN e ELSE s[j - 1]
  <2>1. CASE j <= i
    BY <2>1, <1>6, <1>7, <1>8
  <2>2. CASE j > i
    <3>1. j - i \in 1 .. (Len(s) - i + 1) /\ i + (j - i) - 1 = j - 1
      BY <1>2, <2>2
    <3> QED
      BY <1>2, <1>4, <1>8, <2>2, <3>1
  <2> QED
    BY <1>1, <2>1, <2>2
<1> QED
  BY <1>8, <1>9, <1>10

(* Putting card k in at position p moves the cards from there on up by one. *)
LEMMA PutIn ==
  ASSUME NEW tab, NEW c, NEW n \in Nat, NEW s, Numbers(tab, c, s, n),
         NEW k, k \notin InColumn(tab, c), NEW p \in 0 .. n,
         NEW opened, InColumn(opened, c) = InColumn(tab, c) \cup {k},
         opened[k].position = p,
         \A j \in InColumn(tab, c) :
           opened[j].position = IF tab[j].position >= p
                                THEN tab[j].position + 1 ELSE tab[j].position
  PROVE  Numbers(opened, c, InsertAt(s, p + 1, k), n + 1)
<1> DEFINE new == InsertAt(s, p + 1, k)
<1>1. new = [i \in 1 .. (n + 1) |->
               IF i <= p THEN s[i] ELSE IF i = p + 1 THEN k ELSE s[i - 1]]
  <2> DEFINE set == {s[j] : j \in 1 .. n} \cup {k}
  <2>1. s \in Seq(set) /\ Len(s) = n /\ k \in set
    <3>1. s = [j \in 1 .. n |-> s[j]] /\ \A j \in 1 .. n : s[j] \in set
      BY DEF Numbers
    <3>2. k \in set
      OBVIOUS
    <3> HIDE DEF set
    <3> QED
      BY <3>1, <3>2
  <2>2. PICK at \in 1 .. (Len(s) + 1) : at = p + 1
    BY <2>1
  <2> HIDE DEF set
  <2>3. /\ InsertAt(s, at, k) \in Seq(set)
        /\ Len(InsertAt(s, at, k)) = Len(s) + 1
        /\ \A j \in 1 .. (Len(s) + 1) :
             InsertAt(s, at, k)[j] = IF j < at THEN s[j] ELSE IF j = at THEN k ELSE s[j - 1]
    <3>1. s \in Seq(set) /\ k \in set /\ at \in 1 .. (Len(s) + 1)
      BY <2>1
    <3> QED
      BY ONLY <3>1, InsertedAt, SMTT(60)
  <2>4. new = InsertAt(s, at, k)
    BY <2>2
  <2> HIDE DEF new
  <2>5. new = [j \in 1 .. (n + 1) |-> new[j]]
    BY <2>1, <2>3, <2>4, LenProperties
  <2>6. \A j \in 1 .. (n + 1) :
          new[j] = IF j <= p THEN s[j] ELSE IF j = p + 1 THEN k ELSE s[j - 1]
    BY <2>1, <2>2, <2>3, <2>4
  <2> QED
    BY <2>5, <2>6
<1> HIDE DEF new
<1>2. ASSUME NEW i \in 1 .. (n + 1)
      PROVE  new[i] \in InColumn(opened, c) /\ opened[new[i]].position = i - 1
  <2>1. CASE i <= p
    <3>1. i \in 1 .. n /\ new[i] = s[i]
      <4>1. p \in Int /\ i \in Int /\ i \in 1 .. n
        BY <2>1
      <4> QED
        BY <1>1, <2>1, <4>1
    <3>2. s[i] \in InColumn(tab, c) /\ tab[s[i]].position = i - 1
      BY <3>1 DEF Numbers
    <3> QED
      BY <2>1, <3>1, <3>2
  <2>2. CASE i = p + 1
    BY <1>1, <2>2
  <2>3. CASE i > p + 1
    <3>1. PICK j \in 1 .. n : j = i - 1
      BY <2>3
    <3>2. new[i] = s[j]
      BY <1>1, <2>3, <3>1
    <3>3. s[j] \in InColumn(tab, c) /\ tab[s[j]].position = j - 1
      BY DEF Numbers
    <3> QED
      BY <2>3, <3>1, <3>2, <3>3
  <2> QED
    BY <2>1, <2>2, <2>3
<1>3. ASSUME NEW j \in InColumn(opened, c)
      PROVE  \E i \in 1 .. (n + 1) : new[i] = j
  <2>1. CASE j = k
    <3>1. PICK i \in 1 .. (n + 1) : i = p + 1
      OBVIOUS
    <3>2. new[i] = k
      BY <1>1, <3>1
    <3> QED
      BY <2>1, <3>2
  <2>2. CASE j # k
    <3>1. PICK a \in 1 .. n : s[a] = j
      BY <2>2 DEF Numbers
    <3>2. CASE a <= p
      BY <1>1, <3>1, <3>2
    <3>3. CASE a > p
      <4>1. PICK b \in 1 .. (n + 1) : b = a + 1
        OBVIOUS
      <4>2. new[b] = s[b - 1] /\ b - 1 = a
        BY <1>1, <3>3, <4>1
      <4> QED
        BY <3>1, <4>2
    <3> QED
      BY <3>2, <3>3
  <2> QED
    BY <2>1, <2>2
<1>4. new = [i \in 1 .. (n + 1) |-> new[i]]
  BY <1>1
<1> QED
  BY <1>2, <1>3, <1>4 DEF Numbers, new

-----------------------------------------------------------------------------
(* What a move alone does to the rows, and so to the lists. *)

(* done is tab with k at place in column to, the other rows where new has   *)
(* them: what CommitUpdate writes.                                          *)
Committed(tab, done, k, to, place, new) ==
  done = [j \in Cards |->
            IF tab[j] = None THEN None
            ELSE [column |-> IF j = k THEN to ELSE tab[j].column,
                  position |-> IF j = k THEN place ELSE new[j].position]]

LEMMA CommittedRows ==
  ASSUME NEW tab \in Table, NEW new, Rewritten(tab, new), NEW k \in Cards, tab[k] # None,
         NEW to \in Columns, NEW place \in Nat, NEW done, Committed(tab, done, k, to, place, new)
  PROVE  /\ done \in Table
         /\ done[k] = [column |-> to, position |-> place]
         /\ \A j \in Cards \ {k} : /\ done[j] = None <=> tab[j] = None
                                   /\ tab[j] # None => /\ done[j].column = tab[j].column
                                                       /\ done[j].position = new[j].position
<1>1. \A j \in Cards : tab[j] # None => tab[j] \in Row /\ new[j] \in Row
  BY DEF Rewritten, Table
<1>2. None \notin Row
  BY RowIsNotNone
<1> DEFINE row(j) == [column |-> IF j = k THEN to ELSE tab[j].column,
                      position |-> IF j = k THEN place ELSE new[j].position]
<1>3. \A j \in Cards : tab[j] # None => row(j) \in Row
  BY <1>1 DEF Row
<1>4. \A j \in Cards : done[j] = IF tab[j] = None THEN None ELSE row(j)
  BY DEF Committed
<1>5. done = [j \in Cards |-> done[j]]
  BY DEF Committed
<1>6. done \in Table
  BY <1>3, <1>4, <1>5 DEF Table
<1>7. \A j \in Cards : done[j] = None <=> tab[j] = None
  BY <1>2, <1>3, <1>4
<1>8. done[k] = [column |-> to, position |-> place]
  BY <1>4
<1>9. \A j \in Cards \ {k} : tab[j] # None
        => done[j].column = tab[j].column /\ done[j].position = new[j].position
  <2> SUFFICES ASSUME NEW j \in Cards \ {k}, tab[j] # None
               PROVE  done[j].column = tab[j].column /\ done[j].position = new[j].position
    OBVIOUS
  <2>1. done[j] = [column |-> tab[j].column, position |-> new[j].position]
    BY <1>4
  <2> QED
    BY <2>1
<1> QED
  BY <1>6, <1>7, <1>8, <1>9

LEMMA InDense ==
  ASSUME NEW tab \in Table, NEW c, Gapless(tab, c), NEW n \in Nat,
         n = Cardinality(InColumn(tab, c))
  PROVE  /\ \A j \in InColumn(tab, c) : tab[j] \in Row /\ tab[j].position \in 0 .. (n - 1)
         /\ \A i, j \in InColumn(tab, c) : tab[i].position = tab[j].position => i = j
<1>1. Numbers(tab, c, Shown(tab, c), n)
  BY GaplessNumbered
<1>2. \A j \in InColumn(tab, c) : tab[j] \in Row /\ tab[j].position \in 0 .. (n - 1)
  BY DEF Gapless, InColumn, Table
<1>3. \A i, j \in InColumn(tab, c) : tab[i].position = tab[j].position => i = j
  BY <1>1 DEF Numbers
<1> QED
  BY <1>2, <1>3

LEMMA StaysIn ==
  ASSUME NEW tab \in Table, NEW k \in Cards, tab[k] # None, NEW c, c = tab[k].column,
         Gapless(tab, c), NEW n \in Nat, n = Cardinality(InColumn(tab, c)),
         NEW place \in 0 .. (n - 1), NEW done,
         Committed(tab, done, k, c, place,
                   IF place = tab[k].position THEN tab
                   ELSE ReorderWithinColumn(tab, c, tab[k].position, place))
  PROVE  Numbers(done, c, InsertAt(Shown([tab EXCEPT ![k] = None], c), place + 1, k), n)
<1> DEFINE rows == InColumn(tab, c)
           old == tab[k].position
           reordered == ReorderWithinColumn(tab, c, old, place)
           new == IF place = old THEN tab ELSE reordered
           list == Shown([tab EXCEPT ![k] = None], c)
           closed == [j \in Cards |->
                        IF j = k THEN None
                        ELSE IF j \in rows /\ tab[j].position > old
                             THEN [column |-> c, position |-> tab[j].position - 1] ELSE tab[j]]
<1>1. /\ \A j \in rows : tab[j] \in Row /\ tab[j].position \in 0 .. (n - 1)
      /\ \A i, j \in rows : tab[i].position = tab[j].position => i = j
  BY InDense
<1>2. /\ \A j : j \in rows <=> j \in Cards /\ tab[j] # None /\ tab[j].column = c
      /\ k \in rows /\ rows \subseteq Cards
  BY DEF InColumn
<1>3. old \in 0 .. (n - 1) /\ c \in Columns
  BY <1>1, <1>2 DEF Row
<1>4. Rewritten(tab, new)
  BY <1>3, ReorderRows DEF Rewritten
<1>5. /\ done \in Table
      /\ done[k] = [column |-> c, position |-> place]
      /\ \A j \in Cards \ {k} : /\ done[j] = None <=> tab[j] = None
                                /\ tab[j] # None => /\ done[j].column = tab[j].column
                                                    /\ done[j].position = new[j].position
  <2> HIDE DEF new
  <2> QED
    BY <1>3, <1>4, CommittedRows DEF new
<1>6. InColumn(done, c) = rows
  <2>1. done[k] # None /\ done[k].column = c
    <3>1. done[k] \in Row
      BY <1>3, <1>5 DEF Row
    <3> QED
      BY <1>5, <3>1, RowIsNotNone
  <2> QED
    BY <1>2, <1>5, <2>1 DEF InColumn
<1>7. \A j \in rows \ {k} :
        new[j].position =
          IF old < tab[j].position /\ tab[j].position <= place THEN tab[j].position - 1
          ELSE IF place <= tab[j].position /\ tab[j].position < old THEN tab[j].position + 1
          ELSE tab[j].position
  <2> SUFFICES ASSUME NEW j \in rows \ {k}
               PROVE  new[j].position =
                        IF old < tab[j].position /\ tab[j].position <= place
                        THEN tab[j].position - 1
                        ELSE IF place <= tab[j].position /\ tab[j].position < old
                        THEN tab[j].position + 1 ELSE tab[j].position
    OBVIOUS
  <2>1. CASE place = old
    BY <1>1, <1>3, <2>1
  <2>2. CASE place # old
    <3>1. Within(old, n - 1) = old /\ Within(place, n - 1) = place
      BY <1>3 DEF Within
    <3>2. reordered = IF old < place THEN Shifted(tab, Band(tab, c, old + 1, place), -1)
                      ELSE Shifted(tab, Band(tab, c, place, old - 1), 1)
      BY <3>1 DEF ReorderWithinColumn
    <3>3. \A lo, hi : j \in Band(tab, c, lo, hi) <=> tab[j].position \in lo .. hi
      BY DEF Band
    <3>4. tab[j] \in Row /\ j \in Cards
      BY <1>1, <1>2
    <3>5. \A set, by : Shifted(tab, set, by)[j].position =
                         IF j \in set THEN tab[j].position + by ELSE tab[j].position
      BY <3>4 DEF Shifted, Row
    <3>6. tab[j].position \in Nat
      BY <3>4 DEF Row
    <3>7. CASE old < place
      <4>1. reordered[j].position = IF tab[j].position \in (old + 1) .. place
                                    THEN tab[j].position + (-1) ELSE tab[j].position
        BY <3>2, <3>3, <3>5, <3>7
      <4>2. new = reordered
        BY <2>2
      <4> HIDE DEF new, reordered
      <4> QED
        BY <1>3, <3>6, <3>7, <4>1, <4>2
    <3>8. CASE ~ (old < place)
      <4>1. reordered[j].position = IF tab[j].position \in place .. (old - 1)
                                    THEN tab[j].position + 1 ELSE tab[j].position
        BY <3>2, <3>3, <3>5, <3>8
      <4>2. new = reordered
        BY <2>2
      <4> HIDE DEF new, reordered
      <4> QED
        BY <1>3, <3>6, <3>8, <4>1, <4>2
    <3> QED
      BY <3>7, <3>8
  <2> QED
    BY <2>1, <2>2
<1> HIDE DEF rows, new
<1>8. /\ closed \in Table /\ InColumn(closed, c) = rows \ {k}
      /\ \A j \in rows \ {k} :
           closed[j].position = IF tab[j].position > old THEN tab[j].position - 1
                                ELSE tab[j].position
  <2>1. \A j \in rows \ {k} : tab[j].position > old => tab[j].position - 1 \in Nat
    BY <1>1, <1>3
  <2>2. \A j \in rows \ {k} : tab[j].position > old
           => [column |-> c, position |-> tab[j].position - 1] \in Row
    BY <1>3, <2>1 DEF Row
  <2>3. \A j \in Cards : closed[j] \in Row \cup {None}
    BY <1>2, <2>2 DEF Table
  <2>4. closed \in Table
    BY <2>3 DEF Table
  <2>5. \A j \in Cards : closed[j] # None /\ closed[j].column = c <=> j \in rows \ {k}
    BY <1>2, <2>2, RowIsNotNone
  <2>6. InColumn(closed, c) = rows \ {k}
    <3> HIDE DEF closed
    <3> QED
      BY <1>2, <2>5 DEF InColumn
  <2>7. \A j \in rows \ {k} :
           closed[j].position = IF tab[j].position > old THEN tab[j].position - 1
                                ELSE tab[j].position
    BY <1>2
  <2> QED
    BY <2>4, <2>6, <2>7
<1> HIDE DEF closed
<1>9. PICK m \in Nat : m = n - 1 /\ Numbers(closed, c, list, m)
  <2> DEFINE l == Cardinality(InColumn(tab, c)) - 1
  <2>1. l \in Nat /\ Numbers(closed, c, list, l)
    <3>1. k \in InColumn(tab, c) /\ InColumn(closed, c) = InColumn(tab, c) \ {k}
      BY <1>2, <1>8 DEF rows
    <3>2. \A j \in InColumn(closed, c) :
            closed[j].position = IF tab[j].position > tab[k].position
                                 THEN tab[j].position - 1 ELSE tab[j].position
      BY <1>8
    <3> HIDE DEF list
    <3> QED
      BY <1>8, <3>1, <3>2, TakenOut DEF list
  <2> QED
    BY <2>1
<1> HIDE DEF list
<1>10. \A j \in rows \ {k} :
         done[j].position = IF closed[j].position >= place THEN closed[j].position + 1
                            ELSE closed[j].position
  <2> SUFFICES ASSUME NEW j \in rows \ {k}
               PROVE  done[j].position = IF closed[j].position >= place
                                         THEN closed[j].position + 1 ELSE closed[j].position
    OBVIOUS
  <2>1. done[j].position = new[j].position
    BY <1>2, <1>5
  <2>2. PICK p \in 0 .. (n - 1) : p = tab[j].position /\ p # old
    BY <1>1, <1>2
  <2>3. closed[j].position = IF p > old THEN p - 1 ELSE p
    BY <1>8, <2>2
  <2>4. new[j].position = IF old < p /\ p <= place THEN p - 1
                          ELSE IF place <= p /\ p < old THEN p + 1 ELSE p
    BY <1>7, <2>2
  <2>5. PICK o \in 0 .. (n - 1) : o = old
    BY <1>3
  <2> QED
    BY <2>1, <2>2, <2>3, <2>4, <2>5
<1>11. Numbers(done, c, InsertAt(list, place + 1, k), m + 1)
  <2>1. k \notin InColumn(closed, c) /\ InColumn(done, c) = InColumn(closed, c) \cup {k}
    BY <1>2, <1>6, <1>8
  <2>2. done[k].position = place /\ place \in 0 .. m
    BY <1>5, <1>9
  <2>3. \A j \in InColumn(closed, c) :
          done[j].position = IF closed[j].position >= place THEN closed[j].position + 1
                             ELSE closed[j].position
    BY <1>8, <1>10
  <2> QED
    BY <1>9, <2>1, <2>2, <2>3, PutIn
<1> QED
  BY <1>9, <1>11 DEF list

LEMMA MaxOfDense ==
  ASSUME NEW n \in Nat
  PROVE  MaxOf(0 .. (n - 1)) = n - 1
<1>1. CASE n = 0
  BY <1>1 DEF MaxOf
<1>2. CASE n # 0
  <2>1. PICK last \in 0 .. (n - 1) : last = n - 1
    BY <1>2
  <2>2. \A m \in 0 .. (n - 1) : (\A i \in 0 .. (n - 1) : i <= m) <=> m = last
    BY <2>1
  <2>3. (CHOOSE m \in 0 .. (n - 1) : \A i \in 0 .. (n - 1) : i <= m) = last
    BY <2>2
  <2>4. 0 .. (n - 1) # {}
    BY <2>1
  <2> QED
    BY <2>1, <2>3, <2>4 DEF MaxOf
<1> QED
  BY <1>1, <1>2

(* A move to another column takes the card out of the list of its old one  *)
(* and puts it into the list of the new one, at the place asked for.       *)
LEMMA Crosses ==
  ASSUME NEW tab \in Table, NEW k \in Cards, tab[k] # None,
         NEW from, from = tab[k].column, Gapless(tab, from),
         NEW to \in Columns, to # from, Gapless(tab, to),
         NEW n \in Nat, n = Cardinality(InColumn(tab, to)),
         NEW place \in 0 .. n, place # None, NEW done,
         Committed(tab, done, k, to, place, Rearranged(tab, k, tab[k], place, to))
  PROVE  /\ Numbers(done, to, InsertAt(Shown([tab EXCEPT ![k] = None], to), place + 1, k), n + 1)
         /\ \E m \in Nat : Numbers(done, from, Shown([tab EXCEPT ![k] = None], from), m)
<1> DEFINE rest == [tab EXCEPT ![k] = None]
           old == tab[k].position
           left == RemoveFromColumn(tab, from, old)
           new == InsertIntoColumn(left, to, place)
           s == Shown(tab, to)
<1>1. tab[k] \in Row /\ old \in Nat
  BY DEF Table, Row
<1>2. \A c : InColumn(tab, c) = {j \in Cards : tab[j] # None /\ tab[j].column = c}
  BY DEF InColumn
<1>3. left \in Table
  BY <1>1, RemoveRows DEF Rewritten
<1>4. ASSUME NEW j \in Cards, tab[j] # None
      PROVE  /\ left[j] # None /\ left[j].column = tab[j].column
             /\ left[j].position = IF tab[j].column = from /\ tab[j].position > old
                                   THEN tab[j].position - 1 ELSE tab[j].position
  <2>1. tab[j] \in Row /\ tab[j].position \in Nat
    BY <1>4 DEF Table, Row
  <2>2. j \in From(tab, from, old + 1) <=> tab[j].column = from /\ tab[j].position > old
    BY <1>1, <1>4, <2>1 DEF From, InColumn
  <2>3. left[j] = IF j \in From(tab, from, old + 1)
                  THEN [tab[j] EXCEPT !.position = @ + (-1)] ELSE tab[j]
    BY DEF RemoveFromColumn, Shifted
  <2>4. CASE j \in From(tab, from, old + 1)
    <3>1. /\ left[j].column = tab[j].column /\ left[j].position = tab[j].position - 1
      BY <2>1, <2>3, <2>4 DEF Row
    <3>2. left[j] = [column |-> tab[j].column, position |-> tab[j].position - 1]
      BY <2>1, <2>3, <2>4 DEF Row
    <3>3. left[j] \in Row
      BY <1>1, <2>1, <2>2, <2>4, <3>2 DEF Row
    <3> HIDE DEF left
    <3> QED
      BY <2>2, <2>4, <3>1, <3>3, RowIsNotNone
  <2>5. CASE j \notin From(tab, from, old + 1)
    <3> HIDE DEF left
    <3> QED
      BY <1>4, <2>2, <2>3, <2>5
  <2> HIDE DEF left
  <2> QED
    BY <2>4, <2>5
<1>5. \A j \in Cards : tab[j] = None => left[j] = None
  BY DEF RemoveFromColumn, Shifted, From, InColumn
<1> HIDE DEF left
<1>6. /\ InColumn(left, to) = InColumn(tab, to)
      /\ \A j \in InColumn(tab, to) : left[j].position = tab[j].position
  BY <1>4, <1>5 DEF InColumn
<1>7. MaxPositionInColumn(left, to) + 1 = n
  <2>1. {left[j].position : j \in InColumn(left, to)} = 0 .. (n - 1)
    BY <1>6 DEF Gapless
  <2>2. MaxPositionInColumn(left, to) = n - 1
    BY <2>1, MaxOfDense DEF MaxPositionInColumn
  <2> QED
    BY <2>2
<1>8. Rearranged(tab, k, tab[k], place, to) = new
  <2>1. ~ (place > MaxPositionInColumn(left, to) + 1)
    BY <1>7
  <2> QED
    BY <2>1 DEF Rearranged, left
<1>9. Rewritten(tab, new)
  <2>2. Rewritten(left, new)
    BY <1>3, InsertRows
  <2>3. Rewritten(tab, left)
    BY <1>1, RemoveRows DEF left
  <2> HIDE DEF new
  <2> QED
    BY <2>2, <2>3 DEF Rewritten
<1>10. ASSUME NEW j \in Cards, tab[j] # None
       PROVE  new[j].position = IF tab[j].column = to /\ left[j].position >= place
                                THEN left[j].position + 1 ELSE left[j].position
  <2>1. left[j] \in Row
    BY <1>3, <1>4, <1>10 DEF Table
  <2>2. j \in From(left, to, place) <=> tab[j].column = to /\ left[j].position >= place
    BY <1>4, <1>10 DEF From, InColumn
  <2>3. new[j] = IF j \in From(left, to, place)
                 THEN [left[j] EXCEPT !.position = @ + 1] ELSE left[j]
    BY DEF InsertIntoColumn, Shifted
  <2> HIDE DEF new
  <2> QED
    BY <2>1, <2>2, <2>3 DEF Row
<1>11. /\ done \in Table
       /\ done[k] = [column |-> to, position |-> place]
       /\ \A j \in Cards \ {k} : /\ done[j] = None <=> tab[j] = None
                                 /\ tab[j] # None => /\ done[j].column = tab[j].column
                                                     /\ done[j].position = new[j].position
  <2> HIDE DEF new
  <2> QED
    BY <1>8, <1>9, CommittedRows
<1> HIDE DEF new
<1>12. done[k] # None /\ done[k].column = to /\ done[k].position = place
  <2>1. done[k] \in Row
    BY <1>11 DEF Row
  <2> QED
    BY <1>11, <2>1, RowIsNotNone
<1>13. /\ InColumn(done, to) = InColumn(tab, to) \cup {k} /\ k \notin InColumn(tab, to)
       /\ InColumn(done, from) = InColumn(tab, from) \ {k} /\ k \in InColumn(tab, from)
  BY <1>11, <1>12 DEF InColumn
<1>14. Numbers(tab, to, s, n)
  BY GaplessNumbered
<1>15. Shown(rest, to) = s
  <2>1. rest \in Table /\ InColumn(rest, to) = InColumn(tab, to)
        /\ \A j \in InColumn(tab, to) : rest[j] = tab[j]
    BY <1>13 DEF InColumn, Table
  <2>2. Lists(tab, to, s, n)
    BY <1>14, NumbersLists
  <2> HIDE DEF rest, s
  <2>3. Lists(rest, to, s, n)
    BY <2>1, <2>2 DEF Lists
  <2> QED
    BY <2>1, <2>3, OnlyList
<1> HIDE DEF rest, s
<1>16. Numbers(done, to, InsertAt(s, place + 1, k), n + 1)
  <2>1. \A j \in InColumn(tab, to) :
          done[j].position = IF tab[j].position >= place
                             THEN tab[j].position + 1 ELSE tab[j].position
    <3> SUFFICES ASSUME NEW j \in InColumn(tab, to)
                 PROVE  done[j].position = IF tab[j].position >= place
                                           THEN tab[j].position + 1 ELSE tab[j].position
      OBVIOUS
    <3>1. j \in Cards \ {k} /\ tab[j] # None /\ tab[j].column = to
      BY <1>2, <1>13
    <3>2. left[j].position = tab[j].position
      BY <1>6
    <3> QED
      BY <1>10, <1>11, <3>1, <3>2
  <2> QED
    BY <1>12, <1>13, <1>14, <2>1, PutIn
<1>17. \E m \in Nat : Numbers(done, from, Shown(rest, from), m)
  <2>1. \A j \in InColumn(done, from) :
          done[j].position = IF tab[j].position > old
                             THEN tab[j].position - 1 ELSE tab[j].position
    <3> SUFFICES ASSUME NEW j \in InColumn(done, from)
                 PROVE  done[j].position = IF tab[j].position > old
                                           THEN tab[j].position - 1 ELSE tab[j].position
      OBVIOUS
    <3>1. j \in Cards \ {k} /\ tab[j] # None /\ tab[j].column = from
      BY <1>2, <1>13
    <3> QED
      BY <1>4, <1>10, <1>11, <3>1
  <2>2. LET m == Cardinality(InColumn(tab, from)) - 1
        IN m \in Nat /\ Numbers(done, from, Shown(rest, from), m)
    BY <1>11, <1>13, <2>1, TakenOut DEF rest
  <2> QED
    BY <2>2
<1> QED
  BY <1>15, <1>16, <1>17 DEF rest

-----------------------------------------------------------------------------
(* A request that has been alone. *)

(* r has been alone: the others are idle, the cards are those it began     *)
(* with, and what it holds was computed from them.                         *)
Alone(r) ==
  /\ \A o \in Requests \ {r} : req[o] = Idle
  /\ seen[r].before = card
  /\ req[r].at \in {"update", "shifted"} => card[req[r].card] = req[r].old
  /\ req[r].at = "shifted" =>
       LET q   == req[r]
           new == Rearranged(card, q.card, q.old, q.place,
                             IF q.to = None THEN q.old.column ELSE q.to)
       IN q.rows = [k \in {j \in Cards : new[j] # card[j]} |-> new[k].position]

AloneInv ==
  /\ seen = [r \in Requests |-> [alone |-> seen[r].alone, before |-> seen[r].before]]
  /\ \A r \in Requests : req[r] # Idle /\ seen[r].alone => Alone(r)

(* r begins, and holds rows of the cards there are.                        *)
Begins(r) ==
  \E rec : /\ Begin(r, rec) /\ Nothing
           /\ rec.at = "update" => rec.old = card[rec.card]
           /\ rec.at # "shifted"
           /\ rec.at = "remove" => rec.card \in Cards
           /\ rec.at = "save" => \A k \in DOMAIN rec.rows : k \in Cards /\ card[k] # None
           /\ rec.at = "moveAll" => \A k \in rec.cards : k \in Cards /\ card[k] # None

LEMMA BeginsOther ==
  ASSUME NEW r \in Requests, NEW rec, Begin(r, rec), Nothing,
         rec.at \notin {"update", "shifted", "remove", "save", "moveAll"}
  PROVE  Begins(r)
BY DEF Begins

(* A step begins a request, reads for an update or answers. *)
LEMMA StepKinds ==
  ASSUME NEW r \in Requests, CardsController(r) \/ ColumnsController(r)
  PROVE  Begins(r) \/ ShiftCards(r) \/ (req[r] # Idle /\ Answer(r))
<1>1. CASE CreateCard(r)
  <2>1. PICK c \in Columns, place \in Places \cup {None} :
          /\ Begin(r, [at |-> "create", column |-> c,
                       position |-> IF place = None THEN MaxPositionInColumn(card, c) + 1
                                    ELSE place])
          /\ Nothing
    BY <1>1 DEF CreateCard
  <2> DEFINE rec == [at |-> "create", column |-> c,
                     position |-> IF place = None THEN MaxPositionInColumn(card, c) + 1
                                  ELSE place]
  <2>2. rec.at = "create"
    OBVIOUS
  <2> HIDE DEF rec
  <2> QED
    BY <2>1, <2>2, BeginsOther DEF rec
<1>2. CASE UpdateCard(r)
  <2>1. PICK k \in Cards, to \in Columns \cup {None}, place \in Places \cup {None} :
          /\ Begin(r, [at |-> "update", card |-> k, old |-> card[k], to |-> to,
                       place |-> place])
          /\ Nothing
    BY <1>2 DEF UpdateCard
  <2> DEFINE rec == [at |-> "update", card |-> k, old |-> card[k], to |-> to,
                     place |-> place]
  <2>2. rec.at = "update" /\ rec.old = card[rec.card]
    OBVIOUS
  <2> HIDE DEF rec
  <2> QED
    BY <2>1, <2>2 DEF rec, Begins
<1>3. CASE RemoveCard(r)
  <2>1. PICK k \in Cards : Begin(r, [at |-> "remove", card |-> k]) /\ Nothing
    BY <1>3 DEF RemoveCard
  <2> DEFINE rec == [at |-> "remove", card |-> k]
  <2>2. rec.at = "remove" /\ rec.card \in Cards
    OBVIOUS
  <2> HIDE DEF rec
  <2> QED
    BY <2>1, <2>2 DEF rec, Begins
<1>4. CASE CreateColumn(r)
  <2>1. PICK b \in Boards :
          /\ Begin(r, [at |-> "createColumn",
                       row |-> [board |-> b,
                                position |-> MaxOf({columns[c].position : c \in OnBoard(b)})
                                             + 1]])
          /\ Nothing
    BY <1>4 DEF CreateColumn
  <2> DEFINE rec == [at |-> "createColumn",
                     row |-> [board |-> b,
                              position |-> MaxOf({columns[c].position : c \in OnBoard(b)})
                                           + 1]]
  <2>2. rec.at = "createColumn"
    OBVIOUS
  <2> HIDE DEF rec
  <2> QED
    BY <2>1, <2>2, BeginsOther DEF rec
<1>5. CASE UpdateColumn(r)
  <2>1. PICK c \in Columns :
          Begin(r, [at |-> "updateColumn", column |-> c, row |-> columns[c]]) /\ Nothing
    BY <1>5 DEF UpdateColumn
  <2> QED
    BY <2>1, BeginsOther
<1>6. CASE RemoveColumn(r)
  <2>1. PICK c \in Columns : Begin(r, [at |-> "removeColumn", column |-> c]) /\ Nothing
    BY <1>6 DEF RemoveColumn
  <2> QED
    BY <2>1, BeginsOther
<1>7. CASE SortCards(r)
  <2> DEFINE Rows(c, desc) ==
               [k \in InColumn(card, c) |->
                  [column |-> c,
                   position |-> Cardinality({j \in InColumn(card, c) :
                                               IF desc THEN k < j ELSE j < k})]]
  <2>1. PICK c \in Columns, desc \in BOOLEAN :
          Begin(r, [at |-> "save", rows |-> Rows(c, desc)]) /\ Nothing
    BY <1>7 DEF SortCards
  <2> DEFINE rec == [at |-> "save", rows |-> Rows(c, desc)]
  <2>2. rec.at = "save" /\ \A k \in DOMAIN rec.rows : k \in Cards /\ card[k] # None
    BY DEF InColumn
  <2> HIDE DEF rec
  <2> QED
    BY <2>1, <2>2 DEF rec, Begins
<1>8. CASE MoveAllCards(r)
  <2>1. PICK source \in Columns, target \in Columns :
          /\ Begin(r, [at |-> "moveAll", cards |-> InColumn(card, source),
                       target |-> target])
          /\ Nothing
    BY <1>8 DEF MoveAllCards
  <2> DEFINE rec == [at |-> "moveAll", cards |-> InColumn(card, source), target |-> target]
  <2>2. rec.at = "moveAll" /\ \A k \in rec.cards : k \in Cards /\ card[k] # None
    BY DEF InColumn
  <2> HIDE DEF rec
  <2> QED
    BY <2>1, <2>2 DEF rec, Begins
<1>9. CASE \/ InsertCard(r) \/ CommitUpdate(r) \/ DeadlockedUpdate(r) \/ DeleteCard(r)
           \/ InsertColumn(r) \/ SaveColumn(r) \/ DropColumn(r) \/ SaveSorted(r)
           \/ SaveMoved(r)
  <2>1. Idle.at = "idle"
    BY DEF Idle
  <2>2. Answer(r) /\ req[r].at # "idle"
    BY <1>9 DEF InsertCard, CommitUpdate, DeadlockedUpdate, DeleteCard, InsertColumn,
                SaveColumn, DropColumn, SaveSorted, SaveMoved
  <2> QED
    BY <2>1, <2>2
<1> QED
  BY <1>1, <1>2, <1>3, <1>4, <1>5, <1>6, <1>7, <1>8, <1>9
     DEF CardsController, ColumnsController

(* Only r ends r, and not by beginning or reading. *)
LEMMA EndsBy ==
  ASSUME PlacedInv, [Next]_vars, NEW r \in Requests, Ends(r)
  PROVE  /\ CardsController(r) \/ ColumnsController(r)
         /\ ~ (\E rec : Begin(r, rec))
<1>1. req[r] # Idle /\ req'[r] = Idle
  BY DEF Ends
<1>2. PICK o \in Requests : CardsController(o) \/ ColumnsController(o)
  BY <1>1 DEF Next, vars
<1>3. \E rec : req' = [req EXCEPT ![o] = rec]
  BY <1>2, StepKinds DEF Begins, Begin, ShiftCards, Answer
<1>4. o = r
  BY <1>1, <1>3 DEF PlacedInv
<1> QED
  BY <1>1, <1>2, <1>4 DEF Begin

LEMMA AloneInit == Init => AloneInv
BY DEF Init, AloneInv, Unseen

LEMMA AloneNext == PlacedInv /\ AloneInv /\ [Next]_vars => AloneInv'
<1> SUFFICES ASSUME PlacedInv, AloneInv, [Next]_vars
             PROVE  AloneInv'
  OBVIOUS
<1> DEFINE Typed == seen = [o \in Requests |-> [alone |-> seen[o].alone,
                                                before |-> seen[o].before]]
<1>1. CASE UNCHANGED vars
  BY <1>1 DEF vars, AloneInv, Alone
<1>2. ASSUME NEW r \in Requests, CardsController(r) \/ ColumnsController(r)
      PROVE  AloneInv'
  <2>1. CASE Begins(r)
    <3>1. PICK rec : /\ Begin(r, rec) /\ UNCHANGED card
                     /\ rec.at = "update" => rec.old = card[rec.card]
                     /\ rec.at # "shifted"
      BY <2>1 DEF Begins, Nothing
    <3>2. /\ req[r] = Idle
          /\ req' = [o \in Requests |-> IF o = r THEN rec ELSE req[o]]
          /\ seen' = [o \in Requests |->
                        IF o = r THEN [alone |-> \A p \in Requests \ {r} : req[p] = Idle,
                                       before |-> card]
                        ELSE IF req[o] = Idle THEN seen[o]
                        ELSE [seen[o] EXCEPT !.alone = FALSE]]
      BY <3>1 DEF Begin, PlacedInv
    <3>3. \A o \in Requests : o # r =>
            seen'[o] = IF req[o] = Idle THEN seen[o]
                       ELSE [alone |-> FALSE, before |-> seen[o].before]
      <4> SUFFICES ASSUME NEW o \in Requests, o # r, req[o] # Idle
                   PROVE  seen'[o] = [alone |-> FALSE, before |-> seen[o].before]
        BY <3>2
      <4>1. seen[o] = [alone |-> seen[o].alone, before |-> seen[o].before]
        BY DEF AloneInv
      <4>2. seen'[o] = [seen[o] EXCEPT !.alone = FALSE]
        BY <3>2
      <4> QED
        BY <4>1, <4>2
    <3>4. seen'[r] = [alone |-> \A p \in Requests \ {r} : req[p] = Idle, before |-> card]
      BY <3>2
    <3>5. ASSUME NEW o \in Requests
          PROVE  seen'[o] = [alone |-> seen'[o].alone, before |-> seen'[o].before]
      <4>1. CASE o = r
        BY <3>4, <4>1
      <4>2. CASE o # r /\ req[o] = Idle
        BY <3>3, <4>2 DEF AloneInv
      <4>3. CASE o # r /\ req[o] # Idle
        <5>1. seen'[o] = [alone |-> FALSE, before |-> seen[o].before]
          BY <3>3, <4>3
        <5> QED
          BY <5>1
      <4> QED
        BY <4>1, <4>2, <4>3
    <3>6. Typed'
      BY <3>2, <3>5
    <3>7. ASSUME NEW o \in Requests, req'[o] # Idle, seen'[o].alone
          PROVE  Alone(o)'
      <4>1. o = r
        BY <3>2, <3>3, <3>7
      <4>2. \A p \in Requests \ {r} : req'[p] = Idle
        BY <3>2, <3>4, <3>7, <4>1
      <4>3. seen'[r].before = card' /\ req'[r] = rec
        BY <3>1, <3>2, <3>4
      <4> QED
        BY <3>1, <4>1, <4>2, <4>3 DEF Alone
    <3> QED
      BY <3>6, <3>7 DEF AloneInv
  <2>2. CASE ShiftCards(r)
    <3> DEFINE q == req[r]
               new == Rearranged(card, q.card, q.old, q.place,
                                 IF q.to = None THEN q.old.column ELSE q.to)
               rec == [at |-> "shifted", card |-> q.card, old |-> q.old,
                       to |-> q.to, place |-> q.place,
                       rows |-> [k \in {j \in Cards : new[j] # card[j]} |-> new[k].position]]
    <3>1. /\ q.at = "update" /\ req' = [req EXCEPT ![r] = rec]
          /\ UNCHANGED << card, seen >>
      BY <2>2 DEF ShiftCards
    <3>2. /\ q # Idle /\ req' = [o \in Requests |-> IF o = r THEN rec ELSE req[o]]
      <4>1. Idle.at = "idle"
        BY DEF Idle
      <4> HIDE DEF rec
      <4> QED
        BY <3>1, <4>1 DEF PlacedInv
    <3>3. ASSUME NEW o \in Requests, req'[o] # Idle, seen'[o].alone
          PROVE  Alone(o)'
      <4>1. o = r
        <5> SUFFICES ASSUME o # r PROVE FALSE
          OBVIOUS
        <5>1. req[o] # Idle /\ seen[o].alone
          BY <3>1, <3>2, <3>3
        <5> HIDE DEF rec
        <5> QED
          BY <3>2, <5>1 DEF AloneInv, Alone
      <4>2. /\ \A p \in Requests \ {r} : req[p] = Idle
            /\ seen[r].before = card /\ card[q.card] = q.old
        BY <3>1, <3>2, <3>3, <4>1 DEF AloneInv, Alone
      <4>3. req'[r] = rec
        BY <3>2
      <4>4. \A p \in Requests \ {r} : req'[p] = Idle
        BY <3>2, <4>2
      <4>5. /\ req'[r].at = "shifted" /\ req'[r].card = q.card /\ req'[r].old = q.old
            /\ req'[r].to = q.to /\ req'[r].place = q.place
            /\ req'[r].rows = [k \in {j \in Cards : new[j] # card[j]} |-> new[k].position]
        BY <4>3
      <4> HIDE DEF rec
      <4> QED
        BY <3>1, <4>1, <4>2, <4>4, <4>5 DEF Alone
    <3> QED
      BY <3>1, <3>3 DEF AloneInv
  <2>3. CASE req[r] # Idle /\ Answer(r)
    <3>1. /\ req' = [o \in Requests |-> IF o = r THEN Idle ELSE req[o]]
          /\ seen' = [o \in Requests |-> IF o = r THEN Unseen ELSE seen[o]]
      BY <2>3 DEF Answer, PlacedInv, AloneInv
    <3>2. Typed'
      BY <3>1 DEF AloneInv, Unseen
    <3>3. ASSUME NEW o \in Requests, req'[o] # Idle, seen'[o].alone
          PROVE  Alone(o)'
      BY <2>3, <3>1, <3>3 DEF AloneInv, Alone
    <3> QED
      BY <3>2, <3>3 DEF AloneInv
  <2> QED
    BY <1>2, <2>1, <2>2, <2>3, StepKinds
<1> QED
  BY <1>1, <1>2 DEF Next

(* Only its own commit ends a move that has been alone, and it writes the  *)
(* rows computed from the cards the move began with.                       *)
LEMMA EndOfMove ==
  ASSUME PlacedInv, AloneInv, [Next]_vars, NEW r \in Requests,
         Ends(r), req[r].at = "shifted", seen[r].alone, req[r].place # None,
         req[r].to = None \/ columns[req[r].to] # None
  PROVE  LET q  == req[r]
             to == IF q.to = None THEN q.old.column ELSE q.to
         IN /\ seen[r].before = card /\ card[q.card] = q.old
            /\ Committed(card, card', q.card, to, q.place,
                         Rearranged(card, q.card, q.old, q.place, to))
<1> DEFINE q == req[r]
           to == IF q.to = None THEN q.old.column ELSE q.to
           new == Rearranged(card, q.card, q.old, q.place, to)
           Pos(k) == IF k = q.card /\ q.place # None THEN q.place
                     ELSE IF k \in DOMAIN q.rows THEN q.rows[k]
                     ELSE card[k].position
           Col(k) == IF k = q.card /\ q.to # None THEN q.to ELSE card[k].column
<1>1. /\ \A o \in Requests \ {r} : req[o] = Idle
      /\ seen[r].before = card /\ card[q.card] = q.old
      /\ q.rows = [k \in {j \in Cards : new[j] # card[j]} |-> new[k].position]
  BY DEF AloneInv, Alone, Ends
<1>2. q # Idle /\ req'[r] = Idle
  BY DEF Ends
<1>3. /\ CardsController(r) \/ ColumnsController(r)
      /\ ~ (\E rec : Begin(r, rec))
  BY EndsBy
<1>5. CommitUpdate(r)
  <2>1. ~ DeadlockedUpdate(r)
    <3>1. Idle.at # "shifted"
      BY DEF Idle
    <3> QED
      BY <1>1, <3>1 DEF DeadlockedUpdate
  <2>2. ~ ShiftCards(r)
    BY DEF ShiftCards
  <2>4. /\ ~ CreateCard(r) /\ ~ UpdateCard(r) /\ ~ RemoveCard(r)
        /\ ~ CreateColumn(r) /\ ~ UpdateColumn(r) /\ ~ RemoveColumn(r)
        /\ ~ SortCards(r) /\ ~ MoveAllCards(r)
    BY <1>3 DEF CreateCard, UpdateCard, RemoveCard, CreateColumn, UpdateColumn,
                RemoveColumn, SortCards, MoveAllCards
  <2>5. /\ ~ InsertCard(r) /\ ~ DeleteCard(r) /\ ~ InsertColumn(r) /\ ~ SaveColumn(r)
        /\ ~ DropColumn(r) /\ ~ SaveSorted(r) /\ ~ SaveMoved(r)
    BY DEF InsertCard, DeleteCard, InsertColumn, SaveColumn, DropColumn, SaveSorted, SaveMoved
  <2> QED
    BY <1>3, <2>1, <2>2, <2>4, <2>5 DEF CardsController, ColumnsController
<1>6. card' = [k \in Cards |-> IF card[k] = None THEN None
                               ELSE [column |-> Col(k), position |-> Pos(k)]]
  BY <1>5 DEF CommitUpdate
<1>7. ASSUME NEW k \in Cards, card[k] # None
      PROVE  /\ Col(k) = IF k = q.card THEN to ELSE card[k].column
             /\ Pos(k) = IF k = q.card THEN q.place ELSE new[k].position
  <2>1. Col(k) = IF k = q.card THEN to ELSE card[k].column
    BY <1>1
  <2>2. k \in DOMAIN q.rows <=> new[k] # card[k]
    BY <1>1
  <2>3. k \in DOMAIN q.rows => q.rows[k] = new[k].position
    BY <1>1
  <2> HIDE DEF new
  <2> QED
    BY <2>1, <2>2, <2>3
<1> HIDE DEF new, Col, Pos
<1>8. Committed(card, card', q.card, to, q.place, new)
  BY <1>6, <1>7 DEF Committed
<1> QED
  BY <1>1, <1>8 DEF new

LEMMA MoveLands ==
  ASSUME PlacedInv, PlacedInv', AloneInv, [Next]_vars, NEW r \in Requests,
         Ends(r), req[r].at = "shifted", seen[r].alone, req[r].place # None,
         req[r].to = None \/ columns[req[r].to] # None
  PROVE  Lands(r)
<1> DEFINE q == req[r]
           to == IF q.to = None THEN q.old.column ELSE q.to
           from == q.old.column
           rest == [card EXCEPT ![q.card] = None]
<1>1. /\ seen[r].before = card /\ card[q.card] = q.old
      /\ Committed(card, card', q.card, to, q.place,
                   Rearranged(card, q.card, q.old, q.place, to))
  BY EndOfMove
<1>2. /\ card \in Table /\ card' \in Table
      /\ q.card \in Cards /\ q.old \in Row /\ q.place \in Nat /\ to \in Columns
      /\ q.old # None /\ from \in Columns
  BY RowIsNotNone, NestCardsAssumption DEF PlacedInv, Held, Row
<1> SUFFICES ASSUME Gapless(card, from), Gapless(card, to), q.place <= Len(Shown(rest, to))
             PROVE  /\ Shown(card', to) = InsertAt(Shown(rest, to), q.place + 1, q.card)
                    /\ from # to => Shown(card', from) = Shown(rest, from)
                    /\ Gapless(card', to) /\ Gapless(card', from)
  BY <1>1 DEF Lands
<1>3. PICK n \in Nat : n = Cardinality(InColumn(card, to))
  BY ColumnFinite
<1>4. Len(Shown(rest, to)) = Cardinality(InColumn(rest, to))
  <2>1. Cardinality(InColumn(rest, to)) \in Nat
    BY ColumnFinite
  <2> QED
    BY <2>1 DEF Shown
<1>5. CASE to = from
  <2>1. InColumn(rest, to) = InColumn(card, to) \ {q.card} /\ q.card \in InColumn(card, to)
    BY <1>1, <1>2, <1>5 DEF InColumn, Table
  <2>2. Cardinality(InColumn(rest, to)) = n - 1
    <3> DEFINE rows == InColumn(card, to)
    <3>1. IsFiniteSet(rows) /\ q.card \in rows
      BY <2>1, ColumnFinite
    <3>2. Cardinality(rows \ {q.card}) = Cardinality(rows) - 1
      <4> HIDE DEF rows
      <4> QED
        BY <3>1, FS_RemoveElement
    <3> QED
      BY <1>3, <2>1, <3>2
  <2>3. q.place \in 0 .. (n - 1)
    BY <1>2, <1>4, <2>2
  <2>4. Rearranged(card, q.card, q.old, q.place, to)
          = IF q.place = card[q.card].position THEN card
            ELSE ReorderWithinColumn(card, to, card[q.card].position, q.place)
    BY <1>1, <1>5 DEF Rearranged
  <2>5. Numbers(card', to, InsertAt(Shown(rest, to), q.place + 1, q.card), n)
    <3>1. /\ card \in Table /\ q.card \in Cards /\ card[q.card] # None
          /\ to = card[q.card].column /\ Gapless(card, to)
      BY <1>1, <1>2, <1>5
    <3>2. Committed(card, card', q.card, to, q.place,
                    IF q.place = card[q.card].position THEN card
                    ELSE ReorderWithinColumn(card, to, card[q.card].position, q.place))
      BY <1>1, <2>4
    <3> QED
      BY ONLY <1>3, <2>3, <3>1, <3>2, StaysIn
  <2> QED
    BY <1>2, <1>3, <1>5, <2>5, NumberedShown
<1>6. CASE to # from
  <2>1. InColumn(rest, to) = InColumn(card, to)
    BY <1>1, <1>2, <1>6 DEF InColumn, Table
  <2>2. q.place \in 0 .. n
    BY <1>2, <1>3, <1>4, <2>1
  <2>3. /\ Numbers(card', to, InsertAt(Shown(rest, to), q.place + 1, q.card), n + 1)
        /\ \E m \in Nat : Numbers(card', from, Shown(rest, from), m)
    <3>1. /\ card \in Table /\ q.card \in Cards /\ card[q.card] # None
          /\ from = card[q.card].column /\ Gapless(card, from) /\ Gapless(card, to)
          /\ to \in Columns /\ to # from /\ q.place # None
      BY <1>1, <1>2, <1>6
    <3>2. Committed(card, card', q.card, to, q.place,
                    Rearranged(card, q.card, card[q.card], q.place, to))
      BY <1>1
    <3> QED
      BY ONLY <1>3, <2>2, <3>1, <3>2, Crosses
  <2>4. PICK m \in Nat : m = n + 1
    OBVIOUS
  <2>5. Shown(card', to) = InsertAt(Shown(rest, to), q.place + 1, q.card) /\ Gapless(card', to)
    BY <1>2, <2>3, <2>4, NumberedShown
  <2>6. Shown(card', from) = Shown(rest, from) /\ Gapless(card', from)
    BY <1>2, <2>3, NumberedShown
  <2> QED
    BY <2>5, <2>6
<1> QED
  BY <1>5, <1>6

(* A drag lands where the client put it: a move no other request           *)
(* overlapped, over columns without gaps, leaves the card at the index it  *)
(* asked for, all other cards in their order and the columns without gaps, *)
(* for any number of cards (update of cards.service.ts with its            *)
(* reorderWithinColumn, removeFromColumn and insertIntoColumn).            *)
THEOREM MovesAlwaysLand == Spec => MovesLand
<1>1. PlacedInv /\ AloneInv /\ PlacedInv' /\ [Next]_vars
        => [\A r \in Requests :
              /\ Ends(r) /\ req[r].at = "shifted" /\ seen[r].alone
              /\ req[r].place # None
              /\ req[r].to = None \/ columns[req[r].to] # None
              => Lands(r)]_vars
  BY MoveLands
<1> QED
  BY <1>1, InitInv, NextInv, AloneInit, AloneNext, PTL DEF Spec, MovesLand

-----------------------------------------------------------------------------
(* What the last delete left behind. *)

(* A column whose positions differ is shown by position. *)
LEMMA ShownLists ==
  ASSUME NEW tab \in Table, NEW c, Untied(tab, c)
  PROVE  Lists(tab, c, Shown(tab, c), Cardinality(InColumn(tab, c)))
<1> DEFINE rows == InColumn(tab, c)
           n == Cardinality(rows)
           earlier(k) == Earlier(tab, c, k)
           rank == [k \in rows |-> Cardinality(earlier(k))]
           s == Shown(tab, c)
<1>1. /\ \A k \in rows : k \in Nat /\ tab[k].position \in Nat
      /\ IsFiniteSet(rows) /\ n \in Nat
  BY PlaceType, ColumnFinite
<1>2. ASSUME NEW k \in rows
      PROVE  /\ IsFiniteSet(earlier(k))
             /\ Cardinality(earlier(k)) \in 0 .. (n - 1)
             /\ rank[k] = Cardinality(earlier(k))
  <2>1. earlier(k) \in SUBSET rows /\ earlier(k) # rows
    BY <1>1 DEF Earlier
  <2> HIDE DEF earlier, rows
  <2>2. /\ IsFiniteSet(earlier(k))
        /\ Cardinality(earlier(k)) <= n
        /\ n = Cardinality(earlier(k)) => rows = earlier(k)
    BY <1>1, <2>1, FS_Subset
  <2>3. Cardinality(earlier(k)) \in Nat
    BY <2>2, FS_CardinalityType
  <2> QED
    BY <1>1, <2>1, <2>2, <2>3
<1>3. ASSUME NEW j \in rows, NEW k \in rows, tab[j].position < tab[k].position
      PROVE  Cardinality(earlier(j)) < Cardinality(earlier(k))
  <2>1. \A i \in rows : i \in earlier(j) => i \in earlier(k)
    <3> SUFFICES ASSUME NEW i \in rows, i \in earlier(j) PROVE i \in earlier(k)
      OBVIOUS
    <3>1. tab[i].position <= tab[j].position
      BY <1>1 DEF Earlier
    <3> QED
      BY <1>1, <1>3, <3>1 DEF Earlier
  <2>2. earlier(j) \in SUBSET earlier(k) /\ j \in earlier(k) /\ j \notin earlier(j)
    BY <1>1, <1>3, <2>1 DEF Earlier
  <2> HIDE DEF earlier, rows
  <2>3. /\ Cardinality(earlier(j)) <= Cardinality(earlier(k))
        /\ Cardinality(earlier(k)) = Cardinality(earlier(j)) => earlier(k) = earlier(j)
    BY <1>2, <2>2, FS_Subset
  <2>4. Cardinality(earlier(j)) # Cardinality(earlier(k))
    BY <2>2, <2>3
  <2>5. Cardinality(earlier(j)) \in Int /\ Cardinality(earlier(k)) \in Int
    BY <1>1, <1>2
  <2> QED
    BY <2>3, <2>4, <2>5
<1>4. ASSUME NEW j \in rows, NEW k \in rows, Cardinality(earlier(j)) = Cardinality(earlier(k))
      PROVE  j = k
  <2> HIDE DEF earlier
  <2>1. /\ ~ (tab[j].position < tab[k].position)
        /\ ~ (tab[k].position < tab[j].position)
    BY <1>1, <1>2, <1>3, <1>4
  <2>2. tab[j].position = tab[k].position
    BY <1>1, <2>1
  <2> QED
    BY <2>2 DEF Untied
<1> HIDE DEF earlier
<1>5. \A p \in 0 .. (n - 1) : \E k \in rows : Cardinality(earlier(k)) = p
  <2>1. rank \in Injection(rows, 0 .. (n - 1))
    BY <1>2, <1>4 DEF Injection, IsInjective
  <2>2. IsFiniteSet(0 .. (n - 1)) /\ Cardinality(0 .. (n - 1)) = n
    BY <1>1, FS_Interval
  <2>3. rank \in Surjection(rows, 0 .. (n - 1))
    BY <1>1, <2>1, <2>2, FS_Injection
  <2> QED
    BY <2>3 DEF Surjection
<1>6. ASSUME NEW i \in 1 .. n
      PROVE  s[i] \in rows /\ Cardinality(earlier(s[i])) = i - 1
  <2>1. PICK p \in 0 .. (n - 1) : p = i - 1
    BY <1>1
  <2>2. PICK k \in rows : Cardinality(earlier(k)) = i - 1
    BY <1>5, <2>1
  <2>3. s[i] = CHOOSE j \in rows : Cardinality(earlier(j)) = i - 1
    BY DEF Shown, earlier
  <2> HIDE DEF s, rows
  <2> QED
    BY <2>2, <2>3
<1>7. s = [i \in 1 .. n |-> s[i]]
  BY DEF Shown
<1> HIDE DEF s, n
<1>8. ASSUME NEW k \in rows
      PROVE  \E i \in 1 .. n : s[i] = k
  <2>1. PICK p \in 0 .. (n - 1) : p = Cardinality(earlier(k))
    BY <1>2
  <2>2. p + 1 \in 1 .. n /\ (p + 1) - 1 = p
    BY <1>1
  <2>3. PICK i \in 1 .. n : i - 1 = p
    BY ONLY <2>2
  <2> QED
    BY <1>4, <1>6, <2>1, <2>3
<1>9. ASSUME NEW i \in 1 .. n, NEW j \in 1 .. n, i < j
      PROVE  tab[s[i]].position < tab[s[j]].position
  <2>1. s[i] \in rows /\ s[j] \in rows /\ s[i] # s[j]
    BY <1>1, <1>6, <1>9
  <2>2. ~ (tab[s[j]].position < tab[s[i]].position)
    BY <1>1, <1>3, <1>6, <1>9, <2>1
  <2>3. tab[s[i]].position # tab[s[j]].position
    BY <2>1 DEF Untied
  <2> QED
    BY <1>1, <2>1, <2>2, <2>3
<1> QED
  BY <1>6, <1>7, <1>8, <1>9 DEF Lists, s, n

(* No id is handed out twice: what is stored or held has been issued, and  *)
(* with the deleted row put back the column reads as the delete found it.  *)
UndoInv ==
  /\ \A k \in Cards : card[k] # None => k \in issued
  /\ \A r \in Requests :
       /\ req[r].at = "remove" => req[r].card \in Cards
       /\ req[r].at = "save" => DOMAIN req[r].rows \subseteq issued
       /\ req[r].at = "moveAll" => req[r].cards \subseteq issued
  /\ undo # None =>
       LET old == [card EXCEPT ![undo.card] = undo.row]
       IN /\ undo.card \in Cards /\ undo.card \in issued /\ card[undo.card] = None
          /\ undo.row \in Row
          /\ Untied(old, undo.row.column)
          /\ undo.list = Shown(old, undo.row.column)

LEMMA UndoInit == Init => UndoInv
<1> SUFFICES ASSUME Init PROVE UndoInv
  OBVIOUS
<1>1. \A r \in Requests : req[r].at = "idle"
  BY DEF Init, Idle
<1>2. \A k \in Cards : card[k] # None => k \in issued
  BY DEF Init
<1> QED
  BY <1>1, <1>2 DEF Init, UndoInv

(* The writes: nothing is left to undo, or nothing changed, or a delete.   *)
LEMMA WriteKinds ==
  ASSUME PlacedInv, UndoInv, NEW r \in Requests, CardsController(r) \/ ColumnsController(r),
         ~ Begins(r), ~ ShiftCards(r)
  PROVE  /\ Answer(r) /\ issued \subseteq issued'
         /\ \A k \in Cards : card'[k] # None => k \in issued'
         /\ undo' = None \/ UNCHANGED << card, undo >> \/ DeleteCard(r)
<1>1. Answer(r)
  BY StepKinds
<1>2. CASE InsertCard(r)
  <2>1. PICK k \in Cards : /\ issued' = issued \cup {k} /\ undo' = None
                           /\ \A j \in Cards : j # k => card'[j] = card[j]
    <3>1. PICK k \in Cards \ issued :
            /\ issued' = issued \cup {k}
            /\ SaveCards([j \in {k} |-> [column |-> req[r].column,
                                         position |-> req[r].position]])
      BY <1>2 DEF InsertCard
    <3>2. \A j \in Cards : j # k => card'[j] = card[j]
      BY <3>1 DEF SaveCards
    <3> QED
      BY <3>1, <3>2 DEF SaveCards
  <2> QED
    BY <1>1, <2>1 DEF UndoInv
<1>3. CASE SaveSorted(r)
  <2>1. /\ undo' = None /\ issued' = issued
        /\ \A j \in Cards : j \notin DOMAIN req[r].rows => card'[j] = card[j]
    BY <1>3 DEF SaveSorted, SaveCards
  <2>2. DOMAIN req[r].rows \subseteq issued
    BY <1>3 DEF SaveSorted, UndoInv
  <2> QED
    BY <1>1, <2>1, <2>2 DEF UndoInv
<1>4. CASE SaveMoved(r)
  <2>1. /\ undo' = None /\ issued' = issued
        /\ \A j \in Cards : j \notin req[r].cards => card'[j] = card[j]
    <3>1. PICK order \in SetToSeqs(req[r].cards) :
            SaveCards([k \in req[r].cards |->
                         [column |-> req[r].target,
                          position |-> MaxPositionInColumn(card, req[r].target)
                                       + (CHOOSE i \in DOMAIN order : order[i] = k)]])
      BY <1>4 DEF SaveMoved
    <3> QED
      BY <1>4, <3>1 DEF SaveMoved, SaveCards
  <2>2. req[r].cards \subseteq issued
    BY <1>4 DEF SaveMoved, UndoInv
  <2> QED
    BY <1>1, <2>1, <2>2 DEF UndoInv
<1>5. CASE CommitUpdate(r)
  <2>1. undo' = None \/ UNCHANGED << card, undo >>
    BY <1>5 DEF CommitUpdate
  <2>2. \A j \in Cards : card[j] = None => card'[j] = None
    BY <1>5 DEF CommitUpdate
  <2>3. issued' = issued
    BY <1>5 DEF CommitUpdate
  <2> QED
    BY <1>1, <2>1, <2>2, <2>3 DEF UndoInv
<1>6. CASE DeadlockedUpdate(r)
  BY <1>1, <1>6 DEF DeadlockedUpdate, Nothing, UndoInv
<1>7. CASE InsertColumn(r) \/ SaveColumn(r)
  BY <1>1, <1>7 DEF InsertColumn, SaveColumn, UndoInv
<1>8. CASE DropColumn(r)
  BY <1>1, <1>8 DEF DropColumn, UndoInv
<1>9. CASE DeleteCard(r)
  BY <1>1, <1>9 DEF DeleteCard, UndoInv, PlacedInv, Table
<1>10. ~ (\E rec : Begin(r, rec))
  <2> SUFFICES ASSUME \E rec : Begin(r, rec) PROVE FALSE
    OBVIOUS
  <2>1. req[r] = Idle /\ Idle.at = "idle"
    BY DEF Begin, Idle
  <2> QED
    BY <2>1, StepKinds
<1>11. /\ ~ CreateCard(r) /\ ~ UpdateCard(r) /\ ~ RemoveCard(r)
       /\ ~ CreateColumn(r) /\ ~ UpdateColumn(r) /\ ~ RemoveColumn(r)
       /\ ~ SortCards(r) /\ ~ MoveAllCards(r)
  BY <1>10 DEF CreateCard, UpdateCard, RemoveCard, CreateColumn, UpdateColumn,
               RemoveColumn, SortCards, MoveAllCards
<1> QED
  BY <1>2, <1>3, <1>4, <1>5, <1>6, <1>7, <1>8, <1>9, <1>11
     DEF CardsController, ColumnsController

LEMMA UndoNext == PlacedInv /\ UndoInv /\ [Next]_vars => UndoInv'
<1> SUFFICES ASSUME PlacedInv, UndoInv, [Next]_vars
             PROVE  UndoInv'
  OBVIOUS
<1>1. CASE UNCHANGED vars
  BY <1>1 DEF vars, UndoInv, Untied, Shown, Earlier, InColumn
<1>2. ASSUME NEW r \in Requests, CardsController(r) \/ ColumnsController(r)
      PROVE  UndoInv'
  <2> DEFINE Holds(q) == /\ q.at = "remove" => q.card \in Cards
                         /\ q.at = "save" => DOMAIN q.rows \subseteq issued'
                         /\ q.at = "moveAll" => q.cards \subseteq issued'
             AllIssued == \A k \in Cards : card'[k] # None => k \in issued'
  <2>1. ASSUME UNCHANGED << card, undo >>, issued \subseteq issued', AllIssued,
               \A o \in Requests : Holds(req'[o])
        PROVE  UndoInv'
    BY <2>1 DEF UndoInv, Untied, Shown, Earlier, InColumn
  <2>2. CASE Begins(r)
    <3>1. PICK rec : /\ Begin(r, rec) /\ Nothing
                     /\ rec.at = "remove" => rec.card \in Cards
                     /\ rec.at = "save" => \A k \in DOMAIN rec.rows : k \in Cards /\ card[k] # None
                     /\ rec.at = "moveAll" => \A k \in rec.cards : k \in Cards /\ card[k] # None
      BY <2>2 DEF Begins
    <3>2. UNCHANGED << card, undo, issued >> /\ AllIssued
      BY <3>1 DEF Nothing, UndoInv
    <3>3. req' = [o \in Requests |-> IF o = r THEN rec ELSE req[o]]
      BY <3>1 DEF Begin, PlacedInv
    <3>4. Holds(rec)
      BY <3>1, <3>2 DEF UndoInv
    <3>5. \A o \in Requests : Holds(req[o])
      BY <3>2 DEF UndoInv
    <3>6. \A o \in Requests : Holds(req'[o])
      BY <3>3, <3>4, <3>5
    <3> QED
      BY <2>1, <3>2, <3>6
  <2>3. CASE ShiftCards(r)
    <3>1. UNCHANGED << card, undo, issued >> /\ AllIssued
      BY <2>3 DEF ShiftCards, UndoInv
    <3>2. PICK rec : req' = [o \in Requests |-> IF o = r THEN rec ELSE req[o]]
                     /\ rec.at = "shifted"
      <4>1. PICK rows : req' = [req EXCEPT ![r] =
                                  [at |-> "shifted", card |-> req[r].card,
                                   old |-> req[r].old, to |-> req[r].to,
                                   place |-> req[r].place, rows |-> rows]]
        BY <2>3 DEF ShiftCards
      <4> DEFINE rec == [at |-> "shifted", card |-> req[r].card, old |-> req[r].old,
                         to |-> req[r].to, place |-> req[r].place, rows |-> rows]
      <4>2. rec.at = "shifted"
        OBVIOUS
      <4> HIDE DEF rec
      <4>3. req' = [o \in Requests |-> IF o = r THEN rec ELSE req[o]]
        BY <4>1 DEF rec, PlacedInv
      <4> QED
        BY <4>2, <4>3
    <3>3. \A o \in Requests : Holds(req[o])
      BY <3>1 DEF UndoInv
    <3>4. \A o \in Requests : Holds(req'[o])
      BY <3>2, <3>3
    <3> QED
      BY <2>1, <3>1, <3>4
  <2>4. CASE ~ Begins(r) /\ ~ ShiftCards(r)
    <3>1. /\ Answer(r) /\ issued \subseteq issued' /\ AllIssued
          /\ undo' = None \/ UNCHANGED << card, undo >> \/ DeleteCard(r)
      BY <1>2, <2>4, WriteKinds
    <3>2. req' = [o \in Requests |-> IF o = r THEN Idle ELSE req[o]] /\ Idle.at = "idle"
      BY <3>1 DEF Answer, PlacedInv, Idle
    <3>3. \A o \in Requests : Holds(req[o])
      BY <3>1 DEF UndoInv
    <3>4. \A o \in Requests : Holds(req'[o])
      BY <3>2, <3>3
    <3>5. CASE undo' = None
      BY <3>1, <3>4, <3>5 DEF UndoInv
    <3>6. CASE UNCHANGED << card, undo >>
      BY <2>1, <3>1, <3>4, <3>6
    <3>7. CASE DeleteCard(r) /\ undo' # None
      <4> DEFINE k == req[r].card
      <4>1. /\ k \in Cards /\ card' = [card EXCEPT ![k] = None] /\ issued' = issued
            /\ card[k] # None /\ Untied(card, card[k].column)
            /\ undo' = [card |-> k, row |-> card[k], list |-> Shown(card, card[k].column)]
        BY <3>7 DEF DeleteCard, UndoInv
      <4>2. /\ undo'.card = k /\ undo'.row = card[k]
            /\ undo'.list = Shown(card, card[k].column)
        BY <4>1
      <4>3. card[k] \in Row /\ k \in issued /\ card'[k] = None
        BY <4>1 DEF PlacedInv, Table, UndoInv
      <4>4. [card' EXCEPT ![k] = card[k]] = card
        BY <4>1 DEF PlacedInv, Table
      <4> HIDE DEF k
      <4>5. LET old == [card' EXCEPT ![undo'.card] = undo'.row]
            IN /\ Untied(old, undo'.row.column)
               /\ undo'.list = Shown(old, undo'.row.column)
        BY <4>1, <4>2, <4>4
      <4> QED
        BY <3>1, <3>4, <4>1, <4>2, <4>3, <4>5 DEF UndoInv, Untied, Shown, Earlier, InColumn
    <3> QED
      BY <3>1, <3>5, <3>6, <3>7
  <2> QED
    BY <2>2, <2>3, <2>4
<1> QED
  BY <1>1, <1>2 DEF Next

(* A card created at the position a delete left open, in the same column,  *)
(* takes the deleted card's slot in the list.                              *)
LEMMA CreateRestores ==
  ASSUME PlacedInv, PlacedInv', UndoInv, [Next]_vars, NEW r \in Requests,
         Ends(r), req[r].at = "create", undo # None,
         req[r].column = undo.row.column, req[r].position = undo.row.position,
         columns[req[r].column] # None
  PROVE  \E k \in issued' \ issued :
           Shown(card', req[r].column)
             = [i \in DOMAIN undo.list |-> IF undo.list[i] = undo.card THEN k ELSE undo.list[i]]
<1> DEFINE gone == undo.card
           row == undo.row
           c == undo.row.column
           old == [card EXCEPT ![gone] = row]
           s == undo.list
           n == Cardinality(InColumn(old, c))
<1>1. /\ gone \in Cards /\ gone \in issued /\ card[gone] = None /\ row \in Row
      /\ Untied(old, c) /\ s = Shown(old, c)
      /\ \A k \in Cards : card[k] # None => k \in issued
  BY DEF UndoInv
<1>2. InsertCard(r)
  <2>1. /\ CardsController(r) \/ ColumnsController(r)
        /\ ~ (\E rec : Begin(r, rec))
    BY EndsBy
  <2>2. /\ ~ CreateCard(r) /\ ~ UpdateCard(r) /\ ~ RemoveCard(r)
        /\ ~ CreateColumn(r) /\ ~ UpdateColumn(r) /\ ~ RemoveColumn(r)
        /\ ~ SortCards(r) /\ ~ MoveAllCards(r)
    BY <2>1 DEF CreateCard, UpdateCard, RemoveCard, CreateColumn, UpdateColumn,
                RemoveColumn, SortCards, MoveAllCards
  <2>3. /\ ~ ShiftCards(r) /\ ~ CommitUpdate(r) /\ ~ DeadlockedUpdate(r) /\ ~ DeleteCard(r)
        /\ ~ InsertColumn(r) /\ ~ SaveColumn(r) /\ ~ DropColumn(r) /\ ~ SaveSorted(r)
        /\ ~ SaveMoved(r)
    BY DEF ShiftCards, CommitUpdate, DeadlockedUpdate, DeleteCard, InsertColumn, SaveColumn,
           DropColumn, SaveSorted, SaveMoved
  <2> QED
    BY <2>1, <2>2, <2>3 DEF CardsController, ColumnsController
<1>3. PICK k \in Cards \ issued :
        /\ issued' = issued \cup {k}
        /\ SaveCards([j \in {k} |-> [column |-> req[r].column,
                                     position |-> req[r].position]])
  BY <1>2 DEF InsertCard
<1>4. row = [column |-> req[r].column, position |-> req[r].position]
  BY <1>1 DEF Row
<1>5. card' = [j \in Cards |-> IF j = k THEN row ELSE card[j]]
  BY <1>3, <1>4 DEF SaveCards
<1>6. card \in Table /\ card' \in Table /\ old \in Table
  BY <1>1 DEF PlacedInv, Table
<1>7. k # gone /\ card[k] = None /\ row # None /\ row.column = c
  BY <1>1, <1>3, RowIsNotNone
<1>8. \A j \in Cards : old[j] = IF j = gone THEN row ELSE card[j]
  BY <1>1, <1>6 DEF Table
<1> HIDE DEF old
<1>9. Lists(old, c, s, n) /\ n \in Nat
  BY <1>1, <1>6, ShownLists, ColumnFinite
<1> DEFINE t == [i \in DOMAIN s |-> IF s[i] = gone THEN k ELSE s[i]]
<1>10. DOMAIN s = 1 .. n
  BY <1>9 DEF Lists
<1> HIDE DEF s, n
<1>11. ASSUME NEW i \in 1 .. n
       PROVE  t[i] \in InColumn(card', c) /\ card'[t[i]] = old[s[i]]
  <2>1. s[i] \in Cards /\ old[s[i]] # None /\ old[s[i]].column = c
    BY <1>9 DEF Lists, InColumn
  <2>2. CASE s[i] = gone
    <3>1. t[i] = k
      BY <1>10, <2>2
    <3>2. card'[k] = row /\ old[s[i]] = row
      BY <1>5, <1>8, <2>1, <2>2
    <3> QED
      BY <1>7, <3>1, <3>2 DEF InColumn
  <2>3. CASE s[i] # gone
    <3>1. t[i] = s[i]
      BY <1>10, <2>3
    <3>2. old[s[i]] = card[s[i]]
      BY <1>8, <2>1, <2>3
    <3>3. s[i] # k
      BY <1>7, <2>1, <3>2
    <3>4. card'[s[i]] = old[s[i]]
      BY <1>5, <2>1, <3>2, <3>3
    <3> QED
      BY <2>1, <3>1, <3>4 DEF InColumn
  <2> QED
    BY <2>2, <2>3
<1>12. ASSUME NEW j \in InColumn(card', c)
       PROVE  \E i \in 1 .. n : t[i] = j
  <2>1. j \in Cards /\ card'[j] # None /\ card'[j].column = c
    BY DEF InColumn
  <2>2. CASE j = k
    <3>1. gone \in InColumn(old, c)
      BY <1>1, <1>7, <1>8 DEF InColumn
    <3>2. PICK i \in 1 .. n : s[i] = gone
      BY <1>9, <3>1 DEF Lists
    <3> QED
      BY <1>10, <2>2, <3>2
  <2>3. CASE j # k
    <3>1. card'[j] = card[j]
      BY <1>5, <2>1, <2>3
    <3>2. j # gone
      BY <1>1, <2>1, <3>1
    <3>3. j \in InColumn(old, c)
      BY <1>8, <2>1, <3>1, <3>2 DEF InColumn
    <3>4. PICK i \in 1 .. n : s[i] = j
      BY <1>9, <3>3 DEF Lists
    <3> QED
      BY <1>10, <3>2, <3>4
  <2> QED
    BY <2>2, <2>3
<1>13. t = [i \in 1 .. n |-> t[i]]
  BY <1>10
<1> HIDE DEF t
<1>14. Lists(card', c, t, n)
  BY <1>9, <1>11, <1>12, <1>13 DEF Lists
<1>15. Shown(card', c) = t
  BY <1>6, <1>9, <1>14, OnlyList
<1>16. k \in issued' \ issued
  BY <1>3
<1> QED
  BY <1>15, <1>16 DEF t, s

(* Undo after a delete puts the card back: with no other write of cards in *)
(* between, the card created with the deleted one's column and position    *)
(* stands in its place in the list, whatever the ids and positions of the  *)
(* others (remove closes no gap and create does not clamp).                *)
THEOREM UndoAlwaysRestores == Spec => UndoRestores
<1>1. PlacedInv /\ UndoInv /\ PlacedInv' /\ [Next]_vars
        => [\A r \in Requests :
              /\ Ends(r) /\ req[r].at = "create" /\ undo # None
              /\ req[r].column = undo.row.column /\ req[r].position = undo.row.position
              /\ columns[req[r].column] # None
              => \E k \in issued' \ issued :
                   Shown(card', req[r].column)
                     = [i \in DOMAIN undo.list |->
                          IF undo.list[i] = undo.card THEN k ELSE undo.list[i]]]_vars
  BY CreateRestores
<1> QED
  BY <1>1, InitInv, NextInv, UndoInit, UndoNext, PTL DEF Spec, UndoRestores

=============================================================================
