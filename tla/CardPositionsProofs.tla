------------------------ MODULE CardPositionsProofs ------------------------
(***************************************************************************)
(* For any set of cards, columns and requested positions, every reachable  *)
(* state of CardPositions is well typed, every column is dense, and every  *)
(* request does to the lists of cards what CardOrder says.                 *)
(*                                                                         *)
(* Dense speaks of a cardinality.  The inductive invariant says the same   *)
(* with the number of cards made explicit (DenseTo), so that the effect of *)
(* each UPDATE is a question of linear arithmetic: an insert takes n to    *)
(* n + 1, a removal to n - 1, a move within a column is one after the      *)
(* other.  Cardinalities come back in two places only: what COUNT and MAX  *)
(* return on a dense column, and the ranks sort and move-cards hand out.   *)
(*                                                                         *)
(* A handler's effect is first stated row by row (CardIn, CardOut,         *)
(* CardMoved, Joined, Untouched: what the gap, band and point writes come  *)
(* to), and from there both for the numbering (Dense...) and for the list  *)
(* it stands for (Listed...).                                              *)
(***************************************************************************)
EXTENDS CardPositions, FiniteSetTheorems, SequenceTheorems, TLAPS

(* The cards of c hold the positions 0 .. n-1, each exactly once. *)
DenseTo(col, pos, c, n) ==
  /\ \A j, k \in Cards : col[j] = c /\ col[k] = c /\ pos[j] = pos[k] => j = k
  /\ \A k \in Cards : col[k] = c => pos[k] \in 0 .. (n - 1)
  /\ \A i \in 0 .. (n - 1) : \E k \in Cards : col[k] = c /\ pos[k] = i

IInv ==
  /\ TypeOK
  /\ \A c \in Columns : \E n \in Nat : DenseTo(column, position, c, n)

-----------------------------------------------------------------------------
(* What the SELECTs of the handlers return on a dense column. *)

(* COUNT of a column that holds 0 .. n-1 is n. *)
LEMMA DenseCount ==
  ASSUME NEW col, NEW pos, NEW c, NEW n \in Nat, DenseTo(col, pos, c, n)
  PROVE  /\ IsFiniteSet(InColumn(col, c))
         /\ Cardinality(InColumn(col, c)) = n
<1> DEFINE at == [i \in 0 .. (n - 1) |-> CHOOSE k \in Cards : col[k] = c /\ pos[k] = i]
<1>1. \A i \in 0 .. (n - 1) : at[i] \in Cards /\ col[at[i]] = c /\ pos[at[i]] = i
  BY DEF DenseTo
<1> HIDE DEF at
<1>2. at = [i \in 0 .. (n - 1) |-> at[i]]
  BY DEF at
<1>3. at \in [0 .. (n - 1) -> InColumn(col, c)]
  BY <1>1, <1>2 DEF InColumn
<1>4. at \in Bijection(0 .. (n - 1), InColumn(col, c))
  <2>1. \A i, j \in 0 .. (n - 1) : at[i] = at[j] => i = j
    BY <1>1
  <2>2. \A k \in InColumn(col, c) : \E i \in 0 .. (n - 1) : at[i] = k
    BY <1>1 DEF InColumn, DenseTo
  <2> QED
    BY <1>3, <2>1, <2>2 DEF Bijection, Injection, Surjection, IsInjective
<1>5. IsFiniteSet(0 .. (n - 1)) /\ Cardinality(0 .. (n - 1)) = n
  BY FS_Interval
<1> QED
  BY <1>4, <1>5, FS_Bijection DEF ExistsBijection

(* MAX(position) of such a column is n-1, and -1 when it is empty. *)
LEMMA DenseMax ==
  ASSUME NEW col, NEW pos, NEW c, NEW n \in Nat, DenseTo(col, pos, c, n)
  PROVE  MaxPosition(col, pos, c) = n - 1
<1>1. CASE n = 0
  BY <1>1 DEF DenseTo, MaxPosition, InColumn
<1>2. CASE n # 0
  <2>1. PICK last \in Cards : col[last] = c /\ pos[last] = n - 1
    BY <1>2 DEF DenseTo
  <2> DEFINE taken == {pos[k] : k \in InColumn(col, c)}
             isMax(m) == \A k \in InColumn(col, c) : pos[k] <= m
  <2>2. InColumn(col, c) # {} /\ n - 1 \in taken
    BY <2>1 DEF InColumn
  <2>3. isMax(n - 1)
    BY DEF InColumn, DenseTo
  <2>4. \A m \in taken : isMax(m) => m = n - 1
    BY <2>1 DEF InColumn, DenseTo
  <2> QED
    BY <2>2, <2>3, <2>4 DEF MaxPosition
<1> QED
  BY <1>1, <1>2

(* DenseTo is what Dense says of a column. *)
LEMMA DenseToIsDense ==
  ASSUME NEW col, NEW pos, NEW c, NEW n \in Nat, DenseTo(col, pos, c, n)
  PROVE  DenseColumn(col, pos, c)
<1> DEFINE rows == InColumn(col, c)
<1>1. Cardinality(rows) = n
  BY DenseCount
<1>2. \A j, k \in rows : pos[j] = pos[k] => j = k
  BY DEF DenseTo, InColumn
<1>3. {pos[k] : k \in rows} = 0 .. (n - 1)
  <2>1. \A k \in rows : pos[k] \in 0 .. (n - 1)
    BY DEF DenseTo, InColumn
  <2>2. \A i \in 0 .. (n - 1) : \E k \in rows : pos[k] = i
    BY DEF DenseTo, InColumn
  <2> QED
    BY <2>1, <2>2
<1> QED
  BY <1>1, <1>2, <1>3 DEF DenseColumn

-----------------------------------------------------------------------------
(* What a request does to a column, row by row, from the table <<col, pos>> *)
(* to the table <<col2, pos2>>.                                             *)

(* No row of c is written, none comes or goes. *)
Untouched(col, pos, col2, pos2, c) ==
  \A k \in Cards : /\ col2[k] = c <=> col[k] = c
                   /\ col[k] = c => pos2[k] = pos[k]

(* open_card_gap at p, then the row of k written there. *)
CardIn(col, pos, col2, pos2, c, k, p) ==
  /\ col[k] # c /\ col2[k] = c /\ pos2[k] = p
  /\ \A j \in Cards \ {k} :
       /\ col2[j] = c <=> col[j] = c
       /\ col[j] = c => pos2[j] = IF pos[j] >= p THEN pos[j] + 1 ELSE pos[j]

(* The row of k gone, and close_card_gap behind it. *)
CardOut(col, pos, col2, pos2, c, k) ==
  /\ col[k] = c /\ col2[k] # c
  /\ \A j \in Cards \ {k} :
       /\ col2[j] = c <=> col[j] = c
       /\ col[j] = c => pos2[j] = IF pos[j] > pos[k] THEN pos[j] - 1 ELSE pos[j]

(* shift_cards_up or shift_cards_down, then the row of k written at p. *)
CardMoved(col, pos, col2, pos2, c, k, p) ==
  /\ col[k] = c /\ col2[k] = c /\ pos2[k] = p
  /\ \A j \in Cards \ {k} :
       /\ col2[j] = c <=> col[j] = c
       /\ col[j] = c =>
            pos2[j] = IF p <= pos[j] /\ pos[j] < pos[k] THEN pos[j] + 1
                      ELSE IF pos[k] < pos[j] /\ pos[j] <= p THEN pos[j] - 1
                      ELSE pos[j]

(* The rows of source numbered on after the m rows of target. *)
Joined(col, pos, col2, pos2, source, target, m) ==
  \A k \in Cards :
    /\ col2[k] = target <=> col[k] \in {source, target}
    /\ col[k] = source => pos2[k] = m + pos[k]
    /\ col[k] = target => pos2[k] = pos[k]

LEMMA DenseFrame ==
  ASSUME NEW col, NEW pos, NEW col2, NEW pos2, NEW c, NEW n \in Nat,
         DenseTo(col, pos, c, n), Untouched(col, pos, col2, pos2, c)
  PROVE  DenseTo(col2, pos2, c, n)
BY DEF DenseTo, Untouched

LEMMA DenseInsert ==
  ASSUME NEW col, NEW pos, NEW col2, NEW pos2, NEW c, NEW n \in Nat,
         DenseTo(col, pos, c, n), NEW k \in Cards, NEW p \in 0 .. n,
         CardIn(col, pos, col2, pos2, c, k, p)
  PROVE  DenseTo(col2, pos2, c, n + 1)
<1>1. \A i, j \in Cards : col2[i] = c /\ col2[j] = c /\ pos2[i] = pos2[j] => i = j
  BY DEF DenseTo, CardIn
<1>2. \A j \in Cards : col2[j] = c => pos2[j] \in 0 .. n
  BY DEF DenseTo, CardIn
<1>3. ASSUME NEW i \in 0 .. n
      PROVE  \E j \in Cards : col2[j] = c /\ pos2[j] = i
  <2>1. CASE i = p
    BY <2>1 DEF CardIn
  <2>2. CASE i < p
    <3>1. PICK j \in Cards : col[j] = c /\ pos[j] = i
      BY <2>2 DEF DenseTo, CardIn
    <3> QED
      BY <2>2, <3>1 DEF CardIn
  <2>3. CASE i > p
    <3>1. PICK j \in Cards : col[j] = c /\ pos[j] = i - 1
      BY <2>3 DEF DenseTo, CardIn
    <3> QED
      BY <2>3, <3>1 DEF CardIn
  <2> QED
    BY <2>1, <2>2, <2>3
<1> QED
  BY <1>1, <1>2, <1>3 DEF DenseTo, CardIn

LEMMA DenseRemove ==
  ASSUME NEW col, NEW pos, NEW col2, NEW pos2, NEW c, NEW n \in Nat,
         DenseTo(col, pos, c, n), NEW k \in Cards,
         CardOut(col, pos, col2, pos2, c, k)
  PROVE  n - 1 \in Nat /\ DenseTo(col2, pos2, c, n - 1)
<1>1. pos[k] \in 0 .. (n - 1) /\ n - 1 \in Nat
  BY DEF DenseTo, CardOut
<1>2. \A i, j \in Cards : col2[i] = c /\ col2[j] = c /\ pos2[i] = pos2[j] => i = j
  BY <1>1 DEF DenseTo, CardOut
<1>3. \A j \in Cards : col2[j] = c => pos2[j] \in 0 .. (n - 2)
  BY <1>1 DEF DenseTo, CardOut
<1>4. ASSUME NEW i \in 0 .. (n - 2)
      PROVE  \E j \in Cards : col2[j] = c /\ pos2[j] = i
  <2>1. CASE i < pos[k]
    <3>1. PICK j \in Cards : col[j] = c /\ pos[j] = i
      BY <1>1 DEF DenseTo, CardOut
    <3> QED
      BY <1>1, <2>1, <3>1 DEF CardOut
  <2>2. CASE i >= pos[k]
    <3>1. PICK j \in Cards : col[j] = c /\ pos[j] = i + 1
      BY <1>1 DEF DenseTo, CardOut
    <3> QED
      BY <1>1, <2>2, <3>1 DEF CardOut
  <2> QED
    BY <1>1, <2>1, <2>2
<1> QED
  BY <1>1, <1>2, <1>3, <1>4 DEF DenseTo, CardOut

(* Within a column: the card is taken out and put in again. *)
LEMMA MovedIsOutAndIn ==
  ASSUME NEW col, NEW pos, NEW col2, NEW pos2, NEW c \in Columns, NEW n \in Nat,
         DenseTo(col, pos, c, n), NEW k \in Cards, NEW p \in 0 .. (n - 1),
         CardMoved(col, pos, col2, pos2, c, k, p)
  PROVE  \E mid, closed : /\ CardOut(col, pos, mid, closed, c, k)
                          /\ CardIn(mid, closed, col2, pos2, c, k, p)
<1> DEFINE mid == [j \in Cards |-> IF j = k THEN Deleted ELSE col[j]]
           closed == [j \in Cards |-> IF pos[j] > pos[k] THEN pos[j] - 1 ELSE pos[j]]
<1>1. mid[k] # c /\ \A j \in Cards \ {k} : mid[j] = col[j]
  BY ConstantsAssumption
<1>2. \A j \in Cards : closed[j] = IF pos[j] > pos[k] THEN pos[j] - 1 ELSE pos[j]
  OBVIOUS
<1> HIDE DEF mid, closed
<1>3. CardOut(col, pos, mid, closed, c, k)
  BY <1>1, <1>2 DEF CardOut, CardMoved
<1>4. ASSUME NEW j \in Cards \ {k}, mid[j] = c
      PROVE  pos2[j] = IF closed[j] >= p THEN closed[j] + 1 ELSE closed[j]
  <2>1. col[j] = c /\ pos[j] \in Nat /\ pos[k] \in Nat /\ pos[j] # pos[k]
    BY <1>1, <1>4 DEF DenseTo, CardMoved
  <2>2. pos2[j] = IF p <= pos[j] /\ pos[j] < pos[k] THEN pos[j] + 1
                  ELSE IF pos[k] < pos[j] /\ pos[j] <= p THEN pos[j] - 1
                  ELSE pos[j]
    BY <2>1 DEF CardMoved
  <2>3. closed[j] = IF pos[j] > pos[k] THEN pos[j] - 1 ELSE pos[j]
    BY <1>2
  <2> QED
    BY <2>1, <2>2, <2>3
<1>5. CardIn(mid, closed, col2, pos2, c, k, p)
  BY <1>1, <1>4 DEF CardIn, CardMoved
<1> QED
  BY <1>3, <1>5

LEMMA DenseMove ==
  ASSUME NEW col, NEW pos, NEW col2, NEW pos2, NEW c \in Columns, NEW n \in Nat,
         DenseTo(col, pos, c, n), NEW k \in Cards, NEW p \in 0 .. (n - 1),
         CardMoved(col, pos, col2, pos2, c, k, p)
  PROVE  DenseTo(col2, pos2, c, n)
<1>1. PICK mid, closed : /\ CardOut(col, pos, mid, closed, c, k)
                         /\ CardIn(mid, closed, col2, pos2, c, k, p)
  BY MovedIsOutAndIn
<1>2. n - 1 \in Nat /\ DenseTo(mid, closed, c, n - 1)
  BY <1>1, DenseRemove
<1>3. PICK m \in Nat : m = n - 1
  BY <1>2
<1>4. DenseTo(mid, closed, c, m) /\ p \in 0 .. m
  BY <1>2, <1>3
<1>5. DenseTo(col2, pos2, c, m + 1)
  BY <1>1, <1>4, DenseInsert
<1> QED
  BY <1>3, <1>5

LEMMA DenseJoin ==
  ASSUME NEW col, NEW pos, NEW col2, NEW pos2, NEW source, NEW target,
         source # target, NEW n \in Nat, NEW m \in Nat,
         DenseTo(col, pos, source, n), DenseTo(col, pos, target, m),
         Joined(col, pos, col2, pos2, source, target, m)
  PROVE  DenseTo(col2, pos2, target, m + n)
<1>1. \A k \in Cards : col[k] = source => pos[k] \in 0 .. (n - 1)
  BY DEF DenseTo
<1>2. \A k \in Cards : col[k] = target => pos[k] \in 0 .. (m - 1)
  BY DEF DenseTo
<1>3. ASSUME NEW j \in Cards, NEW k \in Cards,
             col2[j] = target, col2[k] = target, pos2[j] = pos2[k]
      PROVE  j = k
  <2>1. CASE col[j] = source /\ col[k] = source
    BY <2>1, <1>1, <1>3 DEF Joined, DenseTo
  <2>2. CASE col[j] = target /\ col[k] = target
    BY <2>2, <1>3 DEF Joined, DenseTo
  <2>3. CASE col[j] # col[k]
    BY <2>3, <1>1, <1>2, <1>3 DEF Joined
  <2> QED
    BY <1>3, <2>1, <2>2, <2>3 DEF Joined
<1>4. \A k \in Cards : col2[k] = target => pos2[k] \in 0 .. (m + n - 1)
  BY <1>1, <1>2 DEF Joined
<1>5. ASSUME NEW i \in 0 .. (m + n - 1)
      PROVE  \E k \in Cards : col2[k] = target /\ pos2[k] = i
  <2>1. CASE i < m
    <3>1. PICK k \in Cards : col[k] = target /\ pos[k] = i
      BY <2>1 DEF DenseTo
    <3> QED
      BY <3>1 DEF Joined
  <2>2. CASE i >= m
    <3>1. i - m \in 0 .. (n - 1)
      BY <2>2
    <3>2. PICK k \in Cards : col[k] = source /\ pos[k] = i - m
      BY <3>1 DEF DenseTo
    <3> QED
      BY <3>2, <2>2 DEF Joined
  <2> QED
    BY <2>1, <2>2
<1> QED
  BY <1>3, <1>4, <1>5 DEF DenseTo

-----------------------------------------------------------------------------
(* Ranks: what rewrite_card_positions and move_cards_into number by. *)

StrictOrderOn(rows, before) ==
  /\ \A k \in rows : << k, k >> \notin before
  /\ \A i, j, k \in rows :
       << i, j >> \in before /\ << j, k >> \in before => << i, k >> \in before
  /\ \A j, k \in rows : j # k => << j, k >> \in before \/ << k, j >> \in before

(* Along a strict total order the indexes of the rows are 0 .. n-1, each    *)
(* once, and in that order.                                                *)
LEMMA RanksAreDense ==
  ASSUME NEW rows, IsFiniteSet(rows), NEW before, StrictOrderOn(rows, before)
  PROVE  /\ \A k \in rows : IndexIn(rows, before, k) \in 0 .. (Cardinality(rows) - 1)
         /\ \A j, k \in rows :
              IndexIn(rows, before, j) = IndexIn(rows, before, k) => j = k
         /\ \A i \in 0 .. (Cardinality(rows) - 1) :
              \E k \in rows : IndexIn(rows, before, k) = i
         /\ \A j, k \in rows :
              << j, k >> \in before => IndexIn(rows, before, j) < IndexIn(rows, before, k)
<1> DEFINE n == Cardinality(rows)
           earlier(k) == {j \in rows : << j, k >> \in before}
           rank == [k \in rows |-> IndexIn(rows, before, k)]
<1>1. n \in Nat
  BY FS_CardinalityType
<1>2. ASSUME NEW k \in rows
      PROVE  /\ IsFiniteSet(earlier(k))
             /\ IndexIn(rows, before, k) = Cardinality(earlier(k))
             /\ Cardinality(earlier(k)) \in 0 .. (n - 1)
             /\ IndexIn(rows, before, k) \in 0 .. (n - 1)
  <2>1. earlier(k) \in SUBSET rows /\ earlier(k) # rows
    BY DEF StrictOrderOn
  <2>2. /\ IsFiniteSet(earlier(k))
        /\ Cardinality(earlier(k)) <= n
        /\ n = Cardinality(earlier(k)) => rows = earlier(k)
    BY <2>1, FS_Subset
  <2>3. Cardinality(earlier(k)) \in Nat
    BY <2>2, FS_CardinalityType
  <2> QED
    BY <1>1, <2>1, <2>2, <2>3 DEF IndexIn
<1>3. ASSUME NEW j \in rows, NEW k \in rows, << j, k >> \in before
      PROVE  IndexIn(rows, before, j) < IndexIn(rows, before, k)
  <2>1. earlier(j) \in SUBSET earlier(k) /\ j \in earlier(k) /\ j \notin earlier(j)
    BY <1>3 DEF StrictOrderOn
  <2>2. /\ Cardinality(earlier(j)) <= Cardinality(earlier(k))
        /\ Cardinality(earlier(k)) = Cardinality(earlier(j)) => earlier(k) = earlier(j)
    BY <1>2, <2>1, FS_Subset
  <2> HIDE DEF earlier
  <2>3. Cardinality(earlier(j)) # Cardinality(earlier(k))
    BY <2>1, <2>2
  <2>4. Cardinality(earlier(j)) \in Int /\ Cardinality(earlier(k)) \in Int
    BY <1>1, <1>2
  <2> QED
    BY <1>2, <2>2, <2>3, <2>4
<1>4. ASSUME NEW j \in rows, NEW k \in rows,
             IndexIn(rows, before, j) = IndexIn(rows, before, k)
      PROVE  j = k
  <2>1. IndexIn(rows, before, j) \in 0 .. (n - 1)
    BY <1>2
  <2>2. << j, k >> \notin before /\ << k, j >> \notin before
    BY <1>1, <1>3, <1>4, <2>1
  <2> QED
    BY <2>2 DEF StrictOrderOn
<1>5. rank \in Injection(rows, 0 .. (n - 1))
  BY <1>2, <1>4 DEF Injection, IsInjective
<1>6. IsFiniteSet(0 .. (n - 1)) /\ Cardinality(0 .. (n - 1)) = n
  BY <1>1, FS_Interval
<1>7. rank \in Surjection(rows, 0 .. (n - 1))
  BY <1>5, <1>6, FS_Injection
<1> QED
  BY <1>2, <1>3, <1>4, <1>7 DEF Surjection

(* ORDER BY created_at, id is a total order: ids break every tie. *)
LEMMA AgeIsStrictOrder ==
  ASSUME NEW rows, rows \subseteq Cards, NEW desc \in BOOLEAN
  PROVE  StrictOrderOn(rows, ByAge(desc))
<1>1. \A j, k \in Cards :
        << j, k >> \in ByAge(desc) <=>
          \/ CreatedAt[j] = CreatedAt[k] /\ j < k
          \/ ~desc /\ CreatedAt[j] < CreatedAt[k]
          \/ desc /\ CreatedAt[j] > CreatedAt[k]
  BY DEF ByAge
<1>2. \A k \in Cards : k \in Nat /\ CreatedAt[k] \in Nat
  BY ConstantsAssumption
<1> QED
  BY <1>1, <1>2 DEF StrictOrderOn

(* ORDER BY position is one too, ids breaking the ties a column never has. *)
LEMMA PositionIsStrictOrder ==
  ASSUME NEW rows, rows \subseteq Cards, NEW pos \in [Cards -> Nat]
  PROVE  StrictOrderOn(rows, ByPosition(pos))
<1>1. \A j, k \in Cards :
        << j, k >> \in ByPosition(pos) <=>
          \/ pos[j] < pos[k]
          \/ pos[j] = pos[k] /\ j < k
  BY DEF ByPosition
<1>2. \A k \in Cards : k \in Nat /\ pos[k] \in Nat
  BY ConstantsAssumption
<1> QED
  BY <1>1, <1>2 DEF StrictOrderOn

(* A column rewritten to the indexes of any total order is dense. *)
LEMMA DenseRewrite ==
  ASSUME NEW col, NEW pos, NEW c, NEW n \in Nat, DenseTo(col, pos, c, n),
         NEW before, StrictOrderOn(InColumn(col, c), before)
  PROVE  DenseTo(col, RewritePositions(col, pos, c, before), c, n)
<1> DEFINE rows == InColumn(col, c)
           ranked == RewritePositions(col, pos, c, before)
<1>1. IsFiniteSet(rows) /\ Cardinality(rows) = n
  BY DenseCount
<1>2. \A k \in Cards : k \in rows <=> col[k] = c
  BY DEF InColumn
<1>3. rows \subseteq Cards
  BY DEF InColumn
<1>4. \A k \in rows : ranked[k] = IndexIn(rows, before, k)
  BY <1>2, <1>3 DEF RewritePositions
<1>5. /\ \A k \in rows : ranked[k] \in 0 .. (n - 1)
      /\ \A j, k \in rows : ranked[j] = ranked[k] => j = k
      /\ \A i \in 0 .. (n - 1) : \E k \in rows : ranked[k] = i
  BY <1>1, <1>4, RanksAreDense
<1> QED
  BY <1>2, <1>3, <1>5 DEF DenseTo

(* The rows of a source column numbered on from MAX + 1 = m of the target. *)
(* In a dense column a card's index by position is its position. *)
LEMMA PositionIsRank ==
  ASSUME NEW col, NEW pos \in [Cards -> Nat], NEW c, NEW n \in Nat, DenseTo(col, pos, c, n),
         NEW k \in Cards, col[k] = c
  PROVE  IndexIn(InColumn(col, c), ByPosition(pos), k) = pos[k]
<1> DEFINE ahead == [j \in Cards |-> col[j] = c /\ pos[j] < pos[k]]
<1>1. pos[k] \in 0 .. (n - 1)
  BY DEF DenseTo
<1>2. \A j \in Cards : ahead[j] = TRUE <=> col[j] = c /\ pos[j] < pos[k]
  OBVIOUS
<1> HIDE DEF ahead
<1>3. DenseTo(ahead, pos, TRUE, pos[k])
  <2>1. \A i, j \in Cards :
          ahead[i] = TRUE /\ ahead[j] = TRUE /\ pos[i] = pos[j] => i = j
    BY <1>2 DEF DenseTo
  <2>2. \A j \in Cards : ahead[j] = TRUE => pos[j] \in 0 .. (pos[k] - 1)
    BY <1>1, <1>2
  <2>3. ASSUME NEW i \in 0 .. (pos[k] - 1)
        PROVE  \E j \in Cards : ahead[j] = TRUE /\ pos[j] = i
    <3>1. PICK j \in Cards : col[j] = c /\ pos[j] = i
      BY <1>1 DEF DenseTo
    <3> QED
      BY <1>1, <1>2, <3>1
  <2> QED
    BY <2>1, <2>2, <2>3 DEF DenseTo
<1>4. Cardinality(InColumn(ahead, TRUE)) = pos[k]
  BY <1>3, DenseCount
<1>5. InColumn(ahead, TRUE) = {j \in InColumn(col, c) : << j, k >> \in ByPosition(pos)}
  <2>1. ASSUME NEW j \in Cards, col[j] = c
        PROVE  << j, k >> \in ByPosition(pos) <=> pos[j] < pos[k]
    <3>1. << j, k >> \in ByPosition(pos) <=> pos[j] < pos[k] \/ (pos[j] = pos[k] /\ j < k)
      BY DEF ByPosition
    <3>2. pos[j] = pos[k] => j = k
      BY <2>1 DEF DenseTo
    <3> QED
      BY <3>1, <3>2, ConstantsAssumption
  <2> QED
    BY <1>2, <2>1 DEF InColumn
<1> QED
  BY <1>4, <1>5 DEF IndexIn

-----------------------------------------------------------------------------
(* The lists of CardOrder, and how an insert and a removal move their items. *)

LEMMA InsertedAt ==
  ASSUME NEW S, NEW s \in Seq(S), NEW i \in 1 .. (Len(s) + 1), NEW e \in S
  PROVE  /\ Order!InsertAt(s, i, e) \in Seq(S)
         /\ Len(Order!InsertAt(s, i, e)) = Len(s) + 1
         /\ \A j \in 1 .. (Len(s) + 1) :
              Order!InsertAt(s, i, e)[j] =
                IF j < i THEN s[j] ELSE IF j = i THEN e ELSE s[j - 1]
<1> DEFINE front == SubSeq(s, 1, i - 1)
           back == SubSeq(s, i, Len(s))
<1>1. Len(s) \in Nat /\ i \in Int
  BY LenProperties
<1>2. Len(s) \in Nat /\ \A j \in 1 .. Len(s) : s[j] \in S
  BY LenProperties, ElementOfSeq
<1>3. /\ front \in Seq(S)
      /\ Len(front) = i - 1
      /\ \A j \in 1 .. (i - 1) : front[j] = s[j]
  BY <1>2, SubSeqProperties
<1>4. /\ back \in Seq(S)
      /\ Len(back) = Len(s) - i + 1
      /\ \A j \in 1 .. (Len(s) - i + 1) : back[j] = s[i + j - 1]
  BY <1>2, SubSeqProperties
<1>5. /\ << e >> \in Seq(S)
      /\ Len(<< e >>) = 1
      /\ << e >>[1] = e
  OBVIOUS
<1> HIDE DEF front, back
<1> DEFINE led == front \o << e >>
<1>6. /\ led \in Seq(S)
      /\ Len(led) = Len(front) + Len(<< e >>)
      /\ \A j \in 1 .. (Len(front) + Len(<< e >>)) :
           led[j] = IF j <= Len(front) THEN front[j] ELSE << e >>[j - Len(front)]
  BY <1>3, <1>5, ConcatProperties
<1> HIDE DEF led
<1>7. led \in Seq(S) /\ Len(led) = i /\ \A j \in 1 .. i : led[j] = IF j < i THEN s[j] ELSE e
  <2>1. Len(led) = i
    BY <1>3, <1>5, <1>6
  <2>2. ASSUME NEW j \in 1 .. i, j < i
        PROVE  led[j] = s[j]
    BY <1>3, <1>5, <1>6, <2>2
  <2>3. led[i] = e
    BY <1>3, <1>5, <1>6
  <2> QED
    BY <1>6, <2>1, <2>2, <2>3
<1> DEFINE all == led \o back
<1>8. /\ all \in Seq(S)
      /\ Len(all) = Len(s) + 1
      /\ \A j \in 1 .. (Len(s) + 1) :
           all[j] = IF j <= i THEN led[j] ELSE back[j - i]
  <2>1. /\ all \in Seq(S)
        /\ Len(all) = Len(led) + Len(back)
        /\ \A j \in 1 .. (Len(led) + Len(back)) :
             all[j] = IF j <= Len(led) THEN led[j] ELSE back[j - Len(led)]
    BY <1>4, <1>7, ConcatProperties
  <2> QED
    BY <1>2, <1>4, <1>6, <1>7, <2>1
<1>9. Order!InsertAt(s, i, e) = all
  BY DEF Order!InsertAt, led, front, back
<1> HIDE DEF all
<1>10. ASSUME NEW j \in 1 .. (Len(s) + 1)
      PROVE  all[j] = IF j < i THEN s[j] ELSE IF j = i THEN e ELSE s[j - 1]
  <2>1. CASE j <= i
    BY <2>1, <1>6, <1>7, <1>8
  <2>2. CASE j > i
    <3>1. j - i \in 1 .. (Len(s) - i + 1) /\ i + (j - i) - 1 = j - 1
      BY <1>2, <2>2
    <3> QED
      BY <1>2, <1>4, <1>8, <2>2, <3>1
  <2> QED
    BY <1>1, <2>1, <2>2
<1> QED
  BY <1>8, <1>9, <1>10

LEMMA RemovedAt ==
  ASSUME NEW S, NEW s \in Seq(S), NEW i \in 1 .. Len(s)
  PROVE  /\ Order!RemoveAt(s, i) \in Seq(S)
         /\ Len(Order!RemoveAt(s, i)) = Len(s) - 1
         /\ \A j \in 1 .. (Len(s) - 1) :
              Order!RemoveAt(s, i)[j] = IF j < i THEN s[j] ELSE s[j + 1]
<1> DEFINE front == SubSeq(s, 1, i - 1)
           back == SubSeq(s, i + 1, Len(s))
<1>1. Len(s) \in Nat /\ i \in Int
  BY LenProperties
<1>2. Len(s) \in Nat /\ \A j \in 1 .. Len(s) : s[j] \in S
  BY LenProperties, ElementOfSeq
<1>3. /\ front \in Seq(S)
      /\ Len(front) = i - 1
      /\ \A j \in 1 .. (i - 1) : front[j] = s[j]
  BY <1>2, SubSeqProperties
<1>4. /\ back \in Seq(S)
      /\ Len(back) = Len(s) - i
      /\ \A j \in 1 .. (Len(s) - i) : back[j] = s[i + j]
  BY <1>2, SubSeqProperties
<1> HIDE DEF front, back
<1> DEFINE all == front \o back
<1>5. /\ all \in Seq(S)
      /\ Len(all) = Len(front) + Len(back)
      /\ \A j \in 1 .. (Len(front) + Len(back)) :
           all[j] = IF j <= Len(front) THEN front[j] ELSE back[j - Len(front)]
  BY <1>3, <1>4, ConcatProperties
<1>6. Order!RemoveAt(s, i) = all
  BY DEF Order!RemoveAt, front, back
<1> HIDE DEF all
<1>7. /\ Len(all) = Len(s) - 1
      /\ \A j \in 1 .. (Len(s) - 1) :
           all[j] = IF j <= i - 1 THEN front[j] ELSE back[j - (i - 1)]
  <2>1. Len(front) + Len(back) = Len(s) - 1
    BY <1>1, <1>3, <1>4
  <2> QED
    BY <1>3, <1>5, <2>1
<1>8. ASSUME NEW j \in 1 .. (Len(s) - 1)
      PROVE  all[j] = IF j < i THEN s[j] ELSE s[j + 1]
  <2>1. CASE j < i
    BY <1>1, <1>3, <1>7, <2>1
  <2>2. CASE j >= i
    <3>1. j - (i - 1) \in 1 .. (Len(s) - i) /\ i + (j - (i - 1)) = j + 1
      BY <1>2, <2>2
    <3> QED
      BY <1>2, <1>3, <1>4, <1>7, <2>2, <3>1
  <2> QED
    BY <1>1, <2>1, <2>2
<1> QED
  BY <1>5, <1>6, <1>8, <1>7

(* The place nearest to the one asked for is the clamped position. *)
LEMMA NearestIsClamped ==
  ASSUME NEW r \in Int, NEW n \in Nat
  PROVE  Order!Nearest(r, n + 1) = ClampPosition(r, n)
<1> DEFINE away(x) == IF x < r THEN r - x ELSE x - r
           closest(p) == \A q \in 0 .. n : away(p) <= away(q)
           clamped == ClampPosition(r, n)
<1>1. clamped \in 0 .. n /\ clamped = IF r < 0 THEN 0 ELSE IF r > n THEN n ELSE r
  BY DEF ClampPosition
<1> HIDE DEF clamped
<1>2. closest(clamped)
  BY <1>1
<1>3. \A p \in 0 .. n : closest(p) => p = clamped
  BY <1>1
<1>4. Order!Nearest(r, n + 1) = CHOOSE p \in 0 .. n : closest(p)
  <2>1. (n + 1) - 1 = n
    OBVIOUS
  <2> QED
    BY <2>1 DEF Order!Nearest
<1> QED
  BY <1>1, <1>2, <1>3, <1>4 DEF clamped

(* The slot i + 1 of the list s has the card of position i of a column. *)
Shows(s, col, pos, c, n) ==
  /\ s \in Seq(Cards)
  /\ Len(s) = n
  /\ \A i \in 1 .. n : s[i] \in Cards /\ col[s[i]] = c /\ pos[s[i]] = i - 1

(* Listed is that list. *)
LEMMA ListedRows ==
  ASSUME NEW col, NEW pos, NEW c, NEW n \in Nat, DenseTo(col, pos, c, n)
  PROVE  /\ Shows(Listed(col, pos, c), col, pos, c, n)
         /\ \A k \in Cards : col[k] = c => /\ pos[k] + 1 \in 1 .. n
                                          /\ Listed(col, pos, c)[pos[k] + 1] = k
<1> DEFINE list == Listed(col, pos, c)
<1>1. Cardinality(InColumn(col, c)) = n
  BY DenseCount
<1>2. ASSUME NEW i \in 1 .. n
      PROVE  list[i] \in InColumn(col, c) /\ pos[list[i]] = i - 1
  <2>1. list[i] = CHOOSE k \in InColumn(col, c) : pos[k] = i - 1
    BY <1>1 DEF Listed
  <2>2. i - 1 \in 0 .. (n - 1)
    OBVIOUS
  <2>3. \E k \in InColumn(col, c) : pos[k] = i - 1
    BY <2>2 DEF DenseTo, InColumn
  <2> QED
    BY <2>1, <2>3
<1>3. list = [i \in 1 .. n |-> list[i]]
  BY <1>1 DEF Listed
<1> HIDE DEF list
<1>4. \A i \in 1 .. n : list[i] \in Cards /\ col[list[i]] = c /\ pos[list[i]] = i - 1
  BY <1>2 DEF InColumn
<1>5. list \in [1 .. n -> Cards]
  BY <1>3, <1>4
<1>6. list \in Seq(Cards) /\ Len(list) = n
  <2>1. list \in Seq(Cards)
    BY <1>5, SeqDef
  <2>2. DOMAIN list = 1 .. n /\ DOMAIN list = 1 .. Len(list) /\ Len(list) \in Nat
    BY <1>5, <2>1, LenProperties
  <2> QED
    BY <2>1, <2>2
<1>7. ASSUME NEW k \in Cards, col[k] = c
      PROVE  pos[k] + 1 \in 1 .. n /\ list[pos[k] + 1] = k
  <2>1. pos[k] \in 0 .. (n - 1)
    BY <1>7 DEF DenseTo
  <2>2. pos[k] + 1 \in 1 .. n /\ (pos[k] + 1) - 1 = pos[k]
    BY <2>1
  <2>3. list[pos[k] + 1] \in Cards /\ col[list[pos[k] + 1]] = c /\ pos[list[pos[k] + 1]] = pos[k]
    BY <1>4, <2>2
  <2> QED
    BY <1>7, <2>2, <2>3 DEF DenseTo
<1> QED
  BY <1>4, <1>6, <1>7 DEF list, Shows

(* And no other list is. *)
LEMMA ListedIs ==
  ASSUME NEW col, NEW pos, NEW c, NEW n \in Nat, DenseTo(col, pos, c, n),
         NEW s, Shows(s, col, pos, c, n)
  PROVE  Listed(col, pos, c) = s
<1> DEFINE list == Listed(col, pos, c)
<1>1. Shows(list, col, pos, c, n)
  BY ListedRows
<1> HIDE DEF list
<1>2. ASSUME NEW i \in 1 .. n PROVE list[i] = s[i]
  BY <1>1 DEF Shows, DenseTo
<1>3. list \in [1 .. n -> Cards] /\ s \in [1 .. n -> Cards]
  BY <1>1, LenProperties DEF Shows
<1>4. list = s
  BY <1>2, <1>3
<1> QED
  BY <1>4 DEF list

LEMMA ListedFrame ==
  ASSUME NEW col, NEW pos, NEW col2, NEW pos2, NEW c, NEW n \in Nat,
         DenseTo(col, pos, c, n), Untouched(col, pos, col2, pos2, c)
  PROVE  Listed(col2, pos2, c) = Listed(col, pos, c)
<1> DEFINE list == Listed(col, pos, c)
<1>1. Shows(list, col, pos, c, n)
  BY ListedRows
<1> HIDE DEF list
<1>2. Shows(list, col2, pos2, c, n)
  BY <1>1 DEF Shows, Untouched
<1>3. DenseTo(col2, pos2, c, n)
  BY DenseFrame
<1> QED
  BY <1>2, <1>3, ListedIs DEF list

LEMMA ListedInsert ==
  ASSUME NEW col, NEW pos, NEW col2, NEW pos2, NEW c, NEW n \in Nat,
         DenseTo(col, pos, c, n), NEW k \in Cards, NEW p \in 0 .. n,
         CardIn(col, pos, col2, pos2, c, k, p)
  PROVE  Listed(col2, pos2, c) = Order!InsertAt(Listed(col, pos, c), p + 1, k)
<1> DEFINE list == Listed(col, pos, c)
           inserted == Order!InsertAt(list, p + 1, k)
<1>1. Shows(list, col, pos, c, n)
  BY ListedRows
<1> HIDE DEF list
<1>2. /\ inserted \in Seq(Cards)
      /\ Len(inserted) = Len(list) + 1
      /\ \A i \in 1 .. (Len(list) + 1) :
           inserted[i] = IF i < p + 1 THEN list[i] ELSE IF i = p + 1 THEN k ELSE list[i - 1]
  <2>1. list \in Seq(Cards)
    BY <1>1 DEF Shows
  <2>2. PICK q \in 1 .. (Len(list) + 1) : q = p + 1
    BY <1>1 DEF Shows
  <2>3. /\ Order!InsertAt(list, q, k) \in Seq(Cards)
        /\ Len(Order!InsertAt(list, q, k)) = Len(list) + 1
        /\ \A i \in 1 .. (Len(list) + 1) :
             Order!InsertAt(list, q, k)[i] =
               IF i < q THEN list[i] ELSE IF i = q THEN k ELSE list[i - 1]
    BY <2>1, InsertedAt, SMTT(30)
  <2> QED
    BY <2>2, <2>3
<1> HIDE DEF inserted
<1>3. PICK m \in Nat : m = n + 1
  OBVIOUS
<1>4. ASSUME NEW i \in 1 .. m
      PROVE  inserted[i] \in Cards /\ col2[inserted[i]] = c /\ pos2[inserted[i]] = i - 1
  <2>1. CASE i < p + 1
    <3>1. i \in 1 .. n /\ inserted[i] = list[i]
      BY <1>1, <1>2, <1>3, <2>1 DEF Shows
    <3>2. list[i] \in Cards \ {k} /\ col[list[i]] = c /\ pos[list[i]] = i - 1
      BY <1>1, <3>1 DEF Shows, CardIn
    <3> QED
      BY <2>1, <3>1, <3>2 DEF CardIn
  <2>2. CASE i = p + 1
    BY <1>1, <1>2, <1>3, <2>2 DEF CardIn, Shows
  <2>3. CASE i > p + 1
    <3>1. i - 1 \in 1 .. n /\ inserted[i] = list[i - 1]
      BY <1>1, <1>2, <1>3, <2>3 DEF Shows
    <3>2. list[i - 1] \in Cards \ {k} /\ col[list[i - 1]] = c /\ pos[list[i - 1]] = i - 2
      BY <1>1, <3>1 DEF Shows, CardIn
    <3> QED
      BY <2>3, <3>1, <3>2 DEF CardIn
  <2> QED
    BY <2>1, <2>2, <2>3
<1>5. Shows(inserted, col2, pos2, c, m)
  BY <1>1, <1>2, <1>3, <1>4 DEF Shows
<1>6. DenseTo(col2, pos2, c, m)
  BY <1>3, DenseInsert
<1>7. Listed(col2, pos2, c) = inserted
  BY <1>5, <1>6, ListedIs
<1> QED
  BY <1>7 DEF inserted, list

LEMMA ListedRemove ==
  ASSUME NEW col, NEW pos, NEW col2, NEW pos2, NEW c, NEW n \in Nat,
         DenseTo(col, pos, c, n), NEW k \in Cards,
         CardOut(col, pos, col2, pos2, c, k)
  PROVE  Listed(col2, pos2, c) = Order!RemoveAt(Listed(col, pos, c), pos[k] + 1)
<1> DEFINE list == Listed(col, pos, c)
           removed == Order!RemoveAt(list, pos[k] + 1)
<1>1. Shows(list, col, pos, c, n)
  BY ListedRows
<1>2. pos[k] \in 0 .. (n - 1) /\ \A j \in Cards \ {k} : col[j] = c => pos[j] # pos[k]
  BY DEF DenseTo, CardOut
<1> HIDE DEF list
<1>3. /\ removed \in Seq(Cards)
      /\ Len(removed) = Len(list) - 1
      /\ \A i \in 1 .. (Len(list) - 1) :
           removed[i] = IF i < pos[k] + 1 THEN list[i] ELSE list[i + 1]
  <2>1. list \in Seq(Cards) /\ pos[k] + 1 \in 1 .. Len(list)
    BY <1>1, <1>2 DEF Shows
  <2> QED
    BY <2>1, RemovedAt
<1> HIDE DEF removed
<1>4. PICK m \in Nat : m = n - 1
  BY <1>2
<1>5. ASSUME NEW i \in 1 .. m
      PROVE  removed[i] \in Cards /\ col2[removed[i]] = c /\ pos2[removed[i]] = i - 1
  <2>1. CASE i < pos[k] + 1
    <3>1. i \in 1 .. n /\ removed[i] = list[i]
      BY <1>1, <1>3, <1>4, <2>1 DEF Shows
    <3>2. list[i] \in Cards \ {k} /\ col[list[i]] = c /\ pos[list[i]] = i - 1
      BY <1>1, <1>2, <2>1, <3>1 DEF Shows
    <3> QED
      BY <1>2, <2>1, <3>1, <3>2 DEF CardOut
  <2>2. CASE i >= pos[k] + 1
    <3>1. i + 1 \in 1 .. n /\ removed[i] = list[i + 1]
      BY <1>1, <1>2, <1>3, <1>4, <2>2 DEF Shows
    <3>2. list[i + 1] \in Cards \ {k} /\ col[list[i + 1]] = c /\ pos[list[i + 1]] = i
      BY <1>1, <1>2, <2>2, <3>1 DEF Shows
    <3> QED
      BY <1>2, <2>2, <3>1, <3>2 DEF CardOut
  <2> QED
    BY <1>2, <2>1, <2>2
<1>6. Shows(removed, col2, pos2, c, m)
  BY <1>1, <1>3, <1>4, <1>5 DEF Shows
<1>7. DenseTo(col2, pos2, c, m)
  BY <1>4, DenseRemove
<1>8. Listed(col2, pos2, c) = removed
  BY <1>6, <1>7, ListedIs
<1> QED
  BY <1>8 DEF removed, list

LEMMA ListedMove ==
  ASSUME NEW col, NEW pos, NEW col2, NEW pos2, NEW c \in Columns, NEW n \in Nat,
         DenseTo(col, pos, c, n), NEW k \in Cards, NEW p \in 0 .. (n - 1),
         CardMoved(col, pos, col2, pos2, c, k, p)
  PROVE  Listed(col2, pos2, c) =
           Order!InsertAt(Order!RemoveAt(Listed(col, pos, c), pos[k] + 1), p + 1, k)
<1>1. PICK mid, closed : /\ CardOut(col, pos, mid, closed, c, k)
                         /\ CardIn(mid, closed, col2, pos2, c, k, p)
  BY MovedIsOutAndIn
<1>2. PICK m \in Nat : m = n - 1
  OBVIOUS
<1>3. DenseTo(mid, closed, c, m) /\ p \in 0 .. m
  BY <1>1, <1>2, DenseRemove
<1>4. Listed(mid, closed, c) = Order!RemoveAt(Listed(col, pos, c), pos[k] + 1)
  BY <1>1, ListedRemove
<1>5. Listed(col2, pos2, c) = Order!InsertAt(Listed(mid, closed, c), p + 1, k)
  BY <1>1, <1>3, ListedInsert
<1> QED
  BY <1>4, <1>5

LEMMA ListedJoin ==
  ASSUME NEW col, NEW pos, NEW col2, NEW pos2, NEW source, NEW target,
         source # target, NEW n \in Nat, NEW m \in Nat,
         DenseTo(col, pos, source, n), DenseTo(col, pos, target, m),
         Joined(col, pos, col2, pos2, source, target, m)
  PROVE  Listed(col2, pos2, target) = Listed(col, pos, target) \o Listed(col, pos, source)
<1> DEFINE front == Listed(col, pos, target)
           back == Listed(col, pos, source)
           all == front \o back
<1>1. Shows(front, col, pos, target, m) /\ Shows(back, col, pos, source, n)
  BY ListedRows
<1> HIDE DEF front, back
<1>2. /\ all \in Seq(Cards)
      /\ Len(all) = Len(front) + Len(back)
      /\ \A i \in 1 .. (Len(front) + Len(back)) :
           all[i] = IF i <= Len(front) THEN front[i] ELSE back[i - Len(front)]
  <2>1. front \in Seq(Cards) /\ back \in Seq(Cards)
    BY <1>1 DEF Shows
  <2> QED
    BY <2>1, ConcatProperties
<1> HIDE DEF all
<1>3. PICK l \in Nat : l = m + n
  OBVIOUS
<1>4. ASSUME NEW i \in 1 .. l
      PROVE  all[i] \in Cards /\ col2[all[i]] = target /\ pos2[all[i]] = i - 1
  <2>1. CASE i <= m
    <3>1. i \in 1 .. m /\ all[i] = front[i]
      BY <1>1, <1>2, <1>3, <2>1 DEF Shows
    <3>2. front[i] \in Cards /\ col[front[i]] = target /\ pos[front[i]] = i - 1
      BY <1>1, <3>1 DEF Shows
    <3> QED
      BY <3>1, <3>2 DEF Joined
  <2>2. CASE i > m
    <3>1. i - m \in 1 .. n /\ all[i] = back[i - m]
      BY <1>1, <1>2, <1>3, <2>2 DEF Shows
    <3>2. back[i - m] \in Cards /\ col[back[i - m]] = source /\ pos[back[i - m]] = i - m - 1
      BY <1>1, <3>1 DEF Shows
    <3> QED
      BY <3>1, <3>2 DEF Joined
  <2> QED
    BY <2>1, <2>2
<1>5. Shows(all, col2, pos2, target, l)
  BY <1>1, <1>2, <1>3, <1>4 DEF Shows
<1>6. DenseTo(col2, pos2, target, l)
  BY <1>3, DenseJoin
<1>7. Listed(col2, pos2, target) = all
  BY <1>5, <1>6, ListedIs
<1> QED
  BY <1>7 DEF all, front, back

(* A column rewritten to the indexes of a total order is sorted by it. *)
LEMMA ListedRewrite ==
  ASSUME NEW col, NEW pos, NEW c, NEW n \in Nat, DenseTo(col, pos, c, n),
         NEW before, StrictOrderOn(InColumn(col, c), before)
  PROVE  LET list == Listed(col, RewritePositions(col, pos, c, before), c) IN
         /\ list \in Order!Bijection(DOMAIN Listed(col, pos, c), Order!ToSet(Listed(col, pos, c)))
         /\ \A i, j \in DOMAIN list : i < j => << list[i], list[j] >> \in before
<1> DEFINE rows == InColumn(col, c)
           ranked == RewritePositions(col, pos, c, before)
           old == Listed(col, pos, c)
           new == Listed(col, ranked, c)
<1>1. IsFiniteSet(rows) /\ Cardinality(rows) = n
  BY DenseCount
<1>2. \A k \in rows : k \in Cards /\ col[k] = c /\ ranked[k] = IndexIn(rows, before, k)
  BY DEF InColumn, RewritePositions
<1>3. DenseTo(col, ranked, c, n)
  BY DenseRewrite
<1> HIDE DEF ranked
<1>4. /\ new \in Seq(Cards)
      /\ Len(new) = n
      /\ \A i \in 1 .. n : new[i] \in rows /\ ranked[new[i]] = i - 1
      /\ \A k \in rows : ranked[k] + 1 \in 1 .. n /\ new[ranked[k] + 1] = k
  BY <1>3, ListedRows DEF InColumn, Shows
<1>5. /\ old \in Seq(Cards)
      /\ Len(old) = n
      /\ \A i \in 1 .. n : old[i] \in rows
      /\ \A k \in rows : pos[k] + 1 \in 1 .. n /\ old[pos[k] + 1] = k
  BY ListedRows DEF InColumn, Shows
<1> HIDE DEF old, new, rows
<1>6. DOMAIN new = 1 .. n /\ DOMAIN old = 1 .. n /\ new \in [1 .. n -> Cards]
  BY <1>4, <1>5, LenProperties
<1>7. Order!ToSet(old) = rows
  <2>1. \A x \in Order!ToSet(old) : x \in rows
    BY <1>5, <1>6 DEF Order!ToSet
  <2>2. \A x \in rows : x \in Order!ToSet(old)
    BY <1>5, <1>6 DEF Order!ToSet
  <2> QED
    BY <2>1, <2>2
<1>8. new \in Order!Bijection(1 .. n, rows)
  <2>1. new \in [1 .. n -> rows]
    BY <1>4, <1>6
  <2>2. \A i, j \in 1 .. n : new[i] = new[j] => i = j
    BY <1>4
  <2>3. \A k \in rows : \E i \in 1 .. n : new[i] = k
    BY <1>4
  <2> QED
    BY <2>1, <2>2, <2>3 DEF Order!Bijection, Order!Injection, Order!Surjection, Order!IsInjective
<1>9. ASSUME NEW i \in 1 .. n, NEW j \in 1 .. n, i < j
      PROVE  << new[i], new[j] >> \in before
  <2>1. /\ new[i] \in rows /\ ranked[new[i]] = i - 1
        /\ new[j] \in rows /\ ranked[new[j]] = j - 1
    BY <1>4
  <2>2. /\ new[i] \in rows /\ new[j] \in rows /\ new[i] # new[j]
        /\ IndexIn(rows, before, new[i]) = i - 1
        /\ IndexIn(rows, before, new[j]) = j - 1
    BY <1>2, <1>9, <2>1
  <2>3. << new[j], new[i] >> \in before => j - 1 < i - 1
    BY <1>1, <2>2, RanksAreDense DEF rows
  <2> QED
    BY <1>9, <2>2, <2>3 DEF StrictOrderOn, rows
<1> QED
  BY <1>6, <1>7, <1>8, <1>9 DEF old, new, ranked

-----------------------------------------------------------------------------
(* What each request does, row by row, and that the invariant survives. *)

LEMMA ClampBounds ==
  ASSUME NEW r \in Int, NEW upper \in Nat
  PROVE  ClampPosition(r, upper) \in 0 .. upper
BY DEF ClampPosition

(* Columns that are not touched keep their numbering. *)
OthersUntouched(some) ==
  \A d \in Columns \ some : Untouched(column, position, column', position', d)

LEMMA OthersDense ==
  ASSUME IInv, NEW some, OthersUntouched(some), NEW d \in Columns \ some
  PROVE  \E n \in Nat : DenseTo(column', position', d, n)
<1>1. PICK n \in Nat : DenseTo(column, position, d, n)
  BY DEF IInv
<1>2. Untouched(column, position, column', position', d)
  BY DEF OthersUntouched
<1> QED
  BY <1>1, <1>2, DenseFrame

LEMMA InitIInv == Init => IInv
<1> SUFFICES ASSUME Init PROVE IInv
  OBVIOUS
<1>1. TypeOK
  BY DEF Init, TypeOK
<1>2. ASSUME NEW c \in Columns
      PROVE  DenseTo(column, position, c, 0)
  BY ConstantsAssumption DEF Init, DenseTo
<1> QED
  BY <1>1, <1>2 DEF IInv

LEMMA CreateCardRows ==
  ASSUME IInv, NEW k \in Cards, NEW c \in Columns, NEW r \in Requested \cup {Absent},
         CreateCard(k, c, r), NEW n \in Nat, DenseTo(column, position, c, n),
         NEW p, p = IF r = Absent THEN n ELSE ClampPosition(r, n)
  PROVE  /\ TypeOK'
         /\ p \in 0 .. n
         /\ column[k] = NotCreated
         /\ CardIn(column, position, column', position', c, k, p)
         /\ OthersUntouched({c})
<1> DEFINE end == MaxPosition(column, position, c) + 1
           opened == IF r = Absent THEN position ELSE OpenGap(column, position, c, p)
<1>1. end = n
  BY DenseMax
<1>2. p \in 0 .. n
  BY ClampBounds, ConstantsAssumption
<1>3. /\ column[k] = NotCreated
      /\ position' = [opened EXCEPT ![k] = p]
      /\ column' = [column EXCEPT ![k] = c]
  BY <1>1 DEF CreateCard
<1>4. \A j \in Cards : column[j] = c =>
        opened[j] = IF position[j] >= p THEN position[j] + 1 ELSE position[j]
  <2>1. CASE r = Absent
    BY <2>1 DEF DenseTo, IInv, TypeOK
  <2>2. CASE r # Absent
    BY <2>2 DEF OpenGap
  <2> QED
    BY <2>1, <2>2
<1>5. \A j \in Cards : column[j] # c => opened[j] = position[j]
  BY DEF OpenGap
<1>6. opened \in [Cards -> Nat]
  BY DEF IInv, TypeOK, OpenGap
<1> HIDE DEF opened
<1>7. TypeOK'
  BY <1>2, <1>3, <1>6 DEF IInv, TypeOK
<1>8. /\ column'[k] = c /\ position'[k] = p
      /\ \A j \in Cards \ {k} : column'[j] = column[j] /\ position'[j] = opened[j]
  BY <1>3, <1>6 DEF IInv, TypeOK
<1>9. column[k] \notin Columns
  BY <1>3, ConstantsAssumption
<1>10. CardIn(column, position, column', position', c, k, p)
  BY <1>4, <1>8, <1>9 DEF CardIn
<1>11. OthersUntouched({c})
  BY <1>5, <1>8, <1>9 DEF OthersUntouched, Untouched
<1> QED
  BY <1>2, <1>3, <1>7, <1>10, <1>11

LEMMA CreateCardIInv ==
  ASSUME IInv, NEW k \in Cards, NEW c \in Columns, NEW r \in Requested \cup {Absent},
         CreateCard(k, c, r)
  PROVE  IInv'
<1>1. PICK n \in Nat : DenseTo(column, position, c, n)
  BY DEF IInv
<1> DEFINE p == IF r = Absent THEN n ELSE ClampPosition(r, n)
<1>2. /\ TypeOK'
      /\ p \in 0 .. n
      /\ CardIn(column, position, column', position', c, k, p)
      /\ OthersUntouched({c})
  BY <1>1, CreateCardRows
<1> HIDE DEF p
<1>3. DenseTo(column', position', c, n + 1)
  BY <1>1, <1>2, DenseInsert
<1>4. \A d \in Columns \ {c} : \E m \in Nat : DenseTo(column', position', d, m)
  BY <1>2, OthersDense
<1>5. \E m \in Nat : DenseTo(column', position', c, m)
  BY <1>3, n + 1 \in Nat
<1> QED
  BY <1>2, <1>4, <1>5 DEF IInv

LEMMA ReorderCardRows ==
  ASSUME IInv, NEW k \in Cards, NEW r \in Requested \cup {Absent}, ReorderCard(k, r),
         NEW n \in Nat, DenseTo(column, position, column[k], n),
         NEW p, p = IF r = Absent THEN position[k] ELSE ClampPosition(r, n - 1)
  PROVE  /\ TypeOK'
         /\ column[k] \in Columns
         /\ column' = column
         /\ n - 1 \in Nat
         /\ position[k] \in 0 .. (n - 1)
         /\ p \in 0 .. (n - 1)
         /\ CardMoved(column, position, column', position', column[k], k, p)
         /\ OthersUntouched({column[k]})
<1> DEFINE c == column[k]
           old == position[k]
           upper == Cardinality(InColumn(column, c)) - 1
           wanted == IF r = Absent THEN old ELSE r
           new == ClampPosition(wanted, upper)
           shifted == IF new < old THEN ShiftUp(column, position, c, new, old)
                      ELSE IF new > old THEN ShiftDown(column, position, c, old, new)
                      ELSE position
<1>1. c \in Columns /\ position' = [shifted EXCEPT ![k] = new] /\ column' = column
  BY DEF ReorderCard
<1>2. upper = n - 1
  BY DenseCount
<1>3. old \in 0 .. (n - 1)
  BY DEF DenseTo
<1>4. n - 1 \in Nat
  BY <1>3
<1>5. new \in 0 .. (n - 1) /\ new = p
  <2>1. wanted \in Int /\ upper \in Nat
    BY <1>2, <1>3, ConstantsAssumption
  <2>2. r = Absent => ClampPosition(old, upper) = old
    BY <1>2, <1>3 DEF ClampPosition
  <2> HIDE DEF wanted, upper
  <2>3. ClampPosition(wanted, upper) \in 0 .. upper
    BY <2>1, ClampBounds
  <2> QED
    BY <2>2, <2>3, <1>2 DEF wanted
<1> HIDE DEF upper, new
<1>6. shifted \in [Cards -> Nat]
  BY <1>3, <1>5 DEF IInv, TypeOK, ShiftUp, ShiftDown
<1>7. \A j \in Cards : column[j] # c => shifted[j] = position[j]
  BY DEF ShiftUp, ShiftDown
<1>8. ASSUME NEW j \in Cards, column[j] = c
      PROVE  shifted[j] = IF new <= position[j] /\ position[j] < old THEN position[j] + 1
                          ELSE IF old < position[j] /\ position[j] <= new THEN position[j] - 1
                          ELSE position[j]
  BY <1>3, <1>5, <1>8 DEF IInv, TypeOK, ShiftUp, ShiftDown
<1> HIDE DEF shifted
<1>9. TypeOK'
  BY <1>1, <1>5, <1>6 DEF IInv, TypeOK
<1>10. position'[k] = new /\ \A j \in Cards \ {k} : position'[j] = shifted[j]
  BY <1>1, <1>6
<1>11. CardMoved(column, position, column', position', c, k, p)
  BY <1>1, <1>5, <1>8, <1>10 DEF CardMoved
<1>12. OthersUntouched({c})
  BY <1>1, <1>7, <1>10 DEF OthersUntouched, Untouched
<1> QED
  BY <1>1, <1>3, <1>4, <1>5, <1>9, <1>11, <1>12

LEMMA ReorderCardIInv ==
  ASSUME IInv, NEW k \in Cards, NEW r \in Requested \cup {Absent}, ReorderCard(k, r)
  PROVE  IInv'
<1> DEFINE c == column[k]
<1>1. PICK n \in Nat : DenseTo(column, position, c, n)
  BY DEF IInv, ReorderCard
<1> DEFINE p == IF r = Absent THEN position[k] ELSE ClampPosition(r, n - 1)
<1>2. /\ TypeOK'
      /\ c \in Columns
      /\ p \in 0 .. (n - 1)
      /\ CardMoved(column, position, column', position', c, k, p)
      /\ OthersUntouched({c})
  BY <1>1, ReorderCardRows
<1> HIDE DEF c, p
<1>3. DenseTo(column', position', c, n)
  BY <1>1, <1>2, DenseMove
<1>4. \A d \in Columns \ {c} : \E m \in Nat : DenseTo(column', position', d, m)
  BY <1>2, OthersDense
<1> QED
  BY <1>2, <1>3, <1>4 DEF IInv

LEMMA TransferCardRows ==
  ASSUME IInv, NEW k \in Cards, NEW target \in Columns, NEW r \in Requested \cup {Absent},
         TransferCard(k, target, r), NEW n \in Nat, DenseTo(column, position, target, n),
         NEW p, p = IF r = Absent THEN n ELSE ClampPosition(r, n)
  PROVE  /\ TypeOK'
         /\ column[k] \in Columns \ {target}
         /\ p \in 0 .. n
         /\ CardOut(column, position, column', position', column[k], k)
         /\ CardIn(column, position, column', position', target, k, p)
         /\ OthersUntouched({column[k], target})
<1> DEFINE source == column[k]
           count == Cardinality(InColumn(column, target))
           closed == CloseGap(column, position, source, position[k])
           opened == OpenGap(column, closed, target, p)
<1>1. count = n
  BY DenseCount
<1>2. /\ source \in Columns \ {target}
      /\ position' = [opened EXCEPT ![k] = p]
      /\ column' = [column EXCEPT ![k] = target]
  BY <1>1 DEF TransferCard
<1>3. p \in 0 .. n
  BY ClampBounds, ConstantsAssumption
<1>4. closed \in [Cards -> Nat]
  BY DEF IInv, TypeOK, CloseGap
<1>5. \A j \in Cards :
        closed[j] = IF column[j] = source /\ position[j] > position[k]
                    THEN position[j] - 1 ELSE position[j]
  BY DEF CloseGap
<1> HIDE DEF closed
<1>6. opened \in [Cards -> Nat]
  BY <1>4 DEF OpenGap
<1>7. \A j \in Cards :
        opened[j] = IF column[j] = target /\ closed[j] >= p
                    THEN closed[j] + 1 ELSE closed[j]
  BY DEF OpenGap
<1> HIDE DEF opened
<1>8. TypeOK'
  BY <1>2, <1>3, <1>6 DEF IInv, TypeOK
<1>9. /\ column'[k] = target /\ position'[k] = p
      /\ \A j \in Cards \ {k} : column'[j] = column[j] /\ position'[j] = opened[j]
  BY <1>2, <1>6 DEF IInv, TypeOK
<1>10. CardOut(column, position, column', position', source, k)
  BY <1>2, <1>5, <1>7, <1>9 DEF CardOut
<1>11. CardIn(column, position, column', position', target, k, p)
  BY <1>2, <1>5, <1>7, <1>9 DEF CardIn
<1>12. OthersUntouched({source, target})
  BY <1>5, <1>7, <1>9 DEF OthersUntouched, Untouched
<1> QED
  BY <1>2, <1>3, <1>8, <1>10, <1>11, <1>12

LEMMA TransferCardIInv ==
  ASSUME IInv, NEW k \in Cards, NEW target \in Columns,
         NEW r \in Requested \cup {Absent}, TransferCard(k, target, r)
  PROVE  IInv'
<1> DEFINE source == column[k]
<1>1. PICK m \in Nat : DenseTo(column, position, target, m)
  BY DEF IInv
<1> DEFINE p == IF r = Absent THEN m ELSE ClampPosition(r, m)
<1>2. /\ TypeOK'
      /\ source \in Columns \ {target}
      /\ p \in 0 .. m
      /\ CardOut(column, position, column', position', source, k)
      /\ CardIn(column, position, column', position', target, k, p)
      /\ OthersUntouched({source, target})
  BY <1>1, TransferCardRows
<1> HIDE DEF p, source
<1>3. PICK n \in Nat : DenseTo(column, position, source, n)
  BY <1>2 DEF IInv
<1>4. n - 1 \in Nat /\ DenseTo(column', position', source, n - 1)
  BY <1>2, <1>3, DenseRemove
<1>5. DenseTo(column', position', target, m + 1)
  BY <1>1, <1>2, DenseInsert
<1>6. \A d \in Columns \ {source, target} : \E l \in Nat : DenseTo(column', position', d, l)
  BY <1>2, OthersDense
<1>7. \E l \in Nat : DenseTo(column', position', target, l)
  BY <1>5, m + 1 \in Nat
<1> QED
  BY <1>2, <1>4, <1>6, <1>7 DEF IInv

LEMMA DeleteCardRows ==
  ASSUME IInv, NEW k \in Cards, DeleteCard(k)
  PROVE  /\ TypeOK'
         /\ column[k] \in Columns
         /\ column' = [column EXCEPT ![k] = Deleted]
         /\ CardOut(column, position, column', position', column[k], k)
         /\ OthersUntouched({column[k]})
<1> DEFINE c == column[k]
           closed == CloseGap(column', position, c, position[k])
<1>1. /\ c \in Columns
      /\ column' = [column EXCEPT ![k] = Deleted]
      /\ position' = [closed EXCEPT ![k] = 0]
  BY DEF DeleteCard
<1>2. closed \in [Cards -> Nat]
  BY DEF IInv, TypeOK, CloseGap
<1>3. \A j \in Cards :
        closed[j] = IF column'[j] = c /\ position[j] > position[k]
                    THEN position[j] - 1 ELSE position[j]
  BY DEF CloseGap
<1> HIDE DEF closed
<1>4. TypeOK'
  BY <1>1, <1>2 DEF IInv, TypeOK
<1>5. column'[k] = Deleted /\ Deleted \notin Columns
  BY <1>1, ConstantsAssumption DEF IInv, TypeOK
<1>6. \A j \in Cards \ {k} : column'[j] = column[j] /\ position'[j] = closed[j]
  BY <1>1, <1>2 DEF IInv, TypeOK
<1>7. CardOut(column, position, column', position', c, k)
  BY <1>1, <1>3, <1>5, <1>6 DEF CardOut
<1>8. OthersUntouched({c})
  BY <1>3, <1>5, <1>6 DEF OthersUntouched, Untouched
<1> QED
  BY <1>1, <1>4, <1>7, <1>8

LEMMA DeleteCardIInv ==
  ASSUME IInv, NEW k \in Cards, DeleteCard(k)
  PROVE  IInv'
<1> DEFINE c == column[k]
<1>1. /\ TypeOK'
      /\ c \in Columns
      /\ CardOut(column, position, column', position', c, k)
      /\ OthersUntouched({c})
  BY DeleteCardRows
<1> HIDE DEF c
<1>2. PICK n \in Nat : DenseTo(column, position, c, n)
  BY <1>1 DEF IInv
<1>3. n - 1 \in Nat /\ DenseTo(column', position', c, n - 1)
  BY <1>1, <1>2, DenseRemove
<1>4. \A d \in Columns \ {c} : \E m \in Nat : DenseTo(column', position', d, m)
  BY <1>1, OthersDense
<1> QED
  BY <1>1, <1>3, <1>4 DEF IInv

LEMMA SortColumnRows ==
  ASSUME IInv, NEW c \in Columns, NEW desc \in BOOLEAN, SortColumn(c, desc),
         NEW n \in Nat, DenseTo(column, position, c, n)
  PROVE  /\ TypeOK'
         /\ column' = column
         /\ position' = RewritePositions(column, position, c, ByAge(desc))
         /\ StrictOrderOn(InColumn(column, c), ByAge(desc))
         /\ DenseTo(column', position', c, n)
         /\ OthersUntouched({c})
<1> DEFINE ranked == RewritePositions(column, position, c, ByAge(desc))
<1>1. position' = ranked /\ column' = column
  BY DEF SortColumn
<1>2. StrictOrderOn(InColumn(column, c), ByAge(desc))
  BY AgeIsStrictOrder DEF InColumn
<1>3. DenseTo(column, ranked, c, n)
  BY <1>2, DenseRewrite
<1>4. \A j \in Cards : column[j] # c => ranked[j] = position[j]
  BY DEF RewritePositions
<1>5. \A j \in Cards : column[j] = c => ranked[j] \in Nat
  BY <1>3 DEF DenseTo
<1>6. ranked = [j \in Cards |-> ranked[j]]
  BY DEF RewritePositions
<1>7. TypeOK'
  <2> HIDE DEF ranked
  <2> QED
    BY <1>1, <1>4, <1>5, <1>6 DEF IInv, TypeOK
<1>8. OthersUntouched({c})
  BY <1>1, <1>4 DEF OthersUntouched, Untouched
<1>9. DenseTo(column', position', c, n)
  BY <1>1, <1>3
<1> QED
  BY <1>1, <1>2, <1>7, <1>8, <1>9

LEMMA SortColumnIInv ==
  ASSUME IInv, NEW c \in Columns, NEW desc \in BOOLEAN, SortColumn(c, desc)
  PROVE  IInv'
<1>1. PICK n \in Nat : DenseTo(column, position, c, n)
  BY DEF IInv
<1>2. TypeOK' /\ DenseTo(column', position', c, n) /\ OthersUntouched({c})
  BY <1>1, SortColumnRows
<1>3. \A d \in Columns \ {c} : \E m \in Nat : DenseTo(column', position', d, m)
  BY <1>2, OthersDense
<1> QED
  BY <1>2, <1>3 DEF IInv

LEMMA MoveCardsRows ==
  ASSUME IInv, NEW source \in Columns, NEW target \in Columns, MoveCards(source, target),
         NEW n \in Nat, NEW m \in Nat,
         DenseTo(column, position, source, n), DenseTo(column, position, target, m)
  PROVE  /\ TypeOK'
         /\ source # target
         /\ column' = [k \in Cards |-> IF column[k] = source THEN target ELSE column[k]]
         /\ Joined(column, position, column', position', source, target, m)
         /\ OthersUntouched({source, target})
<1> DEFINE appended == AppendAfter(column, position, source, m - 1)
<1>1. /\ source # target
      /\ position' = appended
      /\ column' = [k \in Cards |-> IF column[k] = source THEN target ELSE column[k]]
  BY DenseMax DEF MoveCards
<1>2. position \in [Cards -> Nat]
  BY DEF IInv, TypeOK
<1>3. ASSUME NEW k \in Cards
      PROVE  appended[k] = IF column[k] = source THEN m + position[k] ELSE position[k]
  <2>1. appended[k] =
          IF column[k] = source
          THEN (m - 1) + 1 + IndexIn(InColumn(column, source), ByPosition(position), k)
          ELSE position[k]
    BY DEF AppendAfter
  <2>2. column[k] = source =>
          IndexIn(InColumn(column, source), ByPosition(position), k) = position[k]
    BY <1>2, PositionIsRank
  <2> HIDE DEF appended
  <2> QED
    BY <2>1, <2>2
<1>4. appended = [k \in Cards |-> appended[k]]
  BY DEF AppendAfter
<1> HIDE DEF appended
<1>5. TypeOK'
  BY <1>1, <1>2, <1>3, <1>4 DEF IInv, TypeOK
<1>6. Joined(column, position, column', position', source, target, m)
  BY <1>1, <1>3 DEF Joined
<1>7. OthersUntouched({source, target})
  BY <1>1, <1>3 DEF OthersUntouched, Untouched
<1> QED
  BY <1>1, <1>5, <1>6, <1>7

LEMMA MoveCardsIInv ==
  ASSUME IInv, NEW source \in Columns, NEW target \in Columns, MoveCards(source, target)
  PROVE  IInv'
<1>1. PICK n \in Nat : DenseTo(column, position, source, n)
  BY DEF IInv
<1>2. PICK m \in Nat : DenseTo(column, position, target, m)
  BY DEF IInv
<1>3. /\ TypeOK'
      /\ source # target
      /\ column' = [k \in Cards |-> IF column[k] = source THEN target ELSE column[k]]
      /\ Joined(column, position, column', position', source, target, m)
      /\ OthersUntouched({source, target})
  BY <1>1, <1>2, MoveCardsRows
<1>4. DenseTo(column', position', target, m + n)
  BY <1>1, <1>2, <1>3, DenseJoin
<1>5. DenseTo(column', position', source, 0)
  BY <1>3 DEF DenseTo
<1>6. \A d \in Columns \ {source, target} : \E l \in Nat : DenseTo(column', position', d, l)
  BY <1>3, OthersDense
<1>7. \E l \in Nat : DenseTo(column', position', target, l)
  BY <1>4, m + n \in Nat
<1> QED
  BY <1>3, <1>5, <1>6, <1>7 DEF IInv

-----------------------------------------------------------------------------
(* What each request does to the lists. *)

(* The lists of the board, before and after a step. *)
Now == [c \in Columns |-> Listed(column, position, c)]
Then == [c \in Columns |-> Listed(column', position', c)]

LEMMA OthersListed ==
  ASSUME IInv, NEW some, OthersUntouched(some), NEW d \in Columns \ some
  PROVE  Then[d] = Now[d]
<1>1. PICK n \in Nat : DenseTo(column, position, d, n)
  BY DEF IInv
<1>2. Untouched(column, position, column', position', d)
  BY DEF OthersUntouched
<1> QED
  BY <1>1, <1>2, ListedFrame DEF Now, Then

LEMMA AppendIsInsert ==
  ASSUME NEW S, NEW s \in Seq(S), NEW e \in S
  PROVE  Append(s, e) = Order!InsertAt(s, Len(s) + 1, e)
<1>1. PICK n \in Nat : n = Len(s)
  BY LenProperties
<1>2. PICK m \in 1 .. (Len(s) + 1) : m = n + 1
  BY <1>1
<1> DEFINE inserted == Order!InsertAt(s, m, e)
<1>3. /\ inserted \in Seq(S)
      /\ Len(inserted) = Len(s) + 1
      /\ \A i \in 1 .. (Len(s) + 1) :
           inserted[i] = IF i < m THEN s[i] ELSE IF i = m THEN e ELSE s[i - 1]
  BY InsertedAt, SMTT(30)
<1> HIDE DEF inserted
<1> DEFINE appended == Append(s, e)
<1>4. /\ appended \in Seq(S)
      /\ Len(appended) = Len(s) + 1
      /\ \A i \in 1 .. Len(s) : appended[i] = s[i]
      /\ appended[Len(s) + 1] = e
  BY AppendProperties
<1> HIDE DEF appended
<1>5. inserted \in [1 .. m -> S] /\ appended \in [1 .. m -> S]
  BY <1>1, <1>2, <1>3, <1>4, LenProperties
<1>6. ASSUME NEW i \in 1 .. m PROVE inserted[i] = appended[i]
  <2>1. CASE i < m
    BY <1>1, <1>2, <1>3, <1>4, <2>1
  <2>2. CASE i = m
    BY <1>1, <1>2, <1>3, <1>4, <2>2
  <2> QED
    BY <2>1, <2>2
<1>7. inserted = appended
  BY <1>5, <1>6
<1> QED
  BY <1>1, <1>2, <1>7 DEF inserted, appended

(* A place that is asked for is the slot of the clamped position. *)
LEMMA PlacedAt ==
  ASSUME NEW list \in Seq(Cards), NEW n \in Nat, Len(list) = n, NEW k \in Cards,
         NEW r \in Requested \cup {Absent},
         NEW p, p = IF r = Absent THEN n ELSE ClampPosition(r, n)
  PROVE  Order!Placed(list, k, r) = Order!InsertAt(list, p + 1, k)
<1>1. CASE r = Absent
  <2>1. Append(list, k) = Order!InsertAt(list, Len(list) + 1, k)
    BY AppendIsInsert
  <2> QED
    BY <1>1, <2>1 DEF Order!Placed
<1>2. CASE r # Absent
  <2>1. r \in Int
    BY <1>2, ConstantsAssumption
  <2>2. Order!Nearest(r, n + 1) = p
    BY <1>2, <2>1, NearestIsClamped
  <2> QED
    BY <1>2, <2>2 DEF Order!Placed
<1> QED
  BY <1>1, <1>2

(* A card is in the list of its column, one slot after its position. *)
LEMMA CardInList ==
  ASSUME NEW c \in Columns, NEW n \in Nat, DenseTo(column, position, c, n),
         NEW k \in Cards, column[k] = c
  PROVE  /\ Order!Holds(c, k)
         /\ Order!Without(c, k) = Order!RemoveAt(Listed(column, position, c), position[k] + 1)
<1> DEFINE list == Listed(column, position, c)
<1>1. /\ Shows(list, column, position, c, n)
      /\ position[k] + 1 \in 1 .. n
      /\ list[position[k] + 1] = k
  BY ListedRows
<1>2. list = [d \in Columns |-> Listed(column, position, d)][c]
  OBVIOUS
<1> HIDE DEF list
<1>3. DOMAIN list = 1 .. n
  BY <1>1, LenProperties DEF Shows
<1>4. k \in Order!ToSet(list)
  BY <1>1, <1>3 DEF Order!ToSet
<1>5. Order!Holds(c, k)
  BY <1>2, <1>4 DEF Order!Holds
<1>6. position[k] \in Int
  BY DEF DenseTo
<1>7. \A i \in DOMAIN list : list[i] = k <=> i = position[k] + 1
  BY <1>1, <1>3, <1>6 DEF Shows
<1>8. Order!IndexOf(c, k) = CHOOSE i \in DOMAIN list : list[i] = k
  BY <1>2 DEF Order!IndexOf
<1>9. Order!IndexOf(c, k) = position[k] + 1
  BY <1>1, <1>3, <1>7, <1>8
<1> QED
  BY <1>2, <1>5, <1>9 DEF Order!Without, list

LEMMA CreateCardLists ==
  ASSUME IInv, NEW k \in Cards, NEW c \in Columns, NEW r \in Requested \cup {Absent},
         CreateCard(k, c, r)
  PROVE  Order!Create(k, c, r)
<1>1. PICK n \in Nat : DenseTo(column, position, c, n)
  BY DEF IInv
<1> DEFINE p == IF r = Absent THEN n ELSE ClampPosition(r, n)
<1>2. /\ p \in 0 .. n
      /\ column[k] = NotCreated
      /\ CardIn(column, position, column', position', c, k, p)
      /\ OthersUntouched({c})
  BY <1>1, CreateCardRows
<1>3. Shows(Now[c], column, position, c, n)
  BY <1>1, ListedRows DEF Now
<1>4. Order!Placed(Now[c], k, r) = Order!InsertAt(Now[c], p + 1, k)
  BY <1>3, PlacedAt DEF Shows
<1> HIDE DEF p
<1>5. Then[c] = Order!Placed(Now[c], k, r)
  BY <1>1, <1>2, <1>4, ListedInsert DEF Now, Then
<1>6. \A d \in Columns \ {c} : Then[d] = Now[d]
  BY <1>2, OthersListed
<1>7. Then = [Now EXCEPT ![c] = Order!Placed(@, k, r)]
  BY <1>5, <1>6 DEF Now, Then
<1>8. column' = [column EXCEPT ![k] = c] /\ c # NotCreated
  BY ConstantsAssumption DEF CreateCard
<1>9. k \notin {j \in Cards : column[j] # NotCreated}
  BY <1>2
<1>10. {j \in Cards : column'[j] # NotCreated} = {j \in Cards : column[j] # NotCreated} \cup {k}
  BY <1>8 DEF IInv, TypeOK
<1> QED
  BY <1>7, <1>9, <1>10 DEF Order!Create, Now, Then

LEMMA ReorderCardLists ==
  ASSUME IInv, NEW k \in Cards, NEW r \in Requested \cup {Absent}, ReorderCard(k, r)
  PROVE  IF r = Absent THEN UNCHANGED Order!vars ELSE Order!Move(k, column[k], column[k], r)
<1> DEFINE c == column[k]
<1>1. PICK n \in Nat : DenseTo(column, position, c, n)
  BY DEF IInv, ReorderCard
<1> DEFINE p == IF r = Absent THEN position[k] ELSE ClampPosition(r, n - 1)
<1>2. /\ c \in Columns
      /\ column' = column
      /\ n - 1 \in Nat
      /\ position[k] \in 0 .. (n - 1)
      /\ p \in 0 .. (n - 1)
      /\ CardMoved(column, position, column', position', c, k, p)
      /\ OthersUntouched({c})
  BY <1>1, ReorderCardRows
<1>3. \A d \in Columns \ {c} : Then[d] = Now[d]
  BY <1>2, OthersListed
<1>4. CASE r = Absent
  <2>1. Untouched(column, position, column', position', c)
    BY <1>1, <1>2, <1>4 DEF CardMoved, Untouched, DenseTo
  <2>2. Then[c] = Now[c]
    BY <1>1, <1>2, <2>1, ListedFrame DEF Now, Then
  <2>3. Then = Now
    BY <1>3, <2>2 DEF Now, Then
  <2> QED
    BY <1>2, <1>4, <2>3 DEF Order!vars, Now, Then
<1>5. CASE r # Absent
  <2> DEFINE rest == Order!RemoveAt(Now[c], position[k] + 1)
  <2>1. Order!Holds(c, k) /\ Order!Without(c, k) = rest
    BY <1>1, <1>2, CardInList DEF Now
  <2>2. PICK m \in Nat : m = n - 1
    BY <1>2
  <2>3. rest \in Seq(Cards) /\ Len(rest) = m
    <3>1. Now[c] \in Seq(Cards) /\ Len(Now[c]) = n
      BY <1>1, <1>2, ListedRows DEF Now, Shows
    <3>2. position[k] + 1 \in 1 .. Len(Now[c])
      BY <1>2, <3>1
    <3>3. rest \in Seq(Cards) /\ Len(rest) = Len(Now[c]) - 1
      BY <3>1, <3>2, RemovedAt
    <3> QED
      BY <2>2, <3>1, <3>3
  <2>4. Then[c] = Order!InsertAt(rest, p + 1, k)
    BY <1>1, <1>2, ListedMove DEF Now, Then
  <2>5. Order!Placed(rest, k, r) = Order!InsertAt(rest, p + 1, k)
    <3> HIDE DEF rest
    <3> QED
      BY <1>5, <2>2, <2>3, PlacedAt
  <2>6. Then = [Now EXCEPT ![c] = Order!Placed(Order!Without(c, k), k, r)]
    BY <1>2, <1>3, <2>1, <2>4, <2>5 DEF Now, Then
  <2> QED
    BY <1>2, <1>5, <2>1, <2>6 DEF Order!Move, Now, Then
<1> QED
  BY <1>4, <1>5

LEMMA TransferCardLists ==
  ASSUME IInv, NEW k \in Cards, NEW target \in Columns,
         NEW r \in Requested \cup {Absent}, TransferCard(k, target, r)
  PROVE  column[k] \in Columns /\ Order!Move(k, column[k], target, r)
<1> DEFINE source == column[k]
<1>1. PICK m \in Nat : DenseTo(column, position, target, m)
  BY DEF IInv
<1> DEFINE p == IF r = Absent THEN m ELSE ClampPosition(r, m)
<1>2. /\ source \in Columns \ {target}
      /\ p \in 0 .. m
      /\ CardOut(column, position, column', position', source, k)
      /\ CardIn(column, position, column', position', target, k, p)
      /\ OthersUntouched({source, target})
  BY <1>1, TransferCardRows
<1>3. PICK n \in Nat : DenseTo(column, position, source, n)
  BY <1>2 DEF IInv
<1>4. Order!Holds(source, k)
      /\ Order!Without(source, k) = Order!RemoveAt(Now[source], position[k] + 1)
  BY <1>2, <1>3, CardInList DEF Now
<1>5. Then[source] = Order!Without(source, k)
  BY <1>2, <1>3, <1>4, ListedRemove DEF Now, Then
<1>6. Order!Placed(Now[target], k, r) = Order!InsertAt(Now[target], p + 1, k)
  <2>1. Shows(Now[target], column, position, target, m)
    BY <1>1, ListedRows DEF Now
  <2> QED
    BY <2>1, PlacedAt DEF Shows
<1> HIDE DEF p
<1>7. Then[target] = Order!Placed(Now[target], k, r)
  BY <1>1, <1>2, <1>6, ListedInsert DEF Now, Then
<1>8. \A d \in Columns \ {source, target} : Then[d] = Now[d]
  BY <1>2, OthersListed
<1>9. Then = [Now EXCEPT ![source] = Order!Without(source, k),
                         ![target] = Order!Placed(@, k, r)]
  BY <1>2, <1>5, <1>7, <1>8 DEF Now, Then
<1>10. {j \in Cards : column'[j] # NotCreated} = {j \in Cards : column[j] # NotCreated}
  BY <1>2, ConstantsAssumption DEF TransferCard, IInv, TypeOK
<1> QED
  BY <1>2, <1>4, <1>9, <1>10 DEF Order!Move, Now, Then

LEMMA DeleteCardLists ==
  ASSUME IInv, NEW k \in Cards, DeleteCard(k)
  PROVE  column[k] \in Columns /\ Order!Delete(column[k], k)
<1> DEFINE c == column[k]
<1>1. /\ c \in Columns
      /\ column' = [column EXCEPT ![k] = Deleted]
      /\ CardOut(column, position, column', position', c, k)
      /\ OthersUntouched({c})
  BY DeleteCardRows
<1>2. PICK n \in Nat : DenseTo(column, position, c, n)
  BY <1>1 DEF IInv
<1>3. Order!Holds(c, k) /\ Order!Without(c, k) = Order!RemoveAt(Now[c], position[k] + 1)
  BY <1>1, <1>2, CardInList DEF Now
<1>4. Then[c] = Order!Without(c, k)
  BY <1>1, <1>2, <1>3, ListedRemove DEF Now, Then
<1>5. \A d \in Columns \ {c} : Then[d] = Now[d]
  BY <1>1, OthersListed
<1>6. Then = [Now EXCEPT ![c] = Order!Without(c, k)]
  BY <1>1, <1>4, <1>5 DEF Now, Then
<1>7. {j \in Cards : column'[j] # NotCreated} = {j \in Cards : column[j] # NotCreated}
  BY <1>1, ConstantsAssumption DEF IInv, TypeOK
<1> QED
  BY <1>1, <1>3, <1>6, <1>7 DEF Order!Delete, Now, Then

LEMMA SortColumnLists ==
  ASSUME IInv, NEW c \in Columns, NEW desc \in BOOLEAN, SortColumn(c, desc)
  PROVE  Order!Sort(c, desc)
<1>1. PICK n \in Nat : DenseTo(column, position, c, n)
  BY DEF IInv
<1>2. /\ column' = column
      /\ position' = RewritePositions(column, position, c, ByAge(desc))
      /\ StrictOrderOn(InColumn(column, c), ByAge(desc))
      /\ OthersUntouched({c})
  BY <1>1, SortColumnRows
<1>3. /\ Then[c] \in Order!Bijection(DOMAIN Now[c], Order!ToSet(Now[c]))
      /\ \A i, j \in DOMAIN Then[c] : i < j => << Then[c][i], Then[c][j] >> \in ByAge(desc)
  BY <1>1, <1>2, ListedRewrite DEF Now, Then
<1>4. \A i, j \in DOMAIN Then[c] : i < j => Order!Before(Then[c][i], Then[c][j], desc)
  BY <1>3 DEF ByAge, Order!Before
<1>5. \A d \in Columns \ {c} : Then[d] = Now[d]
  BY <1>2, OthersListed
<1>6. Then = [Now EXCEPT ![c] = Then[c]]
  BY <1>5 DEF Now, Then
<1> QED
  BY <1>2, <1>3, <1>4, <1>6 DEF Order!Sort, Now, Then

LEMMA MoveCardsLists ==
  ASSUME IInv, NEW source \in Columns, NEW target \in Columns, MoveCards(source, target)
  PROVE  Order!Concatenate(source, target)
<1>1. PICK n \in Nat : DenseTo(column, position, source, n)
  BY DEF IInv
<1>2. PICK m \in Nat : DenseTo(column, position, target, m)
  BY DEF IInv
<1>3. /\ source # target
      /\ column' = [k \in Cards |-> IF column[k] = source THEN target ELSE column[k]]
      /\ Joined(column, position, column', position', source, target, m)
      /\ OthersUntouched({source, target})
  BY <1>1, <1>2, MoveCardsRows
<1>4. Then[target] = Now[target] \o Now[source]
  <2>1. source # target /\ Joined(column, position, column', position', source, target, m)
    BY <1>3
  <2>2. Listed(column', position', target) =
          Listed(column, position, target) \o Listed(column, position, source)
    BY <1>1, <1>2, <2>1, ListedJoin
  <2> QED
    BY <2>2 DEF Now, Then
<1>5. Then[source] = << >>
  <2>1. DenseTo(column', position', source, 0)
    BY <1>3 DEF DenseTo
  <2>2. Shows(<< >>, column', position', source, 0)
    BY DEF Shows
  <2> QED
    BY <2>1, <2>2, ListedIs DEF Then
<1>6. \A d \in Columns \ {source, target} : Then[d] = Now[d]
  BY <1>3, OthersListed
<1>7. Then = [Now EXCEPT ![target] = @ \o Now[source], ![source] = << >>]
  BY <1>3, <1>4, <1>5, <1>6 DEF Now, Then
<1>8. {k \in Cards : column'[k] # NotCreated} = {k \in Cards : column[k] # NotCreated}
  BY <1>3, ConstantsAssumption
<1>9. BoardOf[source] = BoardOf[target]
  BY DEF MoveCards
<1> QED
  BY <1>3, <1>7, <1>8, <1>9 DEF Order!Concatenate, Now, Then

-----------------------------------------------------------------------------
LEMMA StepIInv == IInv /\ [Next]_vars => IInv'
<1> SUFFICES ASSUME IInv, [Next]_vars
             PROVE  IInv'
  OBVIOUS
<1>1. ASSUME NEW k \in Cards, NEW c \in Columns, NEW r \in Requested \cup {Absent},
             CreateCard(k, c, r)
      PROVE  IInv'
  BY <1>1, CreateCardIInv
<1>2. ASSUME NEW k \in Cards, NEW c \in Columns, NEW r \in Requested \cup {Absent},
             TransferCard(k, c, r)
      PROVE  IInv'
  BY <1>2, TransferCardIInv
<1>3. ASSUME NEW k \in Cards, NEW r \in Requested \cup {Absent}, ReorderCard(k, r)
      PROVE  IInv'
  BY <1>3, ReorderCardIInv
<1>4. ASSUME NEW k \in Cards, DeleteCard(k)
      PROVE  IInv'
  BY <1>4, DeleteCardIInv
<1>5. ASSUME NEW c \in Columns, NEW desc \in BOOLEAN, SortColumn(c, desc)
      PROVE  IInv'
  BY <1>5, SortColumnIInv
<1>6. ASSUME NEW source \in Columns, NEW target \in Columns, MoveCards(source, target)
      PROVE  IInv'
  BY <1>6, MoveCardsIInv
<1>7. CASE UNCHANGED vars
  BY <1>7 DEF vars, IInv, TypeOK, DenseTo
<1> QED
  BY <1>1, <1>2, <1>3, <1>4, <1>5, <1>6, <1>7 DEF Next

LEMMA InitOrder == Init => Order!Init
<1> SUFFICES ASSUME Init PROVE Order!Init
  OBVIOUS
<1>1. ASSUME NEW c \in Columns
      PROVE  Listed(column, position, c) = << >>
  <2>1. DenseTo(column, position, c, 0)
    BY ConstantsAssumption DEF Init, DenseTo
  <2>2. Shows(<< >>, column, position, c, 0)
    BY DEF Shows
  <2> QED
    BY <2>1, <2>2, ListedIs
<1>2. {k \in Cards : column[k] # NotCreated} = {}
  BY DEF Init
<1> QED
  BY <1>1, <1>2 DEF Order!Init

LEMMA StepOrder == IInv /\ [Next]_vars => [Order!Next]_(Order!vars)
<1> SUFFICES ASSUME IInv, [Next]_vars
             PROVE  [Order!Next]_(Order!vars)
  OBVIOUS
<1>1. ASSUME NEW k \in Cards, NEW c \in Columns, NEW r \in Requested \cup {Absent},
             CreateCard(k, c, r)
      PROVE  Order!Next
  BY <1>1, CreateCardLists DEF Order!Next
<1>2. ASSUME NEW k \in Cards, NEW c \in Columns, NEW r \in Requested \cup {Absent},
             TransferCard(k, c, r)
      PROVE  Order!Next
  BY <1>2, TransferCardLists DEF Order!Next
<1>3. ASSUME NEW k \in Cards, NEW r \in Requested \cup {Absent}, ReorderCard(k, r)
      PROVE  [Order!Next]_(Order!vars)
  <2>1. column[k] \in Columns
    BY <1>3 DEF ReorderCard
  <2> QED
    BY <1>3, <2>1, ReorderCardLists DEF Order!Next
<1>4. ASSUME NEW k \in Cards, DeleteCard(k)
      PROVE  Order!Next
  BY <1>4, DeleteCardLists DEF Order!Next
<1>5. ASSUME NEW c \in Columns, NEW desc \in BOOLEAN, SortColumn(c, desc)
      PROVE  Order!Next
  BY <1>5, SortColumnLists DEF Order!Next
<1>6. ASSUME NEW source \in Columns, NEW target \in Columns, MoveCards(source, target)
      PROVE  Order!Next
  BY <1>6, MoveCardsLists DEF Order!Next
<1>7. CASE UNCHANGED vars
  BY <1>7 DEF vars, Order!vars, Listed, InColumn
<1> QED
  BY <1>1, <1>2, <1>3, <1>4, <1>5, <1>6, <1>7 DEF Next

(* Rows are always in a column, deleted or still to come, and no decrement *)
(* of close_card_gap or shift_cards_down takes a position below zero.      *)
THEOREM TypeCorrect == Spec => []TypeOK
<1>1. IInv => TypeOK
  BY DEF IInv
<1> QED
  BY InitIInv, StepIInv, <1>1, PTL DEF Spec

(* Whatever requests are served, in whatever order and with whatever       *)
(* positions in their bodies, each column holds 0 .. N-1 exactly once.     *)
THEOREM AlwaysDense == Spec => []Dense
<1>1. IInv => Dense
  BY DenseToIsDense DEF IInv, Dense
<1> QED
  BY InitIInv, StepIInv, <1>1, PTL DEF Spec

(* One request at a time, the positions of the cards are lists: the gap,   *)
(* band and point writes of a handler take a card out of one list and put  *)
(* it into another at the place that was asked for, a sort rearranges one, *)
(* move-cards joins two, and no other card changes place.                  *)
THEOREM PositionsAreLists == Spec => ImplementsOrder
BY InitIInv, StepIInv, InitOrder, StepOrder, PTL DEF Spec, ImplementsOrder, Order!Spec
=============================================================================
