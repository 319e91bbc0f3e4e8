------------------------------ MODULE MCCardTx ------------------------------
(***************************************************************************)
(* CardTx on a board of three columns, the last one empty.  Each run of    *)
(* this module picks the requests that may be in flight together.          *)
(***************************************************************************)
EXTENDS CardTxSerial, TLC

MCColumns == {1, 2, 3}
MCBoardOf == 1 :> "b1" @@ 2 :> "b1" @@ 3 :> "b1"
Created == 1 :> 10 @@ 2 :> 10 @@ 3 :> 12 @@ 4 :> 11 @@ 5 :> 13
MCCreatedAt == [k \in Cards |-> Created[k]]

(* Column 1 holds cards 1 and 2, column 2 holds card 3; ids 4 and 5 are unused. *)
MCInitColumn == 1 :> 1 @@ 2 :> 1 @@ 3 :> 2 @@ 4 :> NotCreated
MCInitPosition == 1 :> 0 @@ 2 :> 1 @@ 3 :> 0 @@ 4 :> 0
MCInitColumn5 == MCInitColumn @@ 5 :> NotCreated
MCInitPosition5 == MCInitPosition @@ 5 :> 0

MCRequested == {0, 1, 2, 3}

Create(c, r) == [op |-> "create", column |-> c, position |-> r]
Move(k, c, r) == [op |-> "move", card |-> k, column |-> c, position |-> r]
Delete(k) == [op |-> "delete", card |-> k]
Sort(c, d) == [op |-> "sort", column |-> c, desc |-> d]
Bulk(s, t) == [op |-> "bulk", column |-> s, target |-> t]

(* Opposite moves between columns 1 and 2 and reorders there, card 3 staying *)
(* in column 2 and card 1 in column 1; no move sees column 3, which fills    *)
(* and runs empty.                                                           *)
SerialRequests ==
  {Move(2, 2, 0), Move(2, 1, Absent), Move(2, Absent, 0), Move(1, Absent, 1),
   Move(3, Absent, 2), Create(1, Absent), Create(2, 0), Move(4, 1, 0),
   Sort(1, TRUE), Sort(2, FALSE), Create(3, Absent), Bulk(3, 1)}

(* The theorems on Steady requests are about them. *)
ASSUME SerialAssumption == Requests = SerialRequests => Steady /\ DenseStart

(* The same card deleted twice, and its neighbour reordered.                 *)
DeleteRequests == {Delete(1), Delete(2), Move(2, Absent, 0)}

(* Moves that meet and overtake each other, a delete and a create.           *)
MixedRequests ==
  {Move(2, 2, 0), Move(3, 1, Absent), Move(1, Absent, 1), Delete(3), Create(1, 0)}

(* The processes are interchangeable. *)
Symmetry == Permutations(Procs)
=============================================================================
