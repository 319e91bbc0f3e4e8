-------------------------- MODULE MCCardPositions --------------------------
(***************************************************************************)
(* CardPositions on a small board.                                         *)
(***************************************************************************)
EXTENDS CardPositions, TLC

(* Two columns on one board and one on another. *)
MCColumns == {1, 2, 3}
MCBoardOf == 1 :> "b1" @@ 2 :> "b1" @@ 3 :> "b2"
(* Ids 1 and 2 were inserted in the same microsecond, 3 after 4 (clock). *)
MCCreatedAt == 1 :> 10 @@ 2 :> 10 @@ 3 :> 12 @@ 4 :> 11

(* A negative request, every place of a full column, and one beyond it. *)
MCRequested == {-1, 0, 1, 2, 3, 5}
=============================================================================
