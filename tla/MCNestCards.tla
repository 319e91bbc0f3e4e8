---------------------------- MODULE MCNestCards ----------------------------
(***************************************************************************)
(* One board with two columns that hold three cards in any order, a column *)
(* and a card that can still be created; two requests overlap.             *)
(***************************************************************************)
EXTENDS NestCards

MCHome == 11 :> 0 @@ 12 :> 0

MCSymmetry == Permutations(Requests)
=============================================================================
