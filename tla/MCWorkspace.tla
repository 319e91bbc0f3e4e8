---------------------------- MODULE MCWorkspace ----------------------------
(***************************************************************************)
(* Workspace with two projects, two boards, a card and a note: enough for  *)
(* a cascade from project to board to card to note, for a board that moves *)
(* from one project to the other and for one that stays behind.  Ids run   *)
(* out in the model, not in the program, so the run may end there.         *)
(***************************************************************************)
EXTENDS Workspace, TLC

Symmetry == Permutations(Projects) \cup Permutations(Boards)
=============================================================================
