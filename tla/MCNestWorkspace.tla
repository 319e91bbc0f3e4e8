-------------------------- MODULE MCNestWorkspace --------------------------
(***************************************************************************)
(* Two users, each with a board and a label; the first also has a project, *)
(* a tag, a card with a checklist item, and a note on the card.  One id    *)
(* more can be given out in most tables.                                   *)
(***************************************************************************)
EXTENDS NestWorkspace

MCIds ==
  [t \in Tables |->
     CASE t = "cardLabels" -> {1, 2} \X {1, 2, 3}
       [] t \in {"users", "labels"} -> {1, 2, 3}
       [] t \in {"boards", "columns"} -> {1, 2, 3}
       [] OTHER -> {1, 2}]

MCStored ==
  [users      |-> 1 :> [email |-> "a", role |-> "user"] @@ 2 :> [email |-> "b", role |-> "user"],
   projects   |-> 1 :> [user |-> 1],
   boards     |-> 1 :> [user |-> 1, project |-> 1, archived |-> FALSE]
                  @@ 2 :> [user |-> 2, project |-> None, archived |-> TRUE],
   columns    |-> 1 :> [board |-> 1] @@ 2 :> [board |-> 2],
   cards      |-> 1 :> [column |-> 1],
   labels     |-> 1 :> [user |-> 1, name |-> "a"] @@ 2 :> [user |-> 2, name |-> "b"],
   cardLabels |-> << >>,
   checklists |-> 1 :> [card |-> 1],
   items      |-> 1 :> [checklist |-> 1, done |-> FALSE],
   tags       |-> 1 :> [user |-> 1] @@ 2 :> [user |-> 2],
   notes      |-> 1 :> [board |-> None, project |-> None, card |-> 1, user |-> 1, tags |-> {1}]]

MCSymmetry == Permutations(Requests)
=============================================================================
