--------------------------- MODULE MCWorkspaceTx ---------------------------
(***************************************************************************)
(* WorkspaceTx on two projects; board b1 in the first and active, b2 in    *)
(* none and archived, b3 not created; a card in b1; a note without links   *)
(* or tags.  Each run picks the requests that may be in flight together.   *)
(***************************************************************************)
EXTENDS WorkspaceTx, TLC

CONSTANTS p1, p2, b1, b2, b3, k1, n1, n2, t1, t2

MCProjects == {p1, p2}
MCBoards == {b1, b2, b3}
MCCards == {k1}
MCNotes == {n1, n2}
MCTags == {t1, t2}

Live(r) == Atomic!Patched(Atomic!Unlinked, r, None)
MCInitRow ==
  [r \in MCProjects \cup {n1} |-> Live(<< >>)]
  @@ b1 :> Live([project |-> p1])
  @@ b2 :> [Live(<< >>) EXCEPT !.archived = TRUE]
  @@ k1 :> Live([board |-> b1])
  @@ [r \in {b3, n2} |-> Unborn]
MCInitTags == [n \in MCNotes |-> {}]

Create(r, links, new) == [op |-> "create", row |-> r, links |-> links, tags |-> new]
PatchBoard(b, links, archived) ==
  [op |-> "patch", row |-> b, links |-> links, archived |-> archived, tags |-> None]
PatchNote(n, links, new) ==
  [op |-> "patch", row |-> n, links |-> links, archived |-> None, tags |-> new]
Delete(r) == [op |-> "delete", row |-> r]

(* A project deleted while boards are created in it, moved into it and out  *)
(* of it, and an archived board deleted that nobody restores; one note's    *)
(* tags replaced from two sides, its link and its target deleted.           *)
MixedRequests ==
  {Delete(p1), Create(b3, [project |-> p1], {}), PatchBoard(b1, [project |-> p2], None),
   PatchBoard(b2, [project |-> p1], None), PatchBoard(b1, << >>, TRUE), Delete(b2),
   PatchNote(n1, << >>, {t1}), PatchNote(n1, << >>, {t2}), PatchNote(n1, [card |-> k1], {}),
   Create(n2, [board |-> b1], {t1}), Delete(k1), Delete(n1)}

(* The processes are interchangeable, and so are the tags. *)
Symmetry == Permutations(Procs) \cup Permutations(MCTags)
=============================================================================
