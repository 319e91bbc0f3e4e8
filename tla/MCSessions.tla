----------------------------- MODULE MCSessions -----------------------------
(***************************************************************************)
(* Sessions with one browser and few ids; ids, users and processes are     *)
(* interchangeable.  The clock stops at MaxTime, and a login waits for     *)
(* ever when all ids are drawn: bounds of the model.                       *)
(***************************************************************************)
EXTENDS Sessions, TLC

Symmetry == Permutations(Ids) \cup Permutations(Users) \cup Permutations(Procs)
=============================================================================
