------------------------------ MODULE MCClient ------------------------------
(* Two columns, one of them empty, and two cards more than it takes for a  *)
(* drag to have a choice of where to go.                                   *)
EXTENDS Client

MCFirstBoard == [l \in BoardColumns |-> IF l = 11 THEN << 1, 2 >> ELSE << 3 >>]
=============================================================================
