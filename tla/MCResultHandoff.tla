--------------------------- MODULE MCResultHandoff ---------------------------
(* The sessions of ResultHandoff are interchangeable. *)
EXTENDS ResultHandoff, TLC

Sessions == Permutations(Session)
=============================================================================
