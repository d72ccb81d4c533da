------------------------------ MODULE MCRetiler ------------------------------
(* An instance of Retiler for TLC: two jobs of one metatile. *)
EXTENDS Retiler, TLC

CONSTANTS j1, j2, p1, p2

JobSymmetry == Permutations(Jobs)

MCBlankRows == [v \in 1 .. MaxVersion |-> IF v = 2 THEN Rows ELSE {}]
=============================================================================
