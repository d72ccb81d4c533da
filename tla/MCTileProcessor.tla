-------------------------- MODULE MCTileProcessor --------------------------
(* Instances of TileProcessor for TLC: a metatile of the two northern rows of
   a grid of four; version 2 of the source leaves its row 1 blank, version 3
   the whole metatile. *)
EXTENDS TileProcessor, TLC

CONSTANTS a1, a2, a3, p1, p2

MCBlankRows ==
  [v \in Versions |-> Rows \cap IF v = 2 THEN {1} ELSE IF v = 3 THEN Rows ELSE {}]
AttemptSymmetry == Permutations(Attempts)
=============================================================================
