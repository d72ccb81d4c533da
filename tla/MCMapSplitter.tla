---------------------------- MODULE MCMapSplitter ----------------------------
(* Metatiles of two by two: within the grid, on its western and eastern edge,
   and larger than the grid, whose lower row is out of bounds. *)
EXTENDS MapSplitter

\* Filter is the SelectSeq of the standard modules.
ASSUME FilterIsSelectSeq ==
  \A s \in BoundedSeq(1 .. 3, 4), S \in SUBSET (1 .. 3) :
    Filter(s, S) = SelectSeq(s, LAMBDA e : e \in S)

MCBaseTiles ==
  {[z |-> 0, x |-> 0, y |-> 0, metatile |-> 2],
   [z |-> 1, x |-> 1, y |-> 0, metatile |-> 2],
   [z |-> 2, x |-> 2, y |-> 1, metatile |-> 2]}
=============================================================================
