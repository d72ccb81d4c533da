------------------------------- MODULE Filter -------------------------------
(***************************************************************************)
(* Array.prototype.filter, by a recursive function: SelectSeq of the       *)
(* standard modules, which the provers cannot unfold.                      *)
(***************************************************************************)
EXTENDS Integers, Sequences

\* The elements of s that are in S, in the order of s.
Filter(s, S) ==
  LET upTo[n \in 0 .. Len(s)] ==
        IF n = 0 THEN <<>>
        ELSE IF s[n] \in S THEN Append(upTo[n - 1], s[n]) ELSE upTo[n - 1]
  IN  upTo[Len(s)]
=============================================================================
