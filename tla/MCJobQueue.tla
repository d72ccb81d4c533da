----------------------------- MODULE MCJobQueue -----------------------------
(* Instances of JobQueue for TLC: the jobs are model values. *)
EXTENDS JobQueue

CONSTANTS j1, j2
=============================================================================
