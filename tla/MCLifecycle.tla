----------------------------- MODULE MCLifecycle -----------------------------
(* An instance of Lifecycle for TLC: two storage providers share an endpoint. *)
EXTENDS Lifecycle

CONSTANTS j1, j2, e1, e2

MCProviders ==
  {[id |-> 1, kind |-> "s3", endpoint |-> e1],
   [id |-> 2, kind |-> "s3", endpoint |-> e1],
   [id |-> 3, kind |-> "s3", endpoint |-> e2],
   [id |-> 4, kind |-> "fs", endpoint |-> "none"]}
=============================================================================
