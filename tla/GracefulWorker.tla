--------------------------- MODULE GracefulWorker ---------------------------
(***************************************************************************)
(* What a job queue promises the process that owns it, without events,     *)
(* flags, iterators or a job table: items are worked on within a capacity  *)
(* while the worker is open; closing lets the items at work end and begins *)
(* none; the worker shuts only when it is idle; only the death of the      *)
(* process takes work away.                                                *)
(***************************************************************************)
EXTENDS Naturals

CONSTANTS Items, Capacity

VARIABLES phase,  \* "off", "open", "closing" or "shut"
          busy,   \* the items at work
          load    \* how many they are

Init == phase = "off" /\ busy = {} /\ load = 0

Open == /\ phase = "off"
        /\ phase' = "open"
        /\ UNCHANGED <<busy, load>>

Begin == /\ phase = "open"
         /\ load < Capacity
         /\ \E i \in Items \ busy : busy' = busy \cup {i}
         /\ load' = load + 1
         /\ UNCHANGED phase

End == /\ \E i \in busy : busy' = busy \ {i}
       /\ load' = load - 1
       /\ UNCHANGED phase

Close == /\ phase = "open"
         /\ phase' = "closing"
         /\ UNCHANGED <<busy, load>>

\* An idle worker may shut at once.
Shut == /\ phase \in {"open", "closing"}
        /\ busy = {}
        /\ phase' = "shut"
        /\ UNCHANGED <<busy, load>>

Die == phase' = "off" /\ busy' = {} /\ load' = 0

Next == Open \/ Begin \/ End \/ Close \/ Shut \/ Die

Spec == Init /\ [][Next]_<<phase, busy, load>>
=============================================================================
