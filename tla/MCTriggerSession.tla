--------------------------- MODULE MCTriggerSession ---------------------------
(* Instances of TriggerSession for TLC: legs of 40 cents each.                 *)
EXTENDS TriggerSession

Asks == [k \in 1..N |-> 40]
================================================================================
