----------------------------- MODULE MCTrigger -----------------------------
(* An instance of Trigger: callbacks and workers are due in every second   *)
(* step.                                                                   *)
EXTENDS Trigger

SecondStep == [e \in Entries |-> IF e \in Waiters THEN 1 ELSE 2]
=============================================================================
