---------------------------- MODULE MCLeaseQueue ----------------------------
(* A small instance of LeaseQueue for TLC. *)
EXTENDS LeaseQueue

MCTasks == 1 .. 2
MCJobOf == [t \in MCTasks |-> IF t = 1 THEN "a" ELSE "b"]
=============================================================================
