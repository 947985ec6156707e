----------------------------- MODULE MCGovernor -----------------------------
(* A small instance of Governor for TLC: windows of one and two ticks. *)
EXTENDS Governor

MCSymmetry == Permutations(Callers)
=============================================================================
