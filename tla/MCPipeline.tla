----------------------------- MODULE MCPipeline -----------------------------
(* A small instance of Pipeline for TLC: one job of two rows, two workers, a
   buffer of two, and one owner string for every process run that can happen. *)
EXTENDS Pipeline

MCTasks == 1 .. 2
MCJobs == {"a"}
MCJobOf == [t \in MCTasks |-> "a"]
MCSymmetry == Permutations(Workers)
MCOwners == 1 .. (1 + MaxFaults)
=============================================================================
