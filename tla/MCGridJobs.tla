----------------------------- MODULE MCGridJobs -----------------------------
(***************************************************************************)
(* Instances of GridJobs for TLC.                                          *)
(***************************************************************************)
EXTENDS GridJobsInv, TLC

Symmetry == Permutations(Jobs) \cup Permutations(Cancellers)

=============================================================================
