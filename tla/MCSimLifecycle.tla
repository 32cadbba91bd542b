--------------------------- MODULE MCSimLifecycle ---------------------------
(* The symmetry of the run of SimLifecycle. *)
EXTENDS SimLifecycle

CallerSymmetry == Permutations(Caller)
=============================================================================
