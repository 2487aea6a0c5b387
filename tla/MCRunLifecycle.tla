--------------------------- MODULE MCRunLifecycle ---------------------------
(* RunLifecycle with its containers, runs and categories as model values. *)
EXTENDS RunLifecycle, TLC

Symmetry == Permutations(Proc) \cup Permutations(Run)
=============================================================================
