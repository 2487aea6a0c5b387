------------------------- MODULE MCFindingLifecycle -------------------------
(* FindingLifecycle with rules, resources and rows as model values. *)
EXTENDS FindingLifecycle, TLC

Symmetry == Permutations(RowVal)
=============================================================================
