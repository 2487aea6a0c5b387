---------------------------- MODULE MCReadSession ----------------------------
(* Small instances of ReadSession for TLC. *)
EXTENDS ReadSession, TLC

Symmetry == Permutations(Filters)

=============================================================================
