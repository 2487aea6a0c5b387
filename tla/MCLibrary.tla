------------------------------ MODULE MCLibrary ------------------------------
(* Small instances of Library for TLC. *)
EXTENDS Library, TLC

Symmetry == Permutations(Callers) \cup Permutations(RuleIds \ Existing) \cup Permutations(RequestIds)
            \cup Permutations(Names)

=============================================================================
