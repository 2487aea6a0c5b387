----------------------------- MODULE MCSqliteGate -----------------------------
(* SqliteGate with interchangeable calls of each kind. *)
EXTENDS SqliteGate, TLC

Symmetry == Permutations(Statement) \cup Permutations(Transaction)
=============================================================================
