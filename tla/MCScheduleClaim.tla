--------------------------- MODULE MCScheduleClaim ---------------------------
(* ScheduleClaim with two plans: one, and the same with an earlier end. *)
EXTENDS ScheduleClaim, TLC

Repeats == {1, 3, 5}
EndsEarly == {1, 3}
Plans == {Repeats, EndsEarly}

Symmetry == Permutations(Proc)
=============================================================================
