------------------------------ MODULE MCStartup ------------------------------
(* Startup with the casings a vintage's two scans may have met. *)
EXTENDS Startup

AnyCasing == {"lower", "mixed"} \X {"lower", "mixed"}
MixedCasing == {<<"mixed", "mixed">>}
=============================================================================
