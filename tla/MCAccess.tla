------------------------------- MODULE MCAccess -------------------------------
(* Small instances of Access for TLC. *)
EXTENDS Access, TLC

Everywhere == "everything"

Sub == "subscription"

(* A Viewer of everything and an Editor of one subscription. *)
SomeChoices == {[OnEverything("viewer") EXCEPT ![Sub] = "editor"]}

=============================================================================
