---------------------------- MODULE MCBackOffice ----------------------------
(* Instances of BackOffice for TLC. *)
EXTENDS BackOffice

CONSTANTS p1

OneProc == {p1}
TwoNames == {"admin", "ann"}
OneDefault == [n \in {"admin"} |-> "admin"]
=============================================================================
