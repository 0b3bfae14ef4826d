-------------------------- MODULE MCSchemaRecovery --------------------------
(* Instances of SchemaRecovery for TLC. *)
EXTENDS SchemaRecovery

CONSTANTS p1, p2

TwoProcs == {p1, p2}
OneName == {"admin"}
OneDefault == [n \in OneName |-> "admin"]
=============================================================================
