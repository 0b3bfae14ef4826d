---------------------------- MODULE MCHostDashboard ---------------------------
(* An instance of HostDashboard for TLC. *)
EXTENDS HostDashboard

CONSTANTS d1, f1

OnePage == {d1}
OneId == {1}
TwoRequests == {1, 2}
OneForm == {f1}
Seats == {[status |-> "seated", call |-> "pending"]}
=============================================================================
