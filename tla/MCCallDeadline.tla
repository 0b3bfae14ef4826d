--------------------------- MODULE MCCallDeadline ---------------------------
(* Instances of CallDeadline for TLC. *)
EXTENDS CallDeadline

CONSTANTS r1, r2, p1

OneProc == {p1}
TwoRes == {r1, r2}
TwoTimes == {2, 3}
=============================================================================
