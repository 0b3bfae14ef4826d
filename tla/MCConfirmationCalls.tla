------------------------ MODULE MCConfirmationCalls ------------------------
(* Instances of ConfirmationCalls for TLC. *)
EXTENDS ConfirmationCalls, TLC

CONSTANTS r1, p1, p2

TwoProcs == {p1, p2}
OneRes == {r1}
ThreeTimes == {1, 2, 4}

SymProcs == Permutations(TwoProcs)
=============================================================================
