-------------------------- MODULE MCTableAssignment --------------------------
(* Instances of TableAssignment for TLC. *)
EXTENDS TableAssignment, TLC

CONSTANTS b1, t1, t2, g1, g2

OneBrowser == {b1}
TwoTables == {t1, t2}
TwoGuests == {g1, g2}

(* g1 fills the large table, g2 the small one.                             *)
SmallAndLarge == t1 :> 1 @@ t2 :> 2
Couples == g1 :> 2 @@ g2 :> 1

SameHour == g1 :> 20 @@ g2 :> 20

OnePicky == {g2}
LikesLarge == g1 :> {} @@ g2 :> {t2}
=============================================================================
