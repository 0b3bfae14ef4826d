-------------------------- MODULE MCFloorPlanEditing -------------------------
(* An instance of FloorPlanEditing for TLC. *)
EXTENDS FloorPlanEditing, TLC

CONSTANTS e1, t1, zone1, large, small, four, s1, s2

OneTab == {e1}
TwoIds == {t1, zone1}
Kind == t1 :> "table_rect" @@ zone1 :> "zone"
OnePlace == {"here"}
TwoSizes == {small, large}
StandardSize == [k \in Kinds |-> IF k = "zone" THEN large ELSE small]
OneLabel == {"label"}
SameLabel == [k \in Kinds |-> "label"]
TwoSettings == {four, "other"}
TwoSaves == {s1, s2}

(* No plan delivered with the product.                                     *)
NothingDrawn == EmptyPlan
=============================================================================
