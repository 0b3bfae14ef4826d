---------------------------- MODULE PlanRegister -----------------------------
(***************************************************************************)
(* What the floor plan promises its editors, free of files, requests,      *)
(* pages and the two forms a plan is written in: it is a register.  Every  *)
(* save takes effect at most once and as a whole, and only when its author *)
(* may edit; the plan is what one author saw when saving, or the default   *)
(* plan of the product, or broken because the server died while writing.   *)
(* FloorPlanEditing implements this.                                       *)
(***************************************************************************)
CONSTANTS
  Saves,     \* the identities of saves
  Layouts,   \* everything that can be drawn
  Default,   \* the layout of the product
  Broken     \* no layout

VARIABLES
  plan,      \* the layout in force, or Broken
  save       \* save[n]: a save begun, whether its author may edit, and the layout

vars == <<plan, save>>

Init ==
  /\ plan = Default
  /\ \A n \in Saves : save[n].pc = "free"

(* By anybody, with any layout.                                            *)
Offer(n) ==
  /\ save[n].pc = "free"
  /\ save'[n] \in [pc : {"sent"}, right : BOOLEAN, layout : Layouts]
  /\ save' = [save EXCEPT ![n] = save'[n]]
  /\ UNCHANGED plan

Finish(n) ==
  /\ save[n].pc = "sent"
  /\ save'[n].pc = "over"
  /\ save' = [save EXCEPT ![n] = save'[n]]

Publish(n) == Finish(n) /\ save[n].right /\ plan' = save[n].layout
Break(n)   == Finish(n) /\ save[n].right /\ plan' = Broken
Lose(n)    == Finish(n) /\ UNCHANGED plan
Reset      == plan' = Default /\ UNCHANGED save

Next ==
  \/ \E n \in Saves : Offer(n) \/ Publish(n) \/ Break(n) \/ Lose(n)
  \/ Reset

Spec == Init /\ [][Next]_vars
=============================================================================
