--------------------------- MODULE MCContextWindow ---------------------------
(* Instances of ContextWindow for TLC. *)
EXTENDS ContextWindow

SizeOf(c, t, h) == [chars |-> c, tok |-> t, hit |-> h]

(* Seven characters are worth one token by estimate and two at once.       *)
ThePrompt == SizeOf(8, 3, FALSE)
SomeInputs == {SizeOf(0, 4, FALSE), SizeOf(7, 2, TRUE), SizeOf(30, 9, FALSE)}
SomeReplies == {SizeOf(7, 2, FALSE), SizeOf(20, 7, TRUE)}
AllStrategies == {"sliding", "summarize", "semantic"}
=============================================================================
