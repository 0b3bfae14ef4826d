------------------------- MODULE MCAgentConversation -------------------------
(* Instances of AgentConversation for TLC. *)
EXTENDS AgentConversation, TLC

CONSTANTS s1, s2, p1, i1, i2, f1, f2

OneSession == {s1}
TwoSessions == {s1, s2}
OneProc == {p1}
OneField == {f1}
TwoFields == {f1, f2}
OneId == {i1}
TwoIds == {i1, i2}
NoVoice == {}

AllFaults == {"db", "read", "raise", "crash", "wipe", "empty"}
CallFaults == {"db", "raise", "crash", "empty"}
NoFaults == {}

(* What the messages of a run carry: at most one empty value, alone.       *)
CallSaid ==
  {d \in Data : d.rid \in {i1, None} /\ d.lost = {}}
    \cup {[Nothing EXCEPT !.lost = {f1}]}
ChatSaid ==
  {d \in Data : d.rid \in {i1, None} /\ d.lost = {}}
    \cup {[Nothing EXCEPT !.lost = {f1}, !.rid = Blank]}
NoneGiven == {Nothing}
SomeGiven == {Nothing, [Nothing EXCEPT !.known = {f1}], [Nothing EXCEPT !.rid = i1]}

SymSessions == Permutations(TwoSessions)
=============================================================================
