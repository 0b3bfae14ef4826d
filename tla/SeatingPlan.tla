----------------------------- MODULE SeatingPlan -----------------------------
(***************************************************************************)
(* What the service of table assignments promises, free of rows, hours of  *)
(* rows, browsers and caches: every guest has at most one table, a table   *)
(* serves at most one guest of an hour, and seating a guest at a table     *)
(* takes it from the one who had it at that hour, and from nobody else.    *)
(* TableAssignment implements this.                                        *)
(***************************************************************************)
CONSTANTS Tables, Guests, Hour, None

VARIABLE place     \* place[g]: the table of a guest, or None

Init == place = [g \in Guests |-> None]

(* A guest who has another table stays there.                              *)
Sit(g, t) ==
  /\ place[g] \in {None, t}
  /\ place' = [x \in Guests |->
                 IF x = g THEN t
                 ELSE IF place[x] = t /\ Hour[x] = Hour[g] THEN None
                 ELSE place[x]]

Leave(g) == place' = [place EXCEPT ![g] = None]

Next == \E g \in Guests : Leave(g) \/ \E t \in Tables : Sit(g, t)

Spec == Init /\ [][Next]_place
=============================================================================
