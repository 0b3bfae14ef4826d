------------------------------ MODULE OrderBook ------------------------------
(***************************************************************************)
(* What the dashboards promise to those who keep the reservations, free of *)
(* pages, listings, dialogs and buttons: an order to cancel, seat or call  *)
(* is given on a reservation that stands, or stood when the host last saw  *)
(* it; a form is sent again only when what it sent before is given up; an  *)
(* order is carried out at most once, it alone, and reported done only     *)
(* then; and an order changes nothing else.  To give an order up does not  *)
(* call it back: it may have been carried out, or be carried out later.    *)
(* HostDashboard implements this.                                          *)
(***************************************************************************)
EXTENDS Naturals

CONSTANTS Ids, Numbers, Forms, OtherRows, None

VARIABLES
  rows, changed, rev,  \* the reservations, when each last changed, and the last change
  order                \* order[n]: the order number n

vars == <<rows, changed, rev, order>>

NewRow == [status |-> "confirmed", call |-> "pending"]
Blank == [pc |-> "unsent", served |-> FALSE, kind |-> None, id |-> None, form |-> None, seen |-> 0]

Init ==
  /\ rows = [i \in Ids |-> None] /\ changed = [i \in Ids |-> 0] /\ rev = 0
  /\ order = [n \in Numbers |-> Blank]

(* A guest who may be cancelled, seated or called.                         *)
Expected(k, row) ==
  /\ row.status = "confirmed"
  /\ k = "call" => row.call \notin {"confirmed", "declined"}

(* With s the last change of all that the host has seen.                   *)
Give(n, k, i, s) ==
  /\ order[n].pc = "unsent"
  /\ rows[i] # None /\ s <= rev
  /\ s < changed[i] \/ Expected(k, rows[i])
  /\ order' = [order EXCEPT ![n] = [pc |-> "sent", served |-> FALSE, kind |-> k, id |-> i,
                                    form |-> None, seen |-> s]]
  /\ UNCHANGED <<rows, changed, rev>>

GiveForm(n, f) ==
  /\ order[n].pc = "unsent"
  /\ \A m \in Numbers : order[m].form = f => order[m].pc = "lost"
  /\ order' = [order EXCEPT ![n] = [pc |-> "sent", served |-> FALSE, kind |-> "create",
                                    id |-> None, form |-> f, seen |-> 0]]
  /\ UNCHANGED <<rows, changed, rev>>

Put(i, row) ==
  /\ rows' = [rows EXCEPT ![i] = row]
  /\ changed' = [changed EXCEPT ![i] = rev + 1]
  /\ rev' = rev + 1

CarryOut(n, i) ==
  /\ order[n].pc \in {"sent", "lost"} /\ ~order[n].served
  /\ order' = [order EXCEPT ![n].served = TRUE, ![n].id = i]
  /\ \/ order[n].kind = "create" /\ rows[i] = None /\ Put(i, NewRow)
     \/ /\ order[n].id = i
        /\ \/ order[n].kind = "cancel" /\ Put(i, [rows[i] EXCEPT !.status = "cancelled"])
           \/ order[n].kind = "seat" /\ Put(i, [rows[i] EXCEPT !.status = "seated"])
           \/ order[n].kind = "call" /\ Put(i, [rows[i] EXCEPT !.call = "confirmed"])

Report(n) ==
  /\ order[n].pc = "sent" /\ order[n].served
  /\ order' = [order EXCEPT ![n].pc = "done"]
  /\ UNCHANGED <<rows, changed, rev>>

(* Refused, or lost on the way there or back.                              *)
GiveUp(n) ==
  /\ order[n].pc = "sent"
  /\ order' = [order EXCEPT ![n].pc = "lost"]
  /\ UNCHANGED <<rows, changed, rev>>

Others(i) ==
  /\ IF rows[i] = None THEN Put(i, NewRow) ELSE \E row \in OtherRows : Put(i, row)
  /\ UNCHANGED order

Handle(n) ==
  \/ \E k \in {"cancel", "seat", "call"}, i \in Ids, s \in 0..rev : Give(n, k, i, s)
  \/ \E f \in Forms : GiveForm(n, f)
  \/ \E i \in Ids : CarryOut(n, i)
  \/ Report(n)
  \/ GiveUp(n)

(* The inequations follow from the rest; a step that leaves the book alone *)
(* is told from the others without looking at every order.                 *)
Next ==
  \/ order' # order /\ \E n \in Numbers : Handle(n)
  \/ rev' # rev /\ \E i \in Ids : Others(i)

Spec == Init /\ [][Next]_vars
=============================================================================
