----------------------------- MODULE BookingDesk -----------------------------
(***************************************************************************)
(* What the conversational agent promises about the reservations table,    *)
(* free of turns, checkpoints and sub-agents: a booking made in a session  *)
(* is made of what its guest has said, all of it, and a session cancels    *)
(* only a reservation it booked or whose number its guest gave.  Everybody *)
(* else (the REST handlers) does what it likes.  AgentConversation         *)
(* implements this.                                                        *)
(***************************************************************************)
CONSTANTS Sessions, Fields, Ids, Status, None

VARIABLES
  rows,     \* rows[id]: the status of a reservation, or None
  heard,    \* heard[s]: the required fields the guest of s has stated
  told,     \* told[s]: the reservation ids the guest of s has given
  booked,   \* booked[s]: the reservations that session s has stored
  dropped   \* dropped[s]: the reservations that session s has cancelled

deskVars == <<rows, heard, told, booked, dropped>>

Init ==
  /\ rows = [id \in Ids |-> None]
  /\ heard = [s \in Sessions |-> {}]
  /\ told = [s \in Sessions |-> {}]
  /\ booked = [s \in Sessions |-> {}]
  /\ dropped = [s \in Sessions |-> {}]

(* The guest says something.                                               *)
Listen(s) ==
  /\ \E F \in SUBSET Fields : heard' = [heard EXCEPT ![s] = @ \cup F]
  /\ \E I \in SUBSET Ids : told' = [told EXCEPT ![s] = @ \cup I]
  /\ UNCHANGED <<rows, booked, dropped>>

Book(s, id) ==
  /\ heard[s] = Fields
  /\ rows[id] = None
  /\ rows' = [rows EXCEPT ![id] = "confirmed"]
  /\ booked' = [booked EXCEPT ![s] = @ \cup {id}]
  /\ UNCHANGED <<heard, told, dropped>>

Cancel(s, id) ==
  /\ id \in booked[s] \cup told[s]
  /\ rows[id] # None
  /\ rows' = [rows EXCEPT ![id] = "cancelled"]
  /\ dropped' = [dropped EXCEPT ![s] = @ \cup {id}]
  /\ UNCHANGED <<heard, told, booked>>

(* A request of the staff or of the website.                               *)
Elsewhere(id) ==
  /\ \E st \in Status : rows' = [rows EXCEPT ![id] = st]
  /\ UNCHANGED <<heard, told, booked, dropped>>

Next ==
  \/ \E s \in Sessions : Listen(s)
  \/ \E s \in Sessions, id \in Ids : Book(s, id) \/ Cancel(s, id)
  \/ \E id \in Ids : Elsewhere(id)

Spec == Init /\ [][Next]_deskVars
=============================================================================
