--------------------------- MODULE TableAssignment ---------------------------
(***************************************************************************)
(* Tables for the guests of one day: the table floor_plan_assignments and  *)
(* the service in front of it (src/src/services/floor_plan_service.py),    *)
(* and the dashboards of several hosts (src/ui/src/pages/Dashboard.tsx),   *)
(* each with its own cached copy of the assignments and reservations, its  *)
(* assign and unassign modals, and the auto-assign loop, which works on    *)
(* the copies it started with and sends one request after the other.       *)
(*                                                                         *)
(* A request and its reply are one step: until the reply comes the loop    *)
(* waits, and nobody else sees what the browser does with it.  Definitions *)
(* named Slip are as in ConfirmationCalls.                                 *)
(***************************************************************************)
EXTENDS Integers, FiniteSets

CONSTANTS
  Browsers,    \* open dashboards of hosts who may write
  Tables,      \* the tables of the floor plan
  Guests,      \* the reservations of the day
  Seats,       \* Seats[t]: the capacity of a table
  Size,        \* Size[g]: party_size
  Hour,        \* Hour[g]: the full hour of the reservation's time
  Picky,       \* the reservations with a preference
  Likes,       \* Likes[g]: the tables in a section matching the preference
  Lossy,       \* TRUE: requests, replies and reads may fail
  None         \* no table

VARIABLES
  seat,     \* the rows of floor_plan_assignments
  live,     \* the reservations that exist and are not cancelled
  view,     \* view[b]: what browser b has cached of both
  auto      \* auto[b]: the auto-assign loop of browser b

vars == <<seat, live, view, auto>>

Hours == {Hour[g] : g \in Guests}

Row == [table : Tables, guest : Guests, hour : Hours]

ASSUME ConstantsAssumption ==
  /\ Seats \in [Tables -> Nat]
  /\ Size \in [Guests -> Nat]
  /\ DOMAIN Hour = Guests
  /\ Likes \in [Guests -> SUBSET Tables]
  /\ \A g \in Guests \ Picky : Likes[g] = {}
  /\ Lossy \in BOOLEAN
  /\ None \notin Tables

TablesOf(R) == {x.table : x \in R}

(* A loop: the reservations ahead, usedTables, the assignments it started  *)
(* from, and those it has made.                                            *)
Loop(todo, used, seen) ==
  [on |-> TRUE, todo |-> todo, used |-> used, seen |-> seen, made |-> {}]
NoLoop == [Loop({}, {}, {}) EXCEPT !.on = FALSE]

Init ==
  /\ seat = {}
  /\ live = {}
  /\ view = [b \in Browsers |-> [seat |-> {}, live |-> {}]]
  /\ auto = [b \in Browsers |-> NoLoop]

------------------------------------------------------------------------------
(* The service.                                                            *)

(* INSERT ... ON CONFLICT (table_id, date, hour) DO UPDATE: the row of the *)
(* table changes hands.  The other constraint, UNIQUE(reservation_id,      *)
(* date, hour), makes it raise.                                            *)
RefusedSlip(t, g, h) == FALSE
Refused(t, g, h) == \E x \in seat : x.guest = g /\ x.hour = h /\ x.table # t

AssignTable(t, g, h) ==
  /\ ~Refused(t, g, h)
  /\ seat' = {x \in seat : x.table # t \/ x.hour # h}
               \cup {[table |-> t, guest |-> g, hour |-> h]}

UnassignTable(g, h) == seat' = {x \in seat : x.guest # g \/ x.hour # h}

(* get_assignments for the whole day; an exception gives an empty answer.  *)
GetAssignments == {seat} \cup (IF Lossy THEN {{}} ELSE {})

------------------------------------------------------------------------------
(* The dashboard.                                                          *)

RefetchAssignments(b) ==
  /\ \E answer \in GetAssignments : view' = [view EXCEPT ![b].seat = answer]
  /\ UNCHANGED <<seat, live, auto>>

(* The query of the reservations, filtered by dayReservations.             *)
RefetchReservations(b) ==
  /\ view' = [view EXCEPT ![b].live = live]
  /\ UNCHANGED <<seat, live, auto>>

(* An occupied table, as the modals and the viewer show it.                *)
Occupied(b, t, h) ==
  \E x \in view[b].seat : x.table = t /\ x.hour = h /\ x.guest \in view[b].live

SeatedAt(b, g, h) == \E x \in view[b].seat : x.guest = g /\ x.hour = h

(* The modal of a table: any reservation of the hour that has no table.    *)
AssignFromTable(b, t, g) ==
  /\ ~Occupied(b, t, Hour[g])
  /\ g \in view[b].live /\ ~SeatedAt(b, g, Hour[g])
  /\ AssignTable(t, g, Hour[g])
  /\ UNCHANGED <<live, view, auto>>

(* The modal of a reservation: the free tables that are large enough.  It  *)
(* is opened for one without a table, and does not look whether it has one *)
(* by then.                                                                *)
AssignFromReservation(b, t, g) ==
  /\ g \in view[b].live
  /\ \A x \in view[b].seat : x.hour = Hour[g] => x.table # t
  /\ Seats[t] >= Size[g]
  /\ AssignTable(t, g, Hour[g])
  /\ UNCHANGED <<live, view, auto>>

(* "Unassign" of the table modal and of the card: by reservation, date and *)
(* hour, whatever table the reservation has by then.                       *)
Unassign(b, x) ==
  /\ x \in view[b].seat
  /\ UnassignTable(x.guest, x.hour)
  /\ UNCHANGED <<live, view, auto>>

------------------------------------------------------------------------------
(* handleAutoAssign.                                                       *)

(* The tables and reservations of the day's assignments count as taken, of *)
(* whatever hour.                                                          *)
UsedAtStartSlip(b) == {}
UsedAtStart(b) == TablesOf(view[b].seat)

AutoStart(b, h) ==
  /\ ~auto[b].on
  /\ LET todo == {g \in view[b].live :
                    Hour[g] = h /\ \A x \in view[b].seat : x.guest # g}
     IN  auto' = [auto EXCEPT ![b] = Loop(todo, UsedAtStart(b), view[b].seat)]
  /\ UNCHANGED <<seat, live, view>>

(* Reservations with a preference come first.                              *)
NextInLoop(b, g) ==
  /\ auto[b].on /\ g \in auto[b].todo
  /\ g \in Picky \/ auto[b].todo \cap Picky = {}

Fitting(b, g) == {t \in Tables \ auto[b].used : Seats[t] >= Size[g]}

(* A table of the preferred section, else a smallest one.  Which of        *)
(* several is the order of the floor plan, left open here.                 *)
Best(b, g) ==
  IF Likes[g] \cap Fitting(b, g) # {}
  THEN Likes[g] \cap Fitting(b, g)
  ELSE {t \in Fitting(b, g) : \A u \in Fitting(b, g) : Seats[t] <= Seats[u]}

Done(b, g) == [auto[b] EXCEPT !.todo = @ \ {g}]

(* The loop remembers the table of a request that was answered.            *)
AnsweredSlip(b, t, g) ==
  [Done(b, g) EXCEPT !.made = @ \cup {[table |-> t, guest |-> g, hour |-> Hour[g]]}]
Answered(b, t, g) ==
  [Done(b, g) EXCEPT !.used = @ \cup {t},
                     !.made = @ \cup {[table |-> t, guest |-> g, hour |-> Hour[g]]}]

AutoSeats(b, t, g) ==
  /\ NextInLoop(b, g) /\ t \in Best(b, g)
  /\ AssignTable(t, g, Hour[g])
  /\ auto' = [auto EXCEPT ![b] = Answered(b, t, g)]
  /\ UNCHANGED <<live, view>>

(* An error answer, a request or a reply that is lost: logged, and the     *)
(* loop goes on without the table in usedTables.                           *)
AutoFails(b, t, g) ==
  /\ NextInLoop(b, g) /\ t \in Best(b, g)
  /\ \/ Refused(t, g, Hour[g]) /\ UNCHANGED seat
     \/ Lossy /\ (AssignTable(t, g, Hour[g]) \/ UNCHANGED seat)
  /\ auto' = [auto EXCEPT ![b] = Done(b, g)]
  /\ UNCHANGED <<live, view>>

AutoSkips(b, g) ==
  /\ NextInLoop(b, g) /\ Fitting(b, g) = {}
  /\ auto' = [auto EXCEPT ![b] = Done(b, g)]
  /\ UNCHANGED <<seat, live, view>>

AutoEnd(b) ==
  /\ auto[b].on /\ auto[b].todo = {}
  /\ auto' = [auto EXCEPT ![b] = NoLoop]
  /\ UNCHANGED <<seat, live, view>>

(* The dashboard is closed or reloaded: its loop dies, its cache is empty. *)
Reload(b) ==
  /\ auto' = [auto EXCEPT ![b] = NoLoop]
  /\ view' = [view EXCEPT ![b] = [seat |-> {}, live |-> {}]]
  /\ UNCHANGED <<seat, live>>

------------------------------------------------------------------------------
(* The reservations: created, cancelled, or set to another status again.   *)
(* None of these looks at the assignments.                                 *)

Arrives(g) ==
  /\ g \notin live /\ live' = live \cup {g}
  /\ UNCHANGED <<seat, view, auto>>

Cancels(g) ==
  /\ g \in live /\ live' = live \ {g}
  /\ UNCHANGED <<seat, view, auto>>

(* Any other client of POST and DELETE .../floor-plan/assignments, taken   *)
(* to ask for the hour of the reservation.  A refusal changes nothing.     *)
RestAssigns(t, g) == AssignTable(t, g, Hour[g]) /\ UNCHANGED <<live, view, auto>>
RestUnassigns(g) == UnassignTable(g, Hour[g]) /\ UNCHANGED <<live, view, auto>>

Next ==
  \/ \E g \in Guests : Arrives(g) \/ Cancels(g) \/ RestUnassigns(g)
  \/ \E t \in Tables, g \in Guests : RestAssigns(t, g)
  \/ \E b \in Browsers :
       \/ RefetchAssignments(b) \/ RefetchReservations(b) \/ Reload(b)
       \/ \E t \in Tables, g \in Guests :
            \/ AssignFromTable(b, t, g) \/ AssignFromReservation(b, t, g)
            \/ AutoSeats(b, t, g) \/ AutoFails(b, t, g)
       \/ \E x \in Row : Unassign(b, x)
       \/ \E h \in Hours : AutoStart(b, h)
       \/ \E g \in Guests : AutoSkips(b, g)
       \/ AutoEnd(b)

Spec == Init /\ [][Next]_vars

------------------------------------------------------------------------------
(* Properties.                                                             *)

LoopState ==
  [on : BOOLEAN, todo : SUBSET Guests, used : SUBSET Tables,
   seen : SUBSET Row, made : SUBSET Row]

TypeOK ==
  /\ seat \subseteq Row
  /\ live \subseteq Guests
  /\ view \in [Browsers -> [seat : SUBSET Row, live : SUBSET Guests]]
  /\ auto \in [Browsers -> LoopState]

(* However many hosts and loops work from stale copies, a reservation      *)
(* never holds two tables, nor a table at an hour that is not its own, and *)
(* no table is given to two reservations of an hour.                       *)
OneTable ==
  /\ \A x \in seat : x.hour = Hour[x.guest]
  /\ \A x, y \in seat : x.guest = y.guest => x = y
  /\ \A x, y \in seat : x.table = y.table /\ x.hour = y.hour => x = y

(* What a loop was shown or has made is in its usedTables.                 *)
UsedCovers ==
  \A b \in Browsers : TablesOf(auto[b].seen \cup auto[b].made) \subseteq auto[b].used

(* The inductive invariant.                                                *)
IInv == TypeOK /\ OneTable /\ UsedCovers

(* A reservation loses its table to another one only to a host whose       *)
(* dashboard did not show it there: the modals overwrite no reservation    *)
(* they show seated, the loop touches no table it was shown taken or has   *)
(* given away itself.                                                      *)
NeverTakesSeen ==
  [][\A b \in Browsers, t \in Tables, g \in Guests : \A x \in seat \ seat' :
       /\ AssignFromTable(b, t, g) \/ AssignFromReservation(b, t, g)
          => x \notin view[b].seat \/ x.guest \notin view[b].live
       /\ AutoSeats(b, t, g) \/ AutoFails(b, t, g)
          => x.table \notin TablesOf(auto[b].seen \cup auto[b].made)]_vars

(* The service implements the seating plan.                                *)
Place ==
  [g \in Guests |-> IF \E x \in seat : x.guest = g
                    THEN (CHOOSE x \in seat : x.guest = g).table
                    ELSE None]
Plan == INSTANCE SeatingPlan WITH place <- Place
SeatingSpec == Plan!Spec
=============================================================================
