----------------------- MODULE TableAssignment_proofs -----------------------
(***************************************************************************)
(* Proofs about TableAssignment, for any dashboards, tables and guests,    *)
(* whatever the capacities, parties, hours and preferences, and whether or *)
(* not requests, replies and reads may fail.                               *)
(***************************************************************************)
EXTENDS TableAssignment, TLAPS

(* A loop in which the invariant holds.                                    *)
LoopOK(a) ==
  /\ a \in LoopState
  /\ TablesOf(a.seen \cup a.made) \subseteq a.used

LEMMA LoopsOK ==
  IInv <=> /\ seat \subseteq Row /\ OneTable
           /\ live \subseteq Guests
           /\ view \in [Browsers -> [seat : SUBSET Row, live : SUBSET Guests]]
           /\ auto \in [Browsers -> LoopState]
           /\ \A b \in Browsers : LoopOK(auto[b])
BY DEF IInv, TypeOK, UsedCovers, LoopOK

LEMMA NoLoopOK == LoopOK(NoLoop)
BY DEF LoopOK, NoLoop, Loop, LoopState, TablesOf

LEMMA StartOK ==
  ASSUME TypeOK, NEW b \in Browsers, NEW todo \in SUBSET Guests
  PROVE  LoopOK(Loop(todo, UsedAtStart(b), view[b].seat))
<1>1. view[b].seat \subseteq Row
  BY DEF TypeOK
<1>2. UsedAtStart(b) \subseteq Tables
  BY <1>1 DEF UsedAtStart, TablesOf, Row
<1> QED
  BY <1>1, <1>2 DEF LoopOK, Loop, LoopState, UsedAtStart, TablesOf

LEMMA DoneOK ==
  ASSUME NEW b \in Browsers, NEW g \in Guests, LoopOK(auto[b])
  PROVE  LoopOK(Done(b, g))
BY DEF LoopOK, LoopState, Done

LEMMA AnsweredOK ==
  ASSUME NEW b \in Browsers, NEW g \in Guests, NEW t \in Tables, LoopOK(auto[b])
  PROVE  LoopOK(Answered(b, t, g))
<1> DEFINE x == [table |-> t, guest |-> g, hour |-> Hour[g]]
<1>1. x \in Row /\ x.table = t
  BY DEF Row, Hours
<1>2. /\ Answered(b, t, g) \in LoopState
      /\ Answered(b, t, g).used = auto[b].used \cup {t}
      /\ Answered(b, t, g).made = auto[b].made \cup {x}
      /\ Answered(b, t, g).seen = auto[b].seen
  BY <1>1 DEF LoopOK, LoopState, Answered, Done
<1> HIDE DEF x
<1> QED
  BY <1>1, <1>2 DEF LoopOK, TablesOf

------------------------------------------------------------------------------
(* The steps, by what they do to the table and to the loops.               *)

SeatStep ==
  \/ UNCHANGED seat
  \/ \E t \in Tables, g \in Guests : AssignTable(t, g, Hour[g])
  \/ \E g \in Guests, h \in Hours : UnassignTable(g, h)

LoopStep ==
  \/ UNCHANGED auto
  \/ \E b \in Browsers, a \in LoopState : LoopOK(a) /\ auto' = [auto EXCEPT ![b] = a]

LEMMA NextCases ==
  ASSUME [Next]_vars
  PROVE  \/ \E g \in Guests : Arrives(g) \/ Cancels(g) \/ RestUnassigns(g)
         \/ \E t \in Tables, g \in Guests : RestAssigns(t, g)
         \/ \E b \in Browsers :
              \/ RefetchAssignments(b) \/ RefetchReservations(b) \/ Reload(b) \/ AutoEnd(b)
              \/ \E t \in Tables, g \in Guests :
                   \/ AssignFromTable(b, t, g) \/ AssignFromReservation(b, t, g)
                   \/ AutoSeats(b, t, g) \/ AutoFails(b, t, g)
              \/ \E x \in Row : Unassign(b, x)
              \/ \E h \in Hours : AutoStart(b, h)
              \/ \E g \in Guests : AutoSkips(b, g)
         \/ UNCHANGED vars
BY DEF Next

LEMMA SeatSteps ==
  ASSUME [Next]_vars
  PROVE  SeatStep
<1>1. ASSUME NEW g \in Guests, Arrives(g) \/ Cancels(g) \/ RestUnassigns(g)
      PROVE  SeatStep
  BY <1>1 DEF Arrives, Cancels, RestUnassigns, SeatStep, Hours
<1>2. ASSUME NEW t \in Tables, NEW g \in Guests, RestAssigns(t, g)
      PROVE  SeatStep
  BY <1>2 DEF RestAssigns, SeatStep
<1>3. ASSUME NEW b \in Browsers,
             \/ RefetchAssignments(b) \/ RefetchReservations(b) \/ Reload(b) \/ AutoEnd(b)
      PROVE  SeatStep
  BY <1>3 DEF RefetchAssignments, RefetchReservations, Reload, AutoEnd, SeatStep
<1>4. ASSUME NEW b \in Browsers, NEW t \in Tables, NEW g \in Guests,
             \/ AssignFromTable(b, t, g) \/ AssignFromReservation(b, t, g)
             \/ AutoSeats(b, t, g) \/ AutoFails(b, t, g)
      PROVE  SeatStep
  BY <1>4 DEF AssignFromTable, AssignFromReservation, AutoSeats, AutoFails, SeatStep
<1>5. ASSUME NEW b \in Browsers, NEW x \in Row, Unassign(b, x)
      PROVE  SeatStep
  BY <1>5 DEF Unassign, Row, SeatStep
<1>6. ASSUME NEW b \in Browsers, NEW h \in Hours, AutoStart(b, h)
      PROVE  SeatStep
  BY <1>6 DEF AutoStart, SeatStep
<1>7. ASSUME NEW b \in Browsers, NEW g \in Guests, AutoSkips(b, g)
      PROVE  SeatStep
  BY <1>7 DEF AutoSkips, SeatStep
<1>8. CASE UNCHANGED vars
  BY <1>8 DEF vars, SeatStep
<1> QED
  BY <1>1, <1>2, <1>3, <1>4, <1>5, <1>6, <1>7, <1>8, NextCases

LEMMA LoopSteps ==
  ASSUME IInv, [Next]_vars
  PROVE  LoopStep
<1>0. TypeOK /\ \A b \in Browsers : auto[b] \in LoopState /\ LoopOK(auto[b])
  BY LoopsOK DEF IInv, LoopOK
<1>1. ASSUME NEW g \in Guests, Arrives(g) \/ Cancels(g) \/ RestUnassigns(g)
      PROVE  LoopStep
  BY <1>1 DEF Arrives, Cancels, RestUnassigns, LoopStep
<1>2. ASSUME NEW t \in Tables, NEW g \in Guests, RestAssigns(t, g)
      PROVE  LoopStep
  BY <1>2 DEF RestAssigns, LoopStep
<1>3. ASSUME NEW b \in Browsers, RefetchAssignments(b) \/ RefetchReservations(b)
      PROVE  LoopStep
  BY <1>3 DEF RefetchAssignments, RefetchReservations, LoopStep
<1>4. ASSUME NEW b \in Browsers, Reload(b) \/ AutoEnd(b)
      PROVE  LoopStep
  <2>1. auto' = [auto EXCEPT ![b] = NoLoop] /\ NoLoop \in LoopState
    BY <1>4, NoLoopOK DEF Reload, AutoEnd, LoopOK
  <2> QED
    BY <2>1, NoLoopOK DEF LoopStep
<1>5. ASSUME NEW b \in Browsers, NEW t \in Tables, NEW g \in Guests,
             AssignFromTable(b, t, g) \/ AssignFromReservation(b, t, g)
      PROVE  LoopStep
  BY <1>5 DEF AssignFromTable, AssignFromReservation, LoopStep
<1>6. ASSUME NEW b \in Browsers, NEW t \in Tables, NEW g \in Guests, AutoSeats(b, t, g)
      PROVE  LoopStep
  <2>1. auto' = [auto EXCEPT ![b] = Answered(b, t, g)]
    BY <1>6 DEF AutoSeats
  <2>2. LoopOK(Answered(b, t, g)) /\ Answered(b, t, g) \in LoopState
    BY <1>0, AnsweredOK DEF LoopOK
  <2> QED
    BY <2>1, <2>2 DEF LoopStep
<1>7. ASSUME NEW b \in Browsers, NEW t \in Tables, NEW g \in Guests, AutoFails(b, t, g)
      PROVE  LoopStep
  <2>1. auto' = [auto EXCEPT ![b] = Done(b, g)]
    BY <1>7 DEF AutoFails
  <2>2. LoopOK(Done(b, g)) /\ Done(b, g) \in LoopState
    BY <1>0, DoneOK DEF LoopOK
  <2> QED
    BY <2>1, <2>2 DEF LoopStep
<1>8. ASSUME NEW b \in Browsers, NEW x \in Row, Unassign(b, x)
      PROVE  LoopStep
  BY <1>8 DEF Unassign, LoopStep
<1>9. ASSUME NEW b \in Browsers, NEW h \in Hours, AutoStart(b, h)
      PROVE  LoopStep
  <2>1. PICK todo \in SUBSET Guests :
          auto' = [auto EXCEPT ![b] = Loop(todo, UsedAtStart(b), view[b].seat)]
    BY <1>0, <1>9 DEF AutoStart, TypeOK
  <2>2. LoopOK(Loop(todo, UsedAtStart(b), view[b].seat))
    BY <1>0, StartOK
  <2>3. Loop(todo, UsedAtStart(b), view[b].seat) \in LoopState
    BY <2>2 DEF LoopOK
  <2> QED
    BY <2>1, <2>2, <2>3 DEF LoopStep
<1>10. ASSUME NEW b \in Browsers, NEW g \in Guests, AutoSkips(b, g)
       PROVE  LoopStep
  <2>1. auto' = [auto EXCEPT ![b] = Done(b, g)]
    BY <1>10 DEF AutoSkips
  <2>2. LoopOK(Done(b, g)) /\ Done(b, g) \in LoopState
    BY <1>0, DoneOK DEF LoopOK
  <2> QED
    BY <2>1, <2>2 DEF LoopStep
<1>11. CASE UNCHANGED vars
  BY <1>11 DEF vars, LoopStep
<1> QED
  BY <1>1, <1>2, <1>3, <1>4, <1>5, <1>6, <1>7, <1>8, <1>9, <1>10, <1>11, NextCases

------------------------------------------------------------------------------
(* The table.                                                              *)

LEMMA AssignKeeps ==
  ASSUME seat \subseteq Row, OneTable, NEW t \in Tables, NEW g \in Guests,
         AssignTable(t, g, Hour[g])
  PROVE  seat' \subseteq Row /\ OneTable'
<1> DEFINE new == [table |-> t, guest |-> g, hour |-> Hour[g]]
<1>1. /\ new \in Row
      /\ new.table = t /\ new.guest = g /\ new.hour = Hour[g]
  BY DEF Row, Hours
<1>2. /\ seat' = {x \in seat : x.table # t \/ x.hour # Hour[g]} \cup {new}
      /\ \A x \in seat : x.guest = g /\ x.hour = Hour[g] => x.table = t
  BY DEF AssignTable, Refused
<1> HIDE DEF new
<1>3. seat' \subseteq Row
  BY <1>1, <1>2
<1>4. \A x \in seat' : \/ x = new
                       \/ x \in seat /\ (x.table # t \/ x.hour # Hour[g])
  BY <1>2
<1>5. \A x \in seat' : x.hour = Hour[x.guest]
  BY <1>1, <1>4 DEF OneTable
<1>6. \A x \in seat' : x # new => x.guest # g
  BY <1>2, <1>4, <1>5
<1>7. \A x, y \in seat' : x.guest = y.guest => x = y
  BY <1>1, <1>4, <1>6 DEF OneTable
<1>8. \A x, y \in seat' : x.table = y.table /\ x.hour = y.hour => x = y
  BY <1>1, <1>4 DEF OneTable
<1> QED
  BY <1>3, <1>5, <1>7, <1>8 DEF OneTable

LEMMA SeatKeeps ==
  ASSUME seat \subseteq Row, OneTable, SeatStep
  PROVE  seat' \subseteq Row /\ OneTable'
<1>1. CASE UNCHANGED seat
  BY <1>1 DEF OneTable
<1>2. CASE \E t \in Tables, g \in Guests : AssignTable(t, g, Hour[g])
  BY <1>2, AssignKeeps
<1>3. CASE \E g \in Guests, h \in Hours : UnassignTable(g, h)
  <2>1. seat' \subseteq seat
    BY <1>3 DEF UnassignTable
  <2> QED
    BY <2>1 DEF OneTable
<1> QED
  BY <1>1, <1>2, <1>3 DEF SeatStep

LEMMA IInvInit == Init => IInv
<1> SUFFICES ASSUME Init PROVE IInv
  OBVIOUS
<1>1. seat \subseteq Row /\ OneTable /\ live \subseteq Guests
  BY DEF Init, OneTable
<1>2. view \in [Browsers -> [seat : SUBSET Row, live : SUBSET Guests]]
  BY DEF Init
<1>3. /\ auto \in [Browsers -> LoopState]
      /\ \A b \in Browsers : LoopOK(auto[b])
  BY NoLoopOK DEF Init, LoopOK
<1> QED
  BY <1>1, <1>2, <1>3, LoopsOK

LEMMA CachesTyped ==
  ASSUME TypeOK, [Next]_vars
  PROVE  /\ live' \subseteq Guests
         /\ view' \in [Browsers -> [seat : SUBSET Row, live : SUBSET Guests]]
<1>1. ASSUME NEW b \in Browsers,
             RefetchAssignments(b) \/ RefetchReservations(b) \/ Reload(b)
      PROVE  /\ live' = live
             /\ view' \in [Browsers -> [seat : SUBSET Row, live : SUBSET Guests]]
  BY <1>1 DEF TypeOK, RefetchAssignments, GetAssignments, RefetchReservations, Reload
<1>2. ASSUME NEW g \in Guests, Arrives(g) \/ Cancels(g)
      PROVE  live' \subseteq Guests /\ view' = view
  BY <1>2 DEF TypeOK, Arrives, Cancels
<1>3. \/ UNCHANGED <<live, view>>
      \/ \E b \in Browsers : RefetchAssignments(b) \/ RefetchReservations(b) \/ Reload(b)
      \/ \E g \in Guests : Arrives(g) \/ Cancels(g)
  <2>1. ASSUME NEW t \in Tables, NEW g \in Guests, RestAssigns(t, g)
        PROVE  UNCHANGED <<live, view>>
    BY <2>1 DEF RestAssigns
  <2>2. ASSUME NEW b \in Browsers, NEW t \in Tables, NEW g \in Guests,
               \/ AssignFromTable(b, t, g) \/ AssignFromReservation(b, t, g)
               \/ AutoSeats(b, t, g) \/ AutoFails(b, t, g)
        PROVE  UNCHANGED <<live, view>>
    BY <2>2 DEF AssignFromTable, AssignFromReservation, AutoSeats, AutoFails
  <2>3. ASSUME NEW b \in Browsers, AutoEnd(b)
        PROVE  UNCHANGED <<live, view>>
    BY <2>3 DEF AutoEnd
  <2>4. ASSUME NEW b \in Browsers, NEW x \in Row, Unassign(b, x)
        PROVE  UNCHANGED <<live, view>>
    BY <2>4 DEF Unassign
  <2>5. ASSUME NEW b \in Browsers, NEW h \in Hours, AutoStart(b, h)
        PROVE  UNCHANGED <<live, view>>
    BY <2>5 DEF AutoStart
  <2>6. ASSUME NEW b \in Browsers, NEW g \in Guests, AutoSkips(b, g)
        PROVE  UNCHANGED <<live, view>>
    BY <2>6 DEF AutoSkips
  <2>7. ASSUME NEW g \in Guests, RestUnassigns(g)
        PROVE  UNCHANGED <<live, view>>
    BY <2>7 DEF RestUnassigns
  <2> QED
    BY <2>1, <2>2, <2>3, <2>4, <2>5, <2>6, <2>7, NextCases DEF vars
<1> QED
  BY <1>1, <1>2, <1>3 DEF TypeOK

LEMMA IInvNext ==
  ASSUME IInv, [Next]_vars
  PROVE  IInv'
<1>1. seat' \subseteq Row /\ OneTable'
  BY SeatSteps, SeatKeeps, LoopsOK
<1>2. /\ live' \subseteq Guests
      /\ view' \in [Browsers -> [seat : SUBSET Row, live : SUBSET Guests]]
  BY CachesTyped DEF IInv
<1>3. /\ auto' \in [Browsers -> LoopState]
      /\ \A b \in Browsers : LoopOK(auto'[b])
  <2>1. /\ auto \in [Browsers -> LoopState]
        /\ \A b \in Browsers : LoopOK(auto[b])
    BY LoopsOK
  <2>2. CASE UNCHANGED auto
    BY <2>1, <2>2
  <2>3. CASE \E b \in Browsers, a \in LoopState : LoopOK(a) /\ auto' = [auto EXCEPT ![b] = a]
    <3>1. PICK b \in Browsers, a \in LoopState : LoopOK(a) /\ auto' = [auto EXCEPT ![b] = a]
      BY <2>3
    <3>2. \A c \in Browsers : auto'[c] = IF c = b THEN a ELSE auto[c]
      BY <2>1, <3>1
    <3>3. \A c \in Browsers : LoopOK(auto'[c])
      BY <2>1, <3>1, <3>2
    <3> QED
      BY <2>1, <3>1, <3>3
  <2> QED
    BY <2>2, <2>3, LoopSteps DEF LoopStep
<1> QED
  BY <1>1, <1>2, <1>3 DEF IInv, TypeOK, UsedCovers, LoopOK

(* The inductive invariant holds of every reachable state.                 *)
THEOREM Invariance == Spec => []IInv
BY IInvInit, IInvNext, PTL DEF Spec

(* A reservation never holds two tables, nor a table at an hour that is    *)
(* not its own, and no table serves two reservations of an hour.           *)
THEOREM TablesAreShared == Spec => []OneTable
<1>1. IInv => OneTable
  BY DEF IInv
<1> QED
  BY <1>1, Invariance, PTL

------------------------------------------------------------------------------
(* Taking a table away.                                                    *)

LEMMA Overwritten ==
  ASSUME NEW t \in Tables, NEW g \in Guests, AssignTable(t, g, Hour[g]),
         NEW x \in seat \ seat'
  PROVE  x.table = t /\ x.hour = Hour[g]
BY DEF AssignTable

LEMMA BestIsUnused ==
  ASSUME NEW b \in Browsers, NEW g \in Guests, NEW t \in Best(b, g)
  PROVE  t \notin auto[b].used
BY DEF Best, Fitting

(* No dashboard takes a table away from a reservation that it shows at the *)
(* table, and no auto-assign loop touches a table it was shown taken or    *)
(* has given away itself, however stale its copies are and whatever        *)
(* requests fail.                                                          *)
THEOREM TablesTakenUnseen == Spec => NeverTakesSeen
<1> DEFINE A(b, t, g, x) ==
             /\ AssignFromTable(b, t, g) \/ AssignFromReservation(b, t, g)
                => x \notin view[b].seat \/ x.guest \notin view[b].live
             /\ AutoSeats(b, t, g) \/ AutoFails(b, t, g)
                => x.table \notin TablesOf(auto[b].seen \cup auto[b].made)
           N == \A b \in Browsers, t \in Tables, g \in Guests : \A x \in seat \ seat' :
                  A(b, t, g, x)
<1>1. ASSUME IInv PROVE N
  <2> SUFFICES ASSUME NEW b \in Browsers, NEW t \in Tables, NEW g \in Guests,
                      NEW x \in seat \ seat'
               PROVE  A(b, t, g, x)
    OBVIOUS
  <2>1. ASSUME AssignFromTable(b, t, g)
        PROVE  x \notin view[b].seat \/ x.guest \notin view[b].live
    <3>1. x.table = t /\ x.hour = Hour[g]
      BY <2>1, Overwritten DEF AssignFromTable
    <3> QED
      BY <2>1, <3>1 DEF AssignFromTable, Occupied
  <2>2. ASSUME AssignFromReservation(b, t, g)
        PROVE  x \notin view[b].seat
    <3>1. x.table = t /\ x.hour = Hour[g]
      BY <2>2, Overwritten DEF AssignFromReservation
    <3> QED
      BY <2>2, <3>1 DEF AssignFromReservation
  <2>3. ASSUME AutoSeats(b, t, g) \/ AutoFails(b, t, g)
        PROVE  x.table \notin TablesOf(auto[b].seen \cup auto[b].made)
    <3>1. AssignTable(t, g, Hour[g])
      BY <2>3 DEF AutoSeats, AutoFails
    <3>2. t \notin auto[b].used
      BY <2>3, BestIsUnused DEF AutoSeats, AutoFails
    <3>3. x.table = t
      BY <3>1, Overwritten
    <3> QED
      BY <1>1, <3>2, <3>3 DEF IInv, UsedCovers
  <2> QED
    BY <2>1, <2>2, <2>3
<1>2. Spec => [][N]_vars
  BY <1>1, Invariance, PTL
<1> QED
  BY <1>2 DEF NeverTakesSeen

------------------------------------------------------------------------------
(* The seating plan.                                                       *)

(* The table of a guest in a set of rows.                                  *)
TableIn(S, g) ==
  IF \E x \in S : x.guest = g THEN (CHOOSE x \in S : x.guest = g).table ELSE None

LEMMA TableInRow ==
  ASSUME NEW S, \A x, y \in S : x.guest = y.guest => x = y, NEW x \in S
  PROVE  TableIn(S, x.guest) = x.table
BY DEF TableIn

LEMMA TableInNone ==
  ASSUME NEW S, NEW g, \A x \in S : x.guest # g
  PROVE  TableIn(S, g) = None
BY DEF TableIn

LEMMA PlaceIs ==
  /\ Place = [g \in Guests |-> TableIn(seat, g)]
  /\ Place' = [g \in Guests |-> TableIn(seat', g)]
BY DEF Place, TableIn

LEMMA AssignSits ==
  ASSUME seat \subseteq Row, OneTable, NEW t \in Tables, NEW g \in Guests,
         AssignTable(t, g, Hour[g])
  PROVE  Plan!Sit(g, t)
<1>1. OneTable'
  BY AssignKeeps
<1>2. PICK new \in seat' : new.table = t /\ new.guest = g /\ new.hour = Hour[g]
  <2>1. [table |-> t, guest |-> g, hour |-> Hour[g]] \in seat'
    BY DEF AssignTable
  <2> QED
    BY <2>1
<1>3. Place[g] \in {None, t}
  <2>1. CASE \E x \in seat : x.guest = g
    <3>1. PICK x \in seat : x.guest = g
      BY <2>1
    <3>2. x.table = t
      BY <3>1 DEF OneTable, AssignTable, Refused
    <3> QED
      BY <3>1, <3>2, TableInRow, PlaceIs DEF OneTable
  <2>2. CASE ~\E x \in seat : x.guest = g
    BY <2>2, TableInNone, PlaceIs
  <2> QED
    BY <2>1, <2>2
<1>4. TableIn(seat', g) = t
  BY <1>1, <1>2, TableInRow DEF OneTable
<1>5. ASSUME NEW y \in Guests, y # g
      PROVE  TableIn(seat', y) =
               IF Place[y] = t /\ Hour[y] = Hour[g] THEN None ELSE Place[y]
  <2>1. Place[y] = TableIn(seat, y)
    BY PlaceIs
  <2>2. \A x \in seat' : x.guest = y => x \in seat /\ (x.table # t \/ x.hour # Hour[g])
    BY <1>5 DEF AssignTable
  <2>3. CASE \E x \in seat : x.guest = y
    <3>1. PICK x \in seat : x.guest = y
      BY <2>3
    <3>2. Place[y] = x.table /\ x.hour = Hour[y]
      BY <2>1, <3>1, TableInRow DEF OneTable
    <3>3. CASE x.table = t /\ x.hour = Hour[g]
      <4>1. \A z \in seat' : z.guest # y
        BY <2>2, <3>1, <3>3 DEF OneTable
      <4> QED
        BY <3>2, <3>3, <4>1, TableInNone
    <3>4. CASE x.table # t \/ x.hour # Hour[g]
      <4>1. x \in seat'
        BY <3>4 DEF AssignTable
      <4>2. TableIn(seat', y) = x.table
        BY <1>1, <3>1, <4>1, TableInRow DEF OneTable
      <4> QED
        BY <3>2, <3>4, <4>2
    <3> QED
      BY <3>3, <3>4
  <2>4. CASE ~\E x \in seat : x.guest = y
    <3>1. TableIn(seat', y) = None /\ TableIn(seat, y) = None
      BY <2>2, <2>4, TableInNone
    <3> QED
      BY <2>1, <3>1
  <2> QED
    BY <2>3, <2>4
<1>6. Place' = [x \in Guests |->
                  IF x = g THEN t
                  ELSE IF Place[x] = t /\ Hour[x] = Hour[g] THEN None
                  ELSE Place[x]]
  BY <1>4, <1>5, PlaceIs
<1> QED
  BY <1>3, <1>6 DEF Plan!Sit

LEMMA UnassignLeaves ==
  ASSUME seat \subseteq Row, OneTable, NEW g \in Guests, NEW h \in Hours,
         UnassignTable(g, h)
  PROVE  Plan!Leave(g) \/ UNCHANGED Place
<1>1. CASE h = Hour[g]
  <2>1. /\ \A x \in seat' : x \in seat /\ x.guest # g
        /\ \A x \in seat : x.guest # g => x \in seat'
    BY <1>1 DEF OneTable, UnassignTable
  <2>2. TableIn(seat', g) = None
    BY <2>1, TableInNone
  <2>3. ASSUME NEW y \in Guests, y # g
        PROVE  TableIn(seat', y) = TableIn(seat, y)
    <3>1. CASE \E x \in seat : x.guest = y
      <4>1. PICK x \in seat : x.guest = y
        BY <3>1
      <4>2. x \in seat' /\ \A v, w \in seat' : v.guest = w.guest => v = w
        BY <2>1, <2>3, <4>1 DEF OneTable
      <4>3. TableIn(seat', y) = x.table /\ TableIn(seat, y) = x.table
        BY <4>1, <4>2, TableInRow DEF OneTable
      <4> QED
        BY <4>3
    <3>2. CASE ~\E x \in seat : x.guest = y
      BY <2>1, <3>2, TableInNone
    <3> QED
      BY <3>1, <3>2
  <2>4. Place' = [Place EXCEPT ![g] = None]
    BY <2>2, <2>3, PlaceIs
  <2> QED
    BY <2>4 DEF Plan!Leave
<1>2. CASE h # Hour[g]
  <2>1. seat' = seat
    BY <1>2 DEF OneTable, UnassignTable
  <2> QED
    BY <2>1, PlaceIs
<1> QED
  BY <1>1, <1>2

(* The service implements the seating plan: an assignment takes its table  *)
(* from the reservation that had it at that hour and from no other.        *)
THEOREM ServiceKeepsThePlan == Spec => SeatingSpec
<1>1. Init => Plan!Init
  <2> SUFFICES ASSUME Init PROVE Plan!Init
    OBVIOUS
  <2>1. \A g \in Guests : TableIn(seat, g) = None
    BY TableInNone DEF Init
  <2> QED
    BY <2>1, PlaceIs DEF Plan!Init
<1>2. ASSUME IInv, [Next]_vars
      PROVE  [Plan!Next]_Place
  <2>1. seat \subseteq Row /\ OneTable
    BY <1>2 DEF IInv, TypeOK
  <2>2. CASE UNCHANGED seat
    BY <2>2, PlaceIs
  <2>3. CASE \E t \in Tables, g \in Guests : AssignTable(t, g, Hour[g])
    BY <2>1, <2>3, AssignSits DEF Plan!Next
  <2>4. CASE \E g \in Guests, h \in Hours : UnassignTable(g, h)
    BY <2>1, <2>4, UnassignLeaves DEF Plan!Next
  <2> QED
    BY <1>2, <2>2, <2>3, <2>4, SeatSteps DEF SeatStep
<1>3. Spec => Plan!Spec
  BY <1>1, <1>2, Invariance, PTL DEF Spec, Plan!Spec
<1> QED
  BY <1>3 DEF SeatingSpec
=============================================================================
