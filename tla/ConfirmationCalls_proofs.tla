---------------------- MODULE ConfirmationCalls_proofs ----------------------
(***************************************************************************)
(* Proofs about ConfirmationCalls, for any set of reservations and of      *)
(* processes, any window and any bound.                                    *)
(***************************************************************************)
EXTENDS CallDeadline, FiniteSetTheorems, TLAPS

(* Every action of a process or of the environment, one disjunct each.     *)
LEMMA NextCases ==
  ASSUME [Next]_vars
  PROVE  \/ Tick
         \/ \E p \in Procs :
              \/ JobStart(p) \/ JobSkipped(p)
              \/ JobMark(p) \/ JobMarkRaises(p) \/ JobFail(p) \/ JobFailRaises(p)
              \/ VoiceOutboundNote(p) \/ VoiceOutboundNoteRaises(p)
              \/ Crash(p) \/ Restart(p)
              \/ \E r \in Res :
                   \/ JobDial(p, r) \/ JobDialRefused(p, r) \/ JobDialReplyLost(p, r)
                   \/ \E t \in Times : CreateReservation(p, r, t)
                   \/ \E s \in Status : PatchStatus(p, r, s)
                   \/ \E c \in ConfirmationStatus : UpdateConfirmation(p, r, c)
                   \/ CancelReservation(p, r)
                   \/ VoiceOutboundDial(p, r) \/ VoiceOutboundReplyLost(p, r)
         \/ UNCHANGED vars
BY DEF Next, JobStep, RestStep

LEMMA TypeInit == Init => TypeOK
BY ConstantsAssumption
DEF Init, TypeOK, Down, ProcState, Held

LEMMA ListingIsConfirmed ==
  ASSUME NEW L \in Listing
  PROVE  L \subseteq Confirmed
BY DEF Listing

(* What a write of confirmation_status does to the table, whether or not   *)
(* its commit went through.                                                *)
LEMMA WriteTyped ==
  ASSUME TypeOK, NEW r \in Res, Exists(r), NEW c \in ConfirmationStatus,
         UpdateConfirmationRaises(r, c)
  PROVE  /\ rows' \in [Res -> Row \cup {None}]
         /\ \A q \in Res : Exists(q) => rows'[q] # None /\ rows'[q].at = rows[q].at
                                       /\ rows'[q].status = rows[q].status
         /\ \A q \in Res : q # r => rows'[q] = rows[q]
         /\ rows'[r].cs = c \/ rows' = rows
<1>1. CASE UNCHANGED rows
  BY <1>1 DEF TypeOK, Exists
<1>2. CASE UpdateConfirmationStatus(r, c)
  <2>1. rows[r] \in Row /\ None \notin Row
    BY ConstantsAssumption DEF TypeOK, Exists
  <2>2. rows'[r] = [rows[r] EXCEPT !.cs = c, !.called = TRUE]
    BY <1>2, <2>1 DEF UpdateConfirmationStatus, TypeOK
  <2>3. rows'[r] \in Row /\ rows'[r].at = rows[r].at
        /\ rows'[r].status = rows[r].status /\ rows'[r].cs = c
    BY <2>1, <2>2 DEF Row
  <2>4. rows' \in [Res -> Row \cup {None}] /\ \A q \in Res : q # r => rows'[q] = rows[q]
    BY <1>2, <2>2, <2>3 DEF UpdateConfirmationStatus, TypeOK
  <2> QED
    BY <2>1, <2>3, <2>4 DEF Exists
<1> QED
  BY <1>1, <1>2 DEF UpdateConfirmationRaises

LEMMA WriteIsRaise ==
  ASSUME NEW r, NEW c, UpdateConfirmationStatus(r, c)
  PROVE  UpdateConfirmationRaises(r, c)
BY DEF UpdateConfirmationRaises

LEMMA StateTyped ==
  /\ Down \in ProcState /\ Down.cur = None /\ Down.todo = {} /\ Down.pc = "down"
  /\ Idle \in ProcState /\ Idle.cur = None /\ Idle.todo = {} /\ Idle.pc = "idle"
BY ConstantsAssumption DEF Down, Idle, ProcState

LEMMA OutboundTyped ==
  ASSUME NEW r \in Res
  PROVE  Outbound(r) \in ProcState /\ Outbound(r).cur = r /\ Outbound(r).todo = {}
         /\ Outbound(r).pc = "note"
BY DEF Outbound, ProcState

LEMMA JobTyped ==
  ASSUME NEW todo \in SUBSET Res, NEW r \in todo, NEW step \in {"mark", "fail"}
  PROVE  Job(step, r, todo) \in ProcState /\ Job(step, r, todo).cur = r
         /\ Job(step, r, todo).todo = todo /\ Job(step, r, todo).pc = step
BY DEF Job, ProcState

LEMMA LoopTyped ==
  ASSUME NEW todo \in SUBSET Res
  PROVE  Loop(todo) \in ProcState /\ Loop(todo).cur = None
         /\ Loop(todo).todo = todo /\ Loop(todo).pc \in {"row", "idle"}
BY ConstantsAssumption DEF Loop, Job, Idle, ProcState

LEMMA GotoTyped ==
  ASSUME TypeOK, NEW p \in Procs, NEW state \in ProcState, Goto(p, state)
  PROVE  /\ proc' \in [Procs -> ProcState]
         /\ proc'[p] = state
         /\ \A q \in Procs : q # p => proc'[q] = proc[q]
BY DEF TypeOK, Goto

LEMMA InterruptedTyped ==
  ASSUME TypeOK, NEW p \in Procs, Interrupted(p)
  PROVE  /\ lost' \in [Procs -> [Res -> Nat]]
         /\ \A q \in Procs, r \in Res :
              lost'[q][r] = IF q = p /\ proc[p].pc \in {"mark", "fail"} /\ proc[p].cur = r
                            THEN lost[q][r] + 1 ELSE lost[q][r]
<1>1. CASE proc[p].pc \in {"mark", "fail"}
  <2>1. proc[p].cur \in Res
    BY <1>1 DEF TypeOK, ProcState
  <2> QED
    BY <1>1, <2>1 DEF Interrupted, TypeOK
<1>2. CASE proc[p].pc \notin {"mark", "fail"}
  BY <1>2 DEF Interrupted, TypeOK
<1> QED
  BY <1>1, <1>2

LEMMA InterruptedUp ==
  ASSUME TypeOK, NEW p \in Procs, Interrupted(p)
  PROVE  \A q \in Procs, r \in Res :
           /\ lost'[q][r] >= lost[q][r]
           /\ q = p /\ proc[p].pc \in {"mark", "fail"} /\ proc[p].cur = r
              => lost'[q][r] > lost[q][r]
<1> SUFFICES ASSUME NEW q \in Procs, NEW r \in Res
             PROVE  /\ lost'[q][r] >= lost[q][r]
                    /\ q = p /\ proc[p].pc \in {"mark", "fail"} /\ proc[p].cur = r
                       => lost'[q][r] > lost[q][r]
  OBVIOUS
<1>1. lost[q][r] \in Nat
  BY DEF TypeOK
<1> QED
  BY <1>1, InterruptedTyped

(* The part of TypeOK that speaks of the processes, after a change of one  *)
(* process that loses no row.                                              *)
LEMMA ProcTyped ==
  ASSUME TypeOK, NEW p \in Procs, NEW state \in ProcState, Goto(p, state),
         \A q \in Res : Exists(q) => rows'[q] # None,
         \A q \in Res : q \in Held(state) => rows'[q] # None
  PROVE  /\ proc' \in [Procs -> ProcState]
         /\ \A q \in Procs, r \in Res : r \in Held(proc'[q]) => rows'[r] # None
<1>1. /\ proc' \in [Procs -> ProcState] /\ proc'[p] = state
      /\ \A q \in Procs : q # p => proc'[q] = proc[q]
  BY GotoTyped
<1>2. ASSUME NEW q \in Procs, NEW r \in Res, r \in Held(proc'[q]) PROVE rows'[r] # None
  <2>1. CASE q = p
    BY <1>1, <1>2, <2>1
  <2>2. CASE q # p
    BY <1>1, <1>2, <2>2 DEF TypeOK
  <2> QED
    BY <2>1, <2>2
<1> QED
  BY <1>1, <1>2

LEMMA TypeNext == TypeOK /\ [Next]_vars => TypeOK'
<1> SUFFICES ASSUME TypeOK, [Next]_vars PROVE TypeOK'
  OBVIOUS
<1> USE DEF history
<1> DEFINE Kept == \A q \in Res : Exists(q) => rows'[q] # None
           ProcsOK == /\ proc' \in [Procs -> ProcState]
                      /\ \A q \in Procs, r \in Res : r \in Held(proc'[q]) => rows'[r] # None
<1>0. ASSUME Kept, proc' = proc PROVE ProcsOK
  BY <1>0 DEF TypeOK
<1>1. CASE Tick
  BY <1>1 DEF TypeOK, Tick, Fault, Exists
<1>2. ASSUME NEW p \in Procs, JobStart(p) PROVE TypeOK'
  <2>1. PICK L \in Listing : Goto(p, Loop(WillCall(p, L)))
    BY <1>2 DEF JobStart
  <2>2. WillCall(p, L) \in SUBSET Res /\ \A r \in WillCall(p, L) : Exists(r)
    BY ListingIsConfirmed DEF WillCall, ToCall, Confirmed
  <2>3. rows' = rows /\ Kept
    BY <1>2 DEF JobStart, Exists
  <2>4. Loop(WillCall(p, L)) \in ProcState
        /\ \A q \in Res : q \in Held(Loop(WillCall(p, L))) => rows'[q] # None
    BY <2>2, <2>3, LoopTyped, ConstantsAssumption DEF Held, Exists
  <2>5. ProcsOK
    BY <2>1, <2>3, <2>4, ProcTyped
  <2> QED
    BY <1>2, <2>5 DEF TypeOK, JobStart, Exists
<1>3. ASSUME NEW p \in Procs, JobSkipped(p) PROVE TypeOK'
  BY <1>3 DEF TypeOK, JobSkipped, Fault, Exists
<1>4. ASSUME NEW p \in Procs, NEW r \in Res,
             JobDial(p, r) \/ JobDialRefused(p, r) \/ JobDialReplyLost(p, r)
      PROVE  TypeOK'
  <2>1. proc[p] \in ProcState
    BY DEF TypeOK
  <2>2. proc[p].todo \in SUBSET Res /\ r \in proc[p].todo
    BY <1>4, <2>1 DEF JobDial, JobDialRefused, JobDialReplyLost, NextInLoop, ProcState
  <2>3. PICK step \in {"mark", "fail"} : Goto(p, Job(step, r, proc[p].todo))
    BY <1>4 DEF JobDial, JobDialRefused, JobDialReplyLost
  <2>4. rows' = rows /\ Kept
    BY <1>4 DEF JobDial, JobDialRefused, JobDialReplyLost, Exists
  <2>5. Job(step, r, proc[p].todo) \in ProcState
        /\ \A q \in Res : q \in Held(Job(step, r, proc[p].todo)) => rows'[q] # None
    BY <2>2, <2>4, JobTyped DEF TypeOK, Held, Exists
  <2>6. ProcsOK
    BY <2>3, <2>4, <2>5, ProcTyped
  <2>7. CASE JobDial(p, r)
    BY <2>4, <2>6, <2>7 DEF TypeOK, JobDial, Exists
  <2>8. CASE JobDialRefused(p, r)
    BY <2>4, <2>6, <2>8 DEF TypeOK, JobDialRefused, Exists
  <2>9. CASE JobDialReplyLost(p, r)
    BY <2>4, <2>6, <2>9 DEF TypeOK, JobDialReplyLost, Fault, Exists
  <2> QED
    BY <1>4, <2>7, <2>8, <2>9
<1>5. ASSUME NEW p \in Procs,
             JobMark(p) \/ JobMarkRaises(p) \/ JobFail(p) \/ JobFailRaises(p)
      PROVE  TypeOK'
  <2> DEFINE r == proc[p].cur
             todo == proc[p].todo
  <2>1. proc[p] \in ProcState
    BY DEF TypeOK
  <2>2. r \in todo /\ todo \in SUBSET Res
    BY <1>5, <2>1 DEF JobMark, JobMarkRaises, JobFail, JobFailRaises, ProcState
  <2>3. \A q \in todo : Exists(q)
    BY <2>2 DEF TypeOK, Held
  <2>4. PICK c \in ConfirmationStatus : UpdateConfirmationRaises(r, c)
    BY <1>5, WriteIsRaise
    DEF JobMark, JobMarkRaises, JobFail, JobFailRaises, ConfirmationStatus
  <2>5. rows' \in [Res -> Row \cup {None}] /\ Kept
    BY <2>2, <2>3, <2>4, WriteTyped DEF Exists
  <2>6. PICK state \in {Loop(todo \ {r}), Job("fail", r, todo), Idle} : Goto(p, state)
    BY <1>5 DEF JobMark, JobMarkRaises, JobFail, JobFailRaises
  <2>7. state \in ProcState /\ Held(state) \cap Res \subseteq todo
    BY <2>2, <2>6, LoopTyped, JobTyped, StateTyped, ConstantsAssumption DEF Held
  <2>8. ProcsOK
    BY <2>3, <2>5, <2>6, <2>7, ProcTyped
  <2>9. lost' \in [Procs -> [Res -> Nat]]
    BY <1>5, InterruptedTyped DEF JobMark, JobMarkRaises, JobFail, JobFailRaises, TypeOK
  <2> QED
    BY <1>5, <2>5, <2>8, <2>9
    DEF TypeOK, JobMark, JobMarkRaises, JobFail, JobFailRaises, Fault, Exists
<1>6. ASSUME NEW p \in Procs, NEW r \in Res, NEW t \in Times, CreateReservation(p, r, t)
      PROVE  TypeOK'
  <2>1. NewRow(t) \in Row
    BY DEF NewRow, Row, Status, ConfirmationStatus
  <2>2. rows' \in [Res -> Row \cup {None}] /\ Kept
    BY <1>6, <2>1, ConstantsAssumption DEF TypeOK, CreateReservation, Exists
  <2> QED
    BY <1>6, <1>0, <2>2 DEF TypeOK, CreateReservation, Exists
<1>7. ASSUME NEW p \in Procs, NEW r \in Res, NEW s \in Status, Exists(r),
             UpdateReservationStatus(r, s),
             UNCHANGED <<proc, due, now, placed, history, faults>>
      PROVE  TypeOK'
  <2>1. rows[r] \in Row /\ [rows[r] EXCEPT !.status = s] \in Row
    BY <1>7 DEF TypeOK, Exists, Row
  <2>2. rows' \in [Res -> Row \cup {None}] /\ Kept
    BY <1>7, <2>1, ConstantsAssumption DEF TypeOK, UpdateReservationStatus, Exists
  <2> QED
    BY <1>7, <1>0, <2>2 DEF TypeOK, Exists
<1>8. ASSUME NEW p \in Procs, NEW r \in Res, NEW c \in ConfirmationStatus,
             UpdateConfirmation(p, r, c)
      PROVE  TypeOK'
  <2>1. rows' \in [Res -> Row \cup {None}] /\ Kept
    BY <1>8, WriteIsRaise, WriteTyped DEF UpdateConfirmation
  <2> QED
    BY <1>8, <1>0, <2>1 DEF TypeOK, UpdateConfirmation, Exists
<1>9. ASSUME NEW p \in Procs, NEW r \in Res, VoiceOutboundDial(p, r) PROVE TypeOK'
  <2>1. rows' = rows /\ Kept /\ Exists(r)
    BY <1>9 DEF VoiceOutboundDial, Exists
  <2>2. ProcsOK
    BY <1>9, <2>1, OutboundTyped, ProcTyped DEF VoiceOutboundDial, Held, Exists
  <2> QED
    BY <1>9, <2>2 DEF TypeOK, VoiceOutboundDial, Exists
<1>10. ASSUME NEW p \in Procs, NEW r \in Res, VoiceOutboundReplyLost(p, r) PROVE TypeOK'
  BY <1>10 DEF TypeOK, VoiceOutboundReplyLost, Fault, Exists
<1>11. ASSUME NEW p \in Procs, VoiceOutboundNote(p) \/ VoiceOutboundNoteRaises(p)
       PROVE  TypeOK'
  <2> DEFINE r == proc[p].cur
  <2>1. r \in Res
    BY <1>11 DEF TypeOK, ProcState, VoiceOutboundNote, VoiceOutboundNoteRaises
  <2>2. Exists(r)
    BY <2>1 DEF TypeOK, Held
  <2>3. UpdateConfirmationRaises(r, "confirmed") /\ "confirmed" \in ConfirmationStatus
    BY <1>11, WriteIsRaise
    DEF VoiceOutboundNote, VoiceOutboundNoteRaises, ConfirmationStatus
  <2>4. rows' \in [Res -> Row \cup {None}] /\ Kept
    BY <2>1, <2>2, <2>3, WriteTyped
  <2>5. Goto(p, Idle)
    BY <1>11 DEF VoiceOutboundNote, VoiceOutboundNoteRaises
  <2>6. ProcsOK
    BY <2>4, <2>5, StateTyped, ProcTyped, ConstantsAssumption DEF Held
  <2> QED
    BY <1>11, <2>4, <2>6
    DEF TypeOK, VoiceOutboundNote, VoiceOutboundNoteRaises, Fault, Exists
<1>12. ASSUME NEW p \in Procs, Crash(p) PROVE TypeOK'
  <2>1. rows' = rows /\ Kept /\ Goto(p, Down) /\ Interrupted(p)
    BY <1>12 DEF Crash, Exists
  <2>2. ProcsOK
    BY <2>1, StateTyped, ProcTyped, ConstantsAssumption DEF Held
  <2>3. lost' \in [Procs -> [Res -> Nat]]
    BY <2>1, InterruptedTyped
  <2>4. due' \in [Procs -> BOOLEAN] /\ faults' \in Nat
    BY <1>12 DEF TypeOK, Crash, Fault
  <2> QED
    BY <1>12, <2>1, <2>2, <2>3, <2>4 DEF TypeOK, Crash, Exists
<1>13. ASSUME NEW p \in Procs, Restart(p) PROVE TypeOK'
  <2>1. rows' = rows /\ Kept /\ Goto(p, Idle)
    BY <1>13 DEF Restart, Exists
  <2>2. ProcsOK
    BY <2>1, StateTyped, ProcTyped, ConstantsAssumption DEF Held
  <2> QED
    BY <1>13, <2>2 DEF TypeOK, Restart, Exists
<1>14. CASE UNCHANGED vars
  BY <1>14 DEF TypeOK, vars, Exists
<1>15. ASSUME NEW p \in Procs, NEW r \in Res, NEW s \in Status,
              PatchStatus(p, r, s) \/ CancelReservation(p, r)
       PROVE  TypeOK'
  BY <1>15, <1>7 DEF PatchStatus, CancelReservation, Status
<1> QED
  BY <1>1, <1>2, <1>3, <1>4, <1>5, <1>6, <1>8, <1>9, <1>10, <1>11, <1>12, <1>13, <1>14,
     <1>15, NextCases DEF Status

(* Every reachable state is well typed.                                    *)
THEOREM TypeCorrect == Spec => []TypeOK
BY TypeInit, TypeNext, PTL DEF Spec

------------------------------------------------------------------------------
(* Credit.  A step that places no job call keeps the ledger if it makes a  *)
(* call possible again only together with a new credit.                    *)

Possible(r) == ~Exists(r) \/ rows[r].cs = "pending"

LEMMA CreditKept ==
  ASSUME TypeOK, TypeOK', NoRedialWithoutCause, CreditInv, dials' = dials,
         \A x \in Procs, y \in Res :
           resets'[y] >= resets[y] /\ lost'[x][y] >= lost[x][y],
         \A x \in Procs, y \in Res :
           MayDial(x, y)' => \/ MayDial(x, y)
                             \/ resets'[y] > resets[y] \/ lost'[x][y] > lost[x][y]
  PROVE  NoRedialWithoutCause' /\ CreditInv'
<1> SUFFICES ASSUME NEW x \in Procs, NEW y \in Res
             PROVE  /\ dials'[x][y] <= 1 + resets'[y] + lost'[x][y]
                    /\ MayDial(x, y)' => dials'[x][y] <= resets'[y] + lost'[x][y]
  BY DEF NoRedialWithoutCause, CreditInv
<1>1. /\ dials[x][y] \in Nat /\ resets[y] \in Nat /\ lost[x][y] \in Nat
      /\ resets'[y] \in Nat /\ lost'[x][y] \in Nat
  BY DEF TypeOK
<1>2. /\ dials[x][y] <= 1 + resets[y] + lost[x][y]
      /\ MayDial(x, y) => dials[x][y] <= resets[y] + lost[x][y]
  BY DEF NoRedialWithoutCause, CreditInv
<1> QED
  BY <1>1, <1>2

(* The same, for a step whose only change to the table is a write of       *)
(* confirmation_status or status or a new row, and which at most moves the *)
(* process p on in its handler.                                            *)
LEMMA MayDialKept ==
  ASSUME TypeOK, NEW x \in Procs, NEW y \in Res,
         Possible(y)' => Possible(y),
         \/ proc'[x] = proc[x]
         \/ /\ proc'[x].todo \subseteq proc[x].todo
            /\ proc[x].pc \in {"mark", "fail"} /\ y = proc[x].cur =>
                 \/ proc'[x].pc \in {"mark", "fail"} /\ proc'[x].cur = y
                 \/ y \notin proc'[x].todo /\ ~Possible(y)',
         MayDial(x, y)'
  PROVE  MayDial(x, y)
BY DEF MayDial, Possible

(* Writing anything but "pending" makes no call possible.                  *)
LEMMA WriteImpossible ==
  ASSUME TypeOK, NEW r \in Res, Exists(r), NEW c \in ConfirmationStatus,
         UpdateConfirmationRaises(r, c)
  PROVE  /\ \A y \in Res : y # r => (Possible(y)' => Possible(y))
         /\ c # "pending" => (Possible(r)' => Possible(r))
         /\ c # "pending" /\ UpdateConfirmationStatus(r, c) => ~Possible(r)'
<1>1. /\ \A q \in Res : Exists(q) => rows'[q] # None
      /\ \A q \in Res : q # r => rows'[q] = rows[q]
      /\ rows'[r].cs = c \/ rows' = rows
  BY WriteTyped
<1>2. UpdateConfirmationStatus(r, c) => rows'[r].cs = c
  BY DEF UpdateConfirmationStatus, TypeOK, Row, Exists
<1> QED
  BY <1>1, <1>2 DEF Possible, Exists

LEMMA CreditNext ==
  ASSUME TypeOK, TypeOK', NoRedialWithoutCause, CreditInv, [Next]_vars
  PROVE  NoRedialWithoutCause' /\ CreditInv'
<1> USE DEF history
<1> DEFINE Sober == \A x \in Procs, y \in Res :
                      MayDial(x, y)' => \/ MayDial(x, y)
                                        \/ resets'[y] > resets[y] \/ lost'[x][y] > lost[x][y]
           Up == \A x \in Procs, y \in Res :
                   resets'[y] >= resets[y] /\ lost'[x][y] >= lost[x][y]
           Goal == NoRedialWithoutCause' /\ CreditInv'
<1>0. ASSUME dials' = dials, Up, Sober PROVE Goal
  BY <1>0, CreditKept
<1>a. ASSUME UNCHANGED history PROVE Up /\ dials' = dials
  BY <1>a DEF TypeOK
<1>b. ASSUME UNCHANGED history, proc' = proc, \A y \in Res : Possible(y)' => Possible(y)
      PROVE  Goal
  BY <1>0, <1>a, <1>b, MayDialKept
<1>1. CASE Tick
  BY <1>1, <1>b DEF Tick, Possible, Exists
<1>2. ASSUME NEW p \in Procs, JobStart(p) PROVE Goal
  <2>1. PICK L \in Listing : Goto(p, Loop(WillCall(p, L)))
    BY <1>2 DEF JobStart
  <2>2. WillCall(p, L) \in SUBSET Res /\ \A y \in WillCall(p, L) : rows[y].cs = "pending"
    BY ListingIsConfirmed DEF WillCall, ToCall, Confirmed
  <2>3. Loop(WillCall(p, L)) \in ProcState /\ Loop(WillCall(p, L)).todo = WillCall(p, L)
    BY <2>2, LoopTyped
  <2>4. proc'[p].todo = WillCall(p, L) /\ \A q \in Procs : q # p => proc'[q] = proc[q]
    BY <2>1, <2>3, GotoTyped
  <2>5. proc[p].pc = "idle" /\ rows' = rows /\ UNCHANGED history
    BY <1>2 DEF JobStart
  <2>6. Sober
    BY <2>2, <2>4, <2>5 DEF MayDial, Exists
  <2> QED
    BY <1>0, <1>a, <2>5, <2>6
<1>3. ASSUME NEW p \in Procs, JobSkipped(p) PROVE Goal
  BY <1>3, <1>b DEF JobSkipped, Possible, Exists
<1>4. ASSUME NEW p \in Procs, NEW r \in Res, JobDial(p, r) \/ JobDialReplyLost(p, r)
      PROVE  Goal
  <2>1. proc[p] \in ProcState
    BY DEF TypeOK
  <2>2. r \in proc[p].todo /\ proc[p].todo \in SUBSET Res /\ proc[p].pc = "row"
    BY <1>4, <2>1 DEF JobDial, JobDialReplyLost, NextInLoop, ProcState
  <2>3. MayDial(p, r)
    BY <2>2 DEF MayDial
  <2>4. PICK step \in {"mark", "fail"} : Goto(p, Job(step, r, proc[p].todo))
    BY <1>4 DEF JobDial, JobDialReplyLost
  <2>5. /\ proc'[p].cur = r /\ proc'[p].pc \in {"mark", "fail"}
        /\ proc'[p].todo = proc[p].todo
        /\ \A q \in Procs : q # p => proc'[q] = proc[q]
    BY <2>2, <2>4, JobTyped, GotoTyped
  <2>6. /\ rows' = rows /\ resets' = resets /\ lost' = lost
        /\ dials' = [dials EXCEPT ![p][r] = @ + 1]
    BY <1>4 DEF JobDial, JobDialReplyLost
  <2>7. SUFFICES ASSUME NEW x \in Procs, NEW y \in Res
                 PROVE  /\ dials'[x][y] <= 1 + resets'[y] + lost'[x][y]
                        /\ MayDial(x, y)' => dials'[x][y] <= resets'[y] + lost'[x][y]
    BY DEF NoRedialWithoutCause, CreditInv
  <2>8. CASE x = p /\ y = r
    <3>1. dials'[p][r] = dials[p][r] + 1 /\ dials[p][r] <= resets[r] + lost[p][r]
      BY <2>3, <2>6 DEF TypeOK, CreditInv
    <3>2. ~MayDial(p, r)'
      BY <2>5 DEF MayDial
    <3> QED
      BY <2>6, <2>8, <3>1, <3>2 DEF TypeOK
  <2>9. CASE ~(x = p /\ y = r)
    <3>1. dials'[x][y] = dials[x][y]
      BY <2>6, <2>9 DEF TypeOK
    <3>2. MayDial(x, y)' => MayDial(x, y)
      BY <2>2, <2>5, <2>6, <2>9 DEF MayDial, Exists
    <3> QED
      BY <2>6, <3>1, <3>2 DEF NoRedialWithoutCause, CreditInv
  <2> QED
    BY <2>8, <2>9
<1>5. ASSUME NEW p \in Procs, NEW r \in Res, JobDialRefused(p, r) PROVE Goal
  <2>1. proc[p] \in ProcState
    BY DEF TypeOK
  <2>2. r \in proc[p].todo /\ proc[p].todo \in SUBSET Res /\ proc[p].pc = "row"
    BY <1>5, <2>1 DEF JobDialRefused, NextInLoop, ProcState
  <2>3. /\ proc'[p].todo = proc[p].todo
        /\ \A q \in Procs : q # p => proc'[q] = proc[q]
    BY <1>5, <2>2, JobTyped, GotoTyped DEF JobDialRefused
  <2>4. rows' = rows /\ UNCHANGED history
    BY <1>5 DEF JobDialRefused
  <2>5. Sober
    BY <2>2, <2>3, <2>4 DEF MayDial, Exists
  <2> QED
    BY <1>0, <1>a, <2>4, <2>5
<1>c. ASSUME NEW p \in Procs, proc[p].pc \in {"mark", "fail"}
      PROVE  /\ proc[p].cur \in proc[p].todo /\ proc[p].todo \in SUBSET Res
             /\ Exists(proc[p].cur)
  <2>1. proc[p] \in ProcState
    BY DEF TypeOK
  <2> QED
    BY <1>c, <2>1 DEF ProcState, TypeOK, Held
<1>6. ASSUME NEW p \in Procs, JobMark(p) \/ JobFail(p) PROVE Goal
  <2> DEFINE todo == proc[p].todo
  <2>0. PICK r \in Res : r = proc[p].cur
    BY <1>6, <1>c DEF JobMark, JobFail
  <2>1. proc[p].pc \in {"mark", "fail"} /\ UNCHANGED history /\ Goto(p, Loop(todo \ {r}))
    BY <1>6, <2>0 DEF JobMark, JobFail
  <2>2. r \in todo /\ todo \in SUBSET Res /\ Exists(r)
    BY <2>0, <2>1, <1>c
  <2>3. PICK c \in ConfirmationStatus : UpdateConfirmationStatus(r, c) /\ c # "pending"
    BY <1>6, <2>0 DEF JobMark, JobFail, ConfirmationStatus
  <2>4. (\A y \in Res : Possible(y)' => Possible(y)) /\ ~Possible(r)'
    <3>1. UpdateConfirmationRaises(r, c)
      BY <2>3, WriteIsRaise
    <3> QED
      BY <2>2, <2>3, <3>1, WriteImpossible
  <2>5. /\ proc'[p].todo = todo \ {r}
        /\ \A q \in Procs : q # p => proc'[q] = proc[q]
    BY <2>1, <2>2, LoopTyped, GotoTyped
  <2>6. ASSUME NEW x \in Procs, NEW y \in Res, MayDial(x, y)' PROVE MayDial(x, y)
    <3>1. CASE x = p
      BY <2>0, <2>1, <2>2, <2>4, <2>5, <2>6, <3>1 DEF MayDial, Possible
    <3>2. CASE x # p
      BY <2>4, <2>5, <2>6, <3>2 DEF MayDial, Possible
    <3> QED
      BY <3>1, <3>2
  <2> QED
    BY <1>0, <1>a, <2>1, <2>6
<1>15. ASSUME NEW p \in Procs, JobMarkRaises(p) PROVE Goal
  <2> DEFINE r == proc[p].cur
             todo == proc[p].todo
  <2>1. /\ proc[p].pc = "mark" /\ UNCHANGED history /\ Goto(p, Job("fail", r, todo))
        /\ UpdateConfirmationRaises(r, "confirmed") /\ "confirmed" \in ConfirmationStatus
    BY <1>15 DEF JobMarkRaises, ConfirmationStatus
  <2>2. r \in todo /\ todo \in SUBSET Res /\ Exists(r)
    BY <2>1, <1>c
  <2>3. \A y \in Res : Possible(y)' => Possible(y)
    BY <2>1, <2>2, WriteImpossible
  <2>4. /\ proc'[p].todo = todo /\ proc'[p].pc = "fail" /\ proc'[p].cur = r
        /\ \A q \in Procs : q # p => proc'[q] = proc[q]
    BY <2>1, <2>2, JobTyped, GotoTyped
  <2>5. ASSUME NEW x \in Procs, NEW y \in Res, MayDial(x, y)' PROVE MayDial(x, y)
    BY <2>1, <2>2, <2>3, <2>4, <2>5 DEF MayDial, Possible
  <2> QED
    BY <1>0, <1>a, <2>1, <2>5
<1>16. ASSUME NEW p \in Procs, JobFailRaises(p) PROVE Goal
  <2> DEFINE r == proc[p].cur
  <2>1. /\ proc[p].pc = "fail" /\ Goto(p, Idle) /\ Interrupted(p)
        /\ dials' = dials /\ resets' = resets
        /\ UpdateConfirmationRaises(r, "failed") /\ "failed" \in ConfirmationStatus
    BY <1>16 DEF JobFailRaises, ConfirmationStatus
  <2>2. r \in Res /\ Exists(r)
    BY <2>1, <1>c
  <2>3. \A y \in Res : Possible(y)' => Possible(y)
    BY <2>1, <2>2, WriteImpossible
  <2>4. /\ proc'[p].todo = {}
        /\ \A q \in Procs : q # p => proc'[q] = proc[q]
    BY <2>1, StateTyped, GotoTyped
  <2>5. Up /\ lost'[p][r] > lost[p][r]
    BY <2>1, <2>2, InterruptedUp DEF TypeOK
  <2>6. ASSUME NEW x \in Procs, NEW y \in Res, MayDial(x, y)', ~(x = p /\ y = r)
        PROVE  MayDial(x, y)
    BY <2>1, <2>3, <2>4, <2>6 DEF MayDial, Possible
  <2> QED
    BY <1>0, <2>1, <2>5, <2>6
<1>7. ASSUME NEW p \in Procs, NEW r \in Res, NEW t \in Times, CreateReservation(p, r, t)
      PROVE  Goal
  <2>1. \A y \in Res : Possible(y)' => Possible(y)
    BY <1>7 DEF TypeOK, CreateReservation, Possible, Exists
  <2> QED
    BY <1>7, <2>1, <1>b DEF CreateReservation
<1>8. ASSUME NEW p \in Procs, NEW r \in Res, NEW s \in Status,
             PatchStatus(p, r, s) \/ CancelReservation(p, r)
      PROVE  Goal
  <2>1. /\ Exists(r) /\ proc' = proc /\ UNCHANGED history
        /\ \E w \in Status : UpdateReservationStatus(r, w)
    BY <1>8 DEF PatchStatus, CancelReservation, Status
  <2>2. /\ rows[r] \in Row /\ None \notin Row
        /\ \A w \in Status : /\ [rows[r] EXCEPT !.status = w].cs = rows[r].cs
                             /\ [rows[r] EXCEPT !.status = w] \in Row
    BY <2>1, ConstantsAssumption DEF TypeOK, Exists, Row
  <2>3. \A y \in Res : Possible(y)' => Possible(y)
    <3>1. PICK w \in Status : rows' = [rows EXCEPT ![r].status = w]
      BY <2>1 DEF UpdateReservationStatus
    <3>2. rows'[r] = [rows[r] EXCEPT !.status = w] /\ \A y \in Res : y # r => rows'[y] = rows[y]
      BY <3>1 DEF TypeOK
    <3> QED
      BY <2>1, <2>2, <3>2 DEF Possible, Exists
  <2> QED
    BY <2>1, <2>3, <1>b
<1>9. ASSUME NEW p \in Procs, NEW r \in Res, NEW c \in ConfirmationStatus,
             UpdateConfirmation(p, r, c)
      PROVE  Goal
  <2>1. /\ Exists(r) /\ proc' = proc /\ dials' = dials /\ lost' = lost
        /\ UpdateConfirmationRaises(r, c)
    BY <1>9, WriteIsRaise DEF UpdateConfirmation
  <2>2. CASE c = "pending"
    <3>1. \A y \in Res : y # r => (Possible(y)' => Possible(y))
      BY <2>1, WriteImpossible
    <3>2. resets' = [resets EXCEPT ![r] = @ + 1]
      BY <1>9, <2>2 DEF UpdateConfirmation
    <3>3. Up /\ resets'[r] > resets[r]
      BY <2>1, <3>2 DEF TypeOK
    <3>4. Sober
      BY <2>1, <3>1, <3>3, MayDialKept
    <3> QED
      BY <2>1, <3>3, <3>4, <1>0
  <2>3. CASE c # "pending"
    <3>1. \A y \in Res : Possible(y)' => Possible(y)
      BY <2>1, <2>3, WriteImpossible
    <3>2. resets' = resets
      BY <1>9, <2>3 DEF UpdateConfirmation
    <3> QED
      BY <2>1, <3>1, <3>2, <1>b
  <2> QED
    BY <2>2, <2>3
<1>10. ASSUME NEW p \in Procs, NEW r \in Res,
              VoiceOutboundDial(p, r) \/ VoiceOutboundReplyLost(p, r)
       PROVE  Goal
  <2>1. proc[p].pc = "idle" /\ rows' = rows /\ UNCHANGED history
    BY <1>10 DEF VoiceOutboundDial, VoiceOutboundReplyLost
  <2>2. /\ \A q \in Procs : q # p => proc'[q] = proc[q]
        /\ proc'[p] = proc[p] \/ proc'[p].todo = {}
    BY <1>10, OutboundTyped, GotoTyped DEF VoiceOutboundDial, VoiceOutboundReplyLost
  <2>3. Sober
    BY <2>1, <2>2 DEF MayDial, Exists
  <2> QED
    BY <1>0, <1>a, <2>1, <2>3
<1>11. ASSUME NEW p \in Procs, VoiceOutboundNote(p) \/ VoiceOutboundNoteRaises(p)
       PROVE  Goal
  <2> DEFINE r == proc[p].cur
  <2>1. r \in Res /\ proc[p].pc = "note"
    BY <1>11 DEF TypeOK, ProcState, VoiceOutboundNote, VoiceOutboundNoteRaises
  <2>2. Exists(r)
    BY <2>1 DEF TypeOK, Held
  <2>3. UpdateConfirmationRaises(r, "confirmed") /\ "confirmed" \in ConfirmationStatus
    BY <1>11, WriteIsRaise
    DEF VoiceOutboundNote, VoiceOutboundNoteRaises, ConfirmationStatus
  <2>4. \A y \in Res : Possible(y)' => Possible(y)
    BY <2>1, <2>2, <2>3, WriteImpossible
  <2>5. Goto(p, Idle) /\ UNCHANGED history
    BY <1>11 DEF VoiceOutboundNote, VoiceOutboundNoteRaises
  <2>6. proc'[p].todo = {} /\ \A q \in Procs : q # p => proc'[q] = proc[q]
    BY <2>5, StateTyped, GotoTyped
  <2>7. Sober
    BY <2>1, <2>4, <2>6 DEF MayDial, Possible
  <2> QED
    BY <1>0, <1>a, <2>5, <2>7
<1>12. ASSUME NEW p \in Procs, Crash(p) PROVE Goal
  <2>1. rows' = rows /\ dials' = dials /\ resets' = resets /\ Goto(p, Down) /\ Interrupted(p)
    BY <1>12 DEF Crash
  <2>2. proc'[p].todo = {} /\ \A q \in Procs : q # p => proc'[q] = proc[q]
    BY <2>1, StateTyped, GotoTyped
  <2>3. Up
    BY <2>1, InterruptedUp DEF TypeOK
  <2>4. ASSUME NEW y \in Res, proc[p].pc \in {"mark", "fail"}, proc[p].cur = y
        PROVE  lost'[p][y] > lost[p][y]
    BY <2>1, <2>4, InterruptedUp
  <2>5. Sober
    BY <2>1, <2>2, <2>4 DEF MayDial, Exists
  <2> QED
    BY <1>0, <2>1, <2>3, <2>5
<1>13. ASSUME NEW p \in Procs, Restart(p) PROVE Goal
  <2>1. proc[p].pc = "down" /\ rows' = rows /\ Goto(p, Idle) /\ UNCHANGED history
    BY <1>13 DEF Restart
  <2>2. proc'[p].todo = {} /\ \A q \in Procs : q # p => proc'[q] = proc[q]
    BY <2>1, StateTyped, GotoTyped
  <2>3. Sober
    BY <2>1, <2>2 DEF MayDial, Exists
  <2> QED
    BY <1>0, <1>a, <2>1, <2>3
<1>14. CASE UNCHANGED vars
  BY <1>14, <1>b DEF vars, Possible, Exists
<1> QED
  BY <1>1, <1>2, <1>3, <1>4, <1>5, <1>6, <1>7, <1>8, <1>9, <1>10, <1>11, <1>12, <1>13,
     <1>14, <1>15, <1>16, NextCases DEF Status

------------------------------------------------------------------------------
(* Only the clock's own step moves it.                                     *)
LEMMA NextKeepsTime == ASSUME [Next]_vars, ~Tick PROVE now' = now
<1> USE DEF history
<1>1. CASE UNCHANGED vars
  BY <1>1 DEF vars
<1>2. ASSUME NEW p \in Procs,
             \/ JobStart(p) \/ JobSkipped(p)
             \/ JobMark(p) \/ JobMarkRaises(p) \/ JobFail(p) \/ JobFailRaises(p)
             \/ VoiceOutboundNote(p) \/ VoiceOutboundNoteRaises(p)
      PROVE  now' = now
  BY <1>2 DEF JobStart, JobSkipped, JobMark, JobMarkRaises, JobFail, JobFailRaises,
              VoiceOutboundNote, VoiceOutboundNoteRaises
<1>3. ASSUME NEW p \in Procs, Crash(p) \/ Restart(p)
      PROVE  now' = now
  BY <1>3 DEF Crash, Restart
<1>4. ASSUME NEW p \in Procs, NEW r \in Res,
             \/ JobDial(p, r) \/ JobDialRefused(p, r) \/ JobDialReplyLost(p, r)
             \/ \E t \in Times : CreateReservation(p, r, t)
             \/ \E s \in Status : PatchStatus(p, r, s)
             \/ \E c \in ConfirmationStatus : UpdateConfirmation(p, r, c)
             \/ CancelReservation(p, r)
             \/ VoiceOutboundDial(p, r) \/ VoiceOutboundReplyLost(p, r)
      PROVE  now' = now
  BY <1>4 DEF JobDial, JobDialRefused, JobDialReplyLost, CreateReservation, PatchStatus,
              UpdateConfirmation, CancelReservation, VoiceOutboundDial,
              VoiceOutboundReplyLost
<1> QED
  BY <1>1, <1>2, <1>3, <1>4, NextCases

(* What no step does: take a row away, move its reservation in time, turn  *)
(* the clock back, or put a row ahead of a loop that was not listed inside *)
(* the window.                                                             *)
LEMMA RowsStay ==
  ASSUME TypeOK, [Next]_vars
  PROVE  /\ now' \in Nat /\ now' >= now
         /\ \A q \in Res : Exists(q) => rows'[q] # None /\ rows'[q].at = rows[q].at
<1> DEFINE Goal == \A q \in Res : Exists(q) => rows'[q] # None /\ rows'[q].at = rows[q].at
<1> USE DEF history
<1>0. now \in Nat
  BY DEF TypeOK
<1>1. now' = now \/ now' = now + 1
  BY NextKeepsTime DEF Tick
<1>a. ASSUME rows' = rows PROVE Goal
  BY <1>a DEF Exists
<1>b. ASSUME NEW r \in Res, Exists(r), NEW c \in ConfirmationStatus,
             UpdateConfirmationRaises(r, c)
      PROVE  Goal
  BY <1>b, WriteTyped
<1>2. ASSUME NEW p \in Procs,
             \/ JobMark(p) \/ JobMarkRaises(p) \/ JobFail(p) \/ JobFailRaises(p)
             \/ VoiceOutboundNote(p) \/ VoiceOutboundNoteRaises(p)
      PROVE  Goal
  <2>1. proc[p] \in ProcState /\ proc[p].pc \in {"mark", "fail", "note"}
    BY <1>2 DEF TypeOK, JobMark, JobMarkRaises, JobFail, JobFailRaises, VoiceOutboundNote,
                VoiceOutboundNoteRaises
  <2>2. proc[p].cur \in Res /\ Exists(proc[p].cur)
    BY <2>1 DEF TypeOK, ProcState, Held
  <2>3. PICK c \in ConfirmationStatus : UpdateConfirmationRaises(proc[p].cur, c)
    BY <1>2, WriteIsRaise
    DEF JobMark, JobMarkRaises, JobFail, JobFailRaises, VoiceOutboundNote,
        VoiceOutboundNoteRaises, ConfirmationStatus
  <2> QED
    BY <2>2, <2>3, <1>b
<1>3. ASSUME NEW p \in Procs, NEW r \in Res, NEW t \in Times, CreateReservation(p, r, t)
      PROVE  Goal
  BY <1>3 DEF TypeOK, CreateReservation, Exists
<1>4. ASSUME NEW p \in Procs, NEW r \in Res, NEW c \in ConfirmationStatus,
             UpdateConfirmation(p, r, c)
      PROVE  Goal
  BY <1>4, <1>b, WriteIsRaise DEF UpdateConfirmation
<1>5. ASSUME NEW p \in Procs, NEW r \in Res, NEW s \in Status,
             PatchStatus(p, r, s) \/ CancelReservation(p, r)
      PROVE  Goal
  <2>1. PICK w \in Status : Exists(r) /\ rows' = [rows EXCEPT ![r].status = w]
    BY <1>5 DEF PatchStatus, CancelReservation, UpdateReservationStatus, Status
  <2>2. /\ rows[r] \in Row /\ None \notin Row
        /\ [rows[r] EXCEPT !.status = w] \in Row /\ [rows[r] EXCEPT !.status = w].at = rows[r].at
    BY <2>1, ConstantsAssumption DEF TypeOK, Exists, Row
  <2>3. rows'[r] = [rows[r] EXCEPT !.status = w] /\ \A y \in Res : y # r => rows'[y] = rows[y]
    BY <2>1 DEF TypeOK
  <2> QED
    BY <2>2, <2>3 DEF Exists
<1>6. \/ rows' = rows
      \/ \E p \in Procs :
           \/ JobMark(p) \/ JobMarkRaises(p) \/ JobFail(p) \/ JobFailRaises(p)
           \/ VoiceOutboundNote(p) \/ VoiceOutboundNoteRaises(p)
           \/ \E r \in Res :
                \/ \E t \in Times : CreateReservation(p, r, t)
                \/ \E s \in Status : PatchStatus(p, r, s)
                \/ \E c \in ConfirmationStatus : UpdateConfirmation(p, r, c)
                \/ CancelReservation(p, r)
  BY NextCases
  DEF Tick, JobStart, JobSkipped, Crash, Restart, JobDial, JobDialRefused,
      JobDialReplyLost, VoiceOutboundDial, VoiceOutboundReplyLost, vars
<1> QED
  BY <1>0, <1>1, <1>a, <1>2, <1>3, <1>4, <1>5, <1>6 DEF Status

(* How a step changes what one process is doing.                           *)
LEMMA TodoMoves ==
  ASSUME TypeOK, [Next]_vars, NEW p \in Procs
  PROVE  \/ proc'[p].todo \subseteq proc[p].todo
         \/ /\ JobStart(p)
            /\ \A r \in proc'[p].todo : /\ r \in Res /\ Exists(r) /\ InWindow(r)
                                       /\ rows[r].status = "confirmed"
                                       /\ rows[r].cs = "pending"
<1> DEFINE Goal == \/ proc'[p].todo \subseteq proc[p].todo
                   \/ /\ JobStart(p)
                      /\ \A r \in proc'[p].todo : /\ r \in Res /\ Exists(r) /\ InWindow(r)
                                                 /\ rows[r].status = "confirmed"
                                                 /\ rows[r].cs = "pending"
<1> USE DEF history
<1>a. ASSUME NEW q \in Procs, NEW state \in ProcState, Goto(q, state),
             state.todo \subseteq proc[q].todo
      PROVE  Goal
  BY <1>a, GotoTyped
<1>b. ASSUME proc' = proc PROVE Goal
  BY <1>b
<1>1. ASSUME NEW q \in Procs, JobStart(q) PROVE Goal
  <2>1. PICK L \in Listing : Goto(q, Loop(WillCall(q, L)))
    BY <1>1 DEF JobStart
  <2>2. /\ WillCall(q, L) \in SUBSET Res
        /\ \A r \in WillCall(q, L) : /\ Exists(r) /\ InWindow(r) /\ rows[r].status = "confirmed"
                                /\ rows[r].cs = "pending"
    BY ListingIsConfirmed DEF WillCall, ToCall, Confirmed
  <2>3. Loop(WillCall(q, L)) \in ProcState /\ Loop(WillCall(q, L)).todo = WillCall(q, L)
    BY <2>2, LoopTyped
  <2>4. proc'[q].todo = WillCall(q, L) /\ (p # q => proc'[p] = proc[p])
    BY <2>1, <2>3, GotoTyped
  <2> QED
    BY <1>1, <2>2, <2>4
<1>2. ASSUME NEW q \in Procs, NEW r \in Res,
             JobDial(q, r) \/ JobDialRefused(q, r) \/ JobDialReplyLost(q, r)
      PROVE  Goal
  <2>1. proc[q] \in ProcState
    BY DEF TypeOK
  <2>2. proc[q].todo \in SUBSET Res /\ r \in proc[q].todo
    BY <1>2, <2>1 DEF JobDial, JobDialRefused, JobDialReplyLost, NextInLoop, ProcState
  <2>3. PICK step \in {"mark", "fail"} : Goto(q, Job(step, r, proc[q].todo))
    BY <1>2 DEF JobDial, JobDialRefused, JobDialReplyLost
  <2> QED
    BY <2>2, <2>3, JobTyped, <1>a
<1>3. ASSUME NEW q \in Procs,
             JobMark(q) \/ JobMarkRaises(q) \/ JobFail(q) \/ JobFailRaises(q)
      PROVE  Goal
  <2> DEFINE r == proc[q].cur
             todo == proc[q].todo
  <2>1. proc[q] \in ProcState
    BY DEF TypeOK
  <2>2. r \in todo /\ todo \in SUBSET Res
    BY <1>3, <2>1 DEF JobMark, JobMarkRaises, JobFail, JobFailRaises, ProcState
  <2>3. PICK state \in {Loop(todo \ {r}), Job("fail", r, todo), Idle} : Goto(q, state)
    BY <1>3 DEF JobMark, JobMarkRaises, JobFail, JobFailRaises
  <2>4. state \in ProcState /\ state.todo \subseteq todo
    BY <2>2, <2>3, LoopTyped, JobTyped, StateTyped
  <2> QED
    BY <2>3, <2>4, <1>a
<1>4. ASSUME NEW q \in Procs,
             \/ VoiceOutboundNote(q) \/ VoiceOutboundNoteRaises(q) \/ Crash(q) \/ Restart(q)
             \/ \E r \in Res : VoiceOutboundDial(q, r)
      PROVE  Goal
  <2>1. PICK state \in {Idle, Down} \cup {Outbound(r) : r \in Res} : Goto(q, state)
    BY <1>4 DEF VoiceOutboundNote, VoiceOutboundNoteRaises, Crash, Restart, VoiceOutboundDial
  <2>2. state \in ProcState /\ state.todo = {}
    BY <2>1, StateTyped, OutboundTyped
  <2> QED
    BY <2>1, <2>2, <1>a
<1>5. \/ proc' = proc
      \/ \E q \in Procs :
           \/ JobStart(q)
           \/ JobMark(q) \/ JobMarkRaises(q) \/ JobFail(q) \/ JobFailRaises(q)
           \/ VoiceOutboundNote(q) \/ VoiceOutboundNoteRaises(q) \/ Crash(q) \/ Restart(q)
           \/ \E r \in Res : \/ JobDial(q, r) \/ JobDialRefused(q, r)
                             \/ JobDialReplyLost(q, r) \/ VoiceOutboundDial(q, r)
  BY NextCases
  DEF Tick, JobSkipped, CreateReservation, PatchStatus, UpdateConfirmation,
      CancelReservation, VoiceOutboundReplyLost, vars
<1> QED
  BY <1>b, <1>1, <1>2, <1>3, <1>4, <1>5

LEMMA AheadNext ==
  ASSUME TypeOK, TypeOK', AheadInv, [Next]_vars
  PROVE  AheadInv'
<1> SUFFICES ASSUME NEW p \in Procs, NEW r \in proc'[p].todo
             PROVE  rows'[r].at <= now' + Lead + Slack
  BY DEF AheadInv
<1>1. CASE r \in proc[p].todo
  <2>1. r \in Res /\ Exists(r) /\ rows[r].at <= now + Lead + Slack
    BY <1>1 DEF AheadInv, TypeOK, ProcState, Held
  <2>2. rows[r].at \in Nat /\ now \in Nat
    BY <2>1, ConstantsAssumption DEF TypeOK, Row, Exists
  <2> QED
    BY <2>1, <2>2, RowsStay, ConstantsAssumption
<1>2. CASE r \notin proc[p].todo
  <2>1. JobStart(p) /\ r \in Res /\ InWindow(r)
    BY <1>2, TodoMoves
  <2> QED
    BY <2>1 DEF JobStart, InWindow
<1> QED
  BY <1>1, <1>2

LEMMA RungNext ==
  ASSUME TypeOK, RungInv, [Next]_vars
  PROVE  RungInv'
<1> USE DEF history
<1> DEFINE Rung(st) == st.pc \in {"mark", "note"} => placed'[st.cur]
<1>a. ASSUME NEW q \in Procs, NEW state \in ProcState, Goto(q, state), Rung(state),
             \A p \in Procs : Rung(proc[p])
      PROVE  RungInv'
  <2>1. proc'[q] = state /\ \A p \in Procs : p # q => proc'[p] = proc[p]
    BY <1>a, GotoTyped
  <2> QED
    BY <1>a, <2>1 DEF RungInv
<1>b. ASSUME NEW p \in Procs, proc[p].pc \in {"mark", "note"}
      PROVE  proc[p].cur \in Res /\ placed[proc[p].cur]
  BY <1>b DEF TypeOK, ProcState, RungInv
<1>c. ASSUME placed' = placed \/ \E r \in Res : placed' = [placed EXCEPT ![r] = TRUE]
      PROVE  \A p \in Procs : Rung(proc[p])
  BY <1>b, <1>c DEF TypeOK
<1>1. ASSUME NEW p \in Procs, JobStart(p) PROVE RungInv'
  <2>1. PICK L \in Listing : Goto(p, Loop(WillCall(p, L))) /\ placed' = placed
    BY <1>1 DEF JobStart
  <2>2. WillCall(p, L) \in SUBSET Res
    BY ListingIsConfirmed DEF WillCall, ToCall, Confirmed
  <2>3. Loop(WillCall(p, L)) \in ProcState /\ Rung(Loop(WillCall(p, L)))
    BY <2>2, LoopTyped
  <2> QED
    BY <2>1, <2>3, <1>a, <1>c
<1>2. ASSUME NEW p \in Procs, NEW r \in Res,
             JobDial(p, r) \/ JobDialRefused(p, r) \/ JobDialReplyLost(p, r)
      PROVE  RungInv'
  <2>1. proc[p] \in ProcState
    BY DEF TypeOK
  <2>2. proc[p].todo \in SUBSET Res /\ r \in proc[p].todo
    BY <1>2, <2>1 DEF JobDial, JobDialRefused, JobDialReplyLost, NextInLoop, ProcState
  <2>3. placed' = placed \/ placed' = [placed EXCEPT ![r] = TRUE]
    BY <1>2 DEF JobDial, JobDialRefused, JobDialReplyLost
  <2>4. PICK step \in {"mark", "fail"} :
          Goto(p, Job(step, r, proc[p].todo)) /\ (step = "mark" => placed'[r])
    <3>1. CASE JobDial(p, r)
      BY <3>1 DEF TypeOK, JobDial
    <3>2. CASE JobDialRefused(p, r) \/ JobDialReplyLost(p, r)
      BY <3>2 DEF JobDialRefused, JobDialReplyLost
    <3> QED
      BY <1>2, <3>1, <3>2
  <2>5. Job(step, r, proc[p].todo) \in ProcState /\ Rung(Job(step, r, proc[p].todo))
    BY <2>2, <2>4, JobTyped
  <2> QED
    BY <2>3, <2>4, <2>5, <1>a, <1>c
<1>3. ASSUME NEW p \in Procs,
             JobMark(p) \/ JobMarkRaises(p) \/ JobFail(p) \/ JobFailRaises(p)
      PROVE  RungInv'
  <2> DEFINE r == proc[p].cur
             todo == proc[p].todo
  <2>1. proc[p] \in ProcState
    BY DEF TypeOK
  <2>2. r \in todo /\ todo \in SUBSET Res
    BY <1>3, <2>1 DEF JobMark, JobMarkRaises, JobFail, JobFailRaises, ProcState
  <2>3. PICK state \in {Loop(todo \ {r}), Job("fail", r, todo), Idle} :
          Goto(p, state) /\ placed' = placed
    BY <1>3 DEF JobMark, JobMarkRaises, JobFail, JobFailRaises
  <2>4. state \in ProcState /\ Rung(state)
    BY <2>2, <2>3, LoopTyped, JobTyped, StateTyped
  <2> QED
    BY <2>3, <2>4, <1>a, <1>c
<1>4. ASSUME NEW p \in Procs,
             VoiceOutboundNote(p) \/ VoiceOutboundNoteRaises(p) \/ Crash(p) \/ Restart(p)
      PROVE  RungInv'
  <2>1. PICK state \in {Idle, Down} : Goto(p, state) /\ placed' = placed
    BY <1>4 DEF VoiceOutboundNote, VoiceOutboundNoteRaises, Crash, Restart
  <2>2. state \in ProcState /\ Rung(state)
    BY <2>1, StateTyped
  <2> QED
    BY <2>1, <2>2, <1>a, <1>c
<1>5. ASSUME NEW p \in Procs, NEW r \in Res, VoiceOutboundDial(p, r) PROVE RungInv'
  <2>1. Goto(p, Outbound(r)) /\ placed' = [placed EXCEPT ![r] = TRUE]
    BY <1>5 DEF VoiceOutboundDial
  <2>2. Outbound(r) \in ProcState /\ Rung(Outbound(r))
    BY <2>1, OutboundTyped DEF TypeOK
  <2> QED
    BY <2>1, <2>2, <1>a, <1>c
<1>6. ASSUME proc' = proc,
             placed' = placed \/ \E r \in Res : placed' = [placed EXCEPT ![r] = TRUE]
      PROVE  RungInv'
  BY <1>6, <1>c DEF RungInv
<1>7. \/ \E p \in Procs :
           \/ JobStart(p)
           \/ JobMark(p) \/ JobMarkRaises(p) \/ JobFail(p) \/ JobFailRaises(p)
           \/ VoiceOutboundNote(p) \/ VoiceOutboundNoteRaises(p) \/ Crash(p) \/ Restart(p)
           \/ \E r \in Res : \/ JobDial(p, r) \/ JobDialRefused(p, r)
                             \/ JobDialReplyLost(p, r) \/ VoiceOutboundDial(p, r)
      \/ /\ proc' = proc
         /\ placed' = placed \/ \E r \in Res : placed' = [placed EXCEPT ![r] = TRUE]
  BY NextCases
  DEF Tick, JobSkipped, CreateReservation, PatchStatus, UpdateConfirmation,
      CancelReservation, VoiceOutboundReplyLost, vars
<1> QED
  BY <1>1, <1>2, <1>3, <1>4, <1>5, <1>6, <1>7

LEMMA InvInit == Init => IInv
<1> SUFFICES ASSUME Init PROVE IInv
  OBVIOUS
<1>1. TypeOK
  BY TypeInit
<1>2. NoRedialWithoutCause /\ CreditInv
  BY DEF Init, NoRedialWithoutCause, CreditInv
<1>3. AheadInv /\ RungInv
  BY DEF Init, AheadInv, RungInv, Down
<1> QED
  BY <1>1, <1>2, <1>3 DEF IInv

LEMMA InvNext == IInv /\ [Next]_vars => IInv'
BY TypeNext, CreditNext, AheadNext, RungNext DEF IInv

(* In every reachable state all variables have their types, no process has *)
(* called a guest without cause, whoever may still dial has a cause left,  *)
(* what a cycle has ahead is near, and who records an answer has called.   *)
THEOREM Invariance == Spec => []IInv
BY InvInit, InvNext, PTL DEF Spec

(* The job of one process calls a guest again only with a cause.           *)
THEOREM CallsHaveCauses == Spec => []NoRedialWithoutCause
<1>1. IInv => NoRedialWithoutCause
  BY DEF IInv
<1> QED
  BY <1>1, Invariance, PTL

------------------------------------------------------------------------------
(* Action properties and the ledger.                                       *)

(* Only the two steps in which a job's call goes out change its count.     *)
LEMMA DialIsJob ==
  ASSUME [Next]_vars, NEW p \in Procs, NEW r \in Res, TypeOK, dials'[p][r] # dials[p][r]
  PROVE  JobDial(p, r) \/ JobDialReplyLost(p, r)
<1> USE DEF history
<1>1. PICK q \in Procs, y \in Res : JobDial(q, y) \/ JobDialReplyLost(q, y)
  BY NextCases
  DEF Tick, JobStart, JobSkipped, JobMark, JobMarkRaises, JobFail, JobFailRaises,
      VoiceOutboundNote, VoiceOutboundNoteRaises, Crash, Restart, JobDialRefused,
      CreateReservation, PatchStatus, UpdateConfirmation, CancelReservation,
      VoiceOutboundDial, VoiceOutboundReplyLost, vars
<1>2. dials' = [dials EXCEPT ![q][y] = @ + 1]
  BY <1>1 DEF JobDial, JobDialReplyLost
<1>3. q = p /\ y = r
  BY <1>2 DEF TypeOK
<1> QED
  BY <1>1, <1>3

(* No call of the job goes out before the window of its reservation opens. *)
THEOREM CallsAreNotEarly == Spec => NeverTooEarly
<1> DEFINE A == \A p \in Procs, r \in Res :
                  dials'[p][r] > dials[p][r] => rows[r].at <= now + Lead + Slack
<1>1. IInv /\ [Next]_vars => A
  <2> SUFFICES ASSUME IInv, [Next]_vars, NEW p \in Procs, NEW r \in Res,
                      dials'[p][r] > dials[p][r]
               PROVE  rows[r].at <= now + Lead + Slack
    OBVIOUS
  <2>1. dials[p][r] \in Nat
    BY DEF IInv, TypeOK
  <2>2. JobDial(p, r) \/ JobDialReplyLost(p, r)
    BY <2>1, DialIsJob DEF IInv
  <2>3. r \in proc[p].todo
    BY <2>2 DEF JobDial, JobDialReplyLost, NextInLoop
  <2> QED
    BY <2>3 DEF IInv, AheadInv
<1>2. Spec => [][A]_vars
  BY <1>1, Invariance, PTL DEF Spec
<1> QED
  BY <1>2 DEF NeverTooEarly

(* What the job and the outbound handler record as confirmed has rung.     *)
THEOREM ConfirmationsHaveRung == Spec => ConfirmedAfterRinging
<1> DEFINE A == \A r \in Res :
                  (Exists(r) /\ rows[r].cs # "confirmed" /\ rows'[r].cs = "confirmed"
                     /\ proc' # proc)
                  => placed[r]
<1>1. IInv /\ [Next]_vars => A
  <2> USE DEF history
  <2> SUFFICES ASSUME IInv, [Next]_vars, NEW r \in Res, rows'[r].cs # rows[r].cs,
                      rows'[r].cs = "confirmed", proc' # proc
               PROVE  placed[r]
    OBVIOUS
  <2>1. PICK p \in Procs :
          \/ JobMark(p) \/ JobMarkRaises(p) \/ JobFail(p) \/ JobFailRaises(p)
          \/ VoiceOutboundNote(p) \/ VoiceOutboundNoteRaises(p)
    BY NextCases
    DEF Tick, JobStart, JobSkipped, Crash, Restart, JobDial, JobDialRefused,
        JobDialReplyLost, CreateReservation, PatchStatus, UpdateConfirmation,
        CancelReservation, VoiceOutboundDial, VoiceOutboundReplyLost, vars
  <2> DEFINE y == proc[p].cur
  <2>2. proc[p].pc \in {"mark", "fail", "note"}
    BY <2>1
    DEF JobMark, JobMarkRaises, JobFail, JobFailRaises, VoiceOutboundNote,
        VoiceOutboundNoteRaises
  <2>3. y \in Res /\ Exists(y)
    BY <2>2 DEF IInv, TypeOK, ProcState, Held
  <2>4. PICK c \in ConfirmationStatus :
          UpdateConfirmationRaises(y, c)
          /\ (proc[p].pc \in {"mark", "note"} \/ c = "failed")
    BY <2>1, WriteIsRaise
    DEF JobMark, JobMarkRaises, JobFail, JobFailRaises, VoiceOutboundNote,
        VoiceOutboundNoteRaises, ConfirmationStatus
  <2>5. r = y /\ rows'[r].cs = c
    BY <2>3, <2>4, WriteTyped DEF IInv
  <2>6. proc[p].pc \in {"mark", "note"}
    BY <2>4, <2>5
  <2> QED
    BY <2>5, <2>6 DEF IInv, RungInv
<1>2. Spec => [][A]_vars
  BY <1>1, Invariance, PTL DEF Spec
<1> QED
  BY <1>2 DEF ConfirmedAfterRinging

(* Every step of the component is a step of the ledger or leaves the       *)
(* ledger alone.                                                           *)
LEMMA LedgerStep == IInv /\ [Next]_vars => [Ledger!Next]_(Ledger!ledgerVars)
<1> SUFFICES ASSUME IInv, [Next]_vars
             PROVE  Ledger!Next \/ UNCHANGED history
  BY DEF Ledger!ledgerVars, history
<1> USE DEF history
<1>1. ASSUME NEW p \in Procs, NEW r \in Res, JobDial(p, r) \/ JobDialReplyLost(p, r)
      PROVE  Ledger!Next
  <2>1. proc[p].pc = "row" /\ r \in proc[p].todo
    BY <1>1 DEF JobDial, JobDialReplyLost, NextInLoop
  <2>2. dials[p][r] <= resets[r] + lost[p][r]
    BY <2>1 DEF IInv, CreditInv, MayDial
  <2>3. dials[p][r] \in Nat /\ resets[r] \in Nat /\ lost[p][r] \in Nat
    BY DEF IInv, TypeOK
  <2>4. Ledger!Credit(p, r) > 0
    BY <2>2, <2>3 DEF Ledger!Credit
  <2>5. Ledger!Dial(p, r)
    BY <1>1, <2>4 DEF JobDial, JobDialReplyLost, Ledger!Dial
  <2> QED
    BY <2>5 DEF Ledger!Next
<1>2. ASSUME NEW p \in Procs, Interrupted(p), UNCHANGED <<dials, resets>>
      PROVE  Ledger!Next \/ UNCHANGED history
  <2>1. CASE proc[p].pc \in {"mark", "fail"}
    <3>1. PICK r \in Res : r = proc[p].cur
      BY <2>1 DEF IInv, TypeOK, ProcState
    <3>2. Ledger!Interrupt(p, r)
      BY <1>2, <2>1, <3>1 DEF Interrupted, Ledger!Interrupt
    <3> QED
      BY <3>2 DEF Ledger!Next
  <2>2. CASE proc[p].pc \notin {"mark", "fail"}
    BY <1>2, <2>2 DEF Interrupted
  <2> QED
    BY <2>1, <2>2
<1>3. ASSUME NEW p \in Procs, NEW r \in Res, NEW c \in ConfirmationStatus,
             UpdateConfirmation(p, r, c)
      PROVE  Ledger!Next \/ UNCHANGED history
  <2>1. CASE c = "pending"
    <3>1. Ledger!Reset(r)
      BY <1>3, <2>1 DEF UpdateConfirmation, Ledger!Reset
    <3> QED
      BY <3>1 DEF Ledger!Next
  <2>2. CASE c # "pending"
    BY <1>3, <2>2 DEF UpdateConfirmation
  <2> QED
    BY <2>1, <2>2
<1>4. \/ UNCHANGED history
      \/ \E p \in Procs :
           \/ Interrupted(p) /\ UNCHANGED <<dials, resets>>
           \/ \E r \in Res :
                \/ JobDial(p, r) \/ JobDialReplyLost(p, r)
                \/ \E c \in ConfirmationStatus : UpdateConfirmation(p, r, c)
  <2>1. CASE Tick
    BY <2>1 DEF Tick
  <2>2. CASE UNCHANGED vars
    BY <2>2 DEF vars
  <2>3. ASSUME NEW p \in Procs,
               \/ JobStart(p) \/ JobSkipped(p)
               \/ JobMark(p) \/ JobMarkRaises(p) \/ JobFail(p)
               \/ VoiceOutboundNote(p) \/ VoiceOutboundNoteRaises(p)
        PROVE  UNCHANGED history
    BY <2>3 DEF JobStart, JobSkipped, JobMark, JobMarkRaises, JobFail,
                VoiceOutboundNote, VoiceOutboundNoteRaises
  <2>4. ASSUME NEW p \in Procs, Restart(p)
        PROVE  UNCHANGED history
    BY <2>4 DEF Restart
  <2>5. ASSUME NEW p \in Procs, NEW r \in Res,
               \/ JobDialRefused(p, r) \/ CancelReservation(p, r)
               \/ \E t \in Times : CreateReservation(p, r, t)
               \/ \E s \in Status : PatchStatus(p, r, s)
               \/ VoiceOutboundDial(p, r) \/ VoiceOutboundReplyLost(p, r)
        PROVE  UNCHANGED history
    BY <2>5 DEF JobDialRefused, CreateReservation, PatchStatus, CancelReservation,
                VoiceOutboundDial, VoiceOutboundReplyLost
  <2>6. ASSUME NEW p \in Procs, Crash(p) \/ JobFailRaises(p)
        PROVE  Interrupted(p) /\ UNCHANGED <<dials, resets>>
    BY <2>6 DEF Crash, JobFailRaises
  <2> QED
    BY <2>1, <2>2, <2>3, <2>4, <2>5, <2>6, NextCases
<1> QED
  BY <1>1, <1>2, <1>3, <1>4

(* The component implements the ledger of calls.                           *)
THEOREM CallsKeepTheLedger == Spec => LedgerSpec
<1>1. Init => Ledger!Init
  BY DEF Init, Ledger!Init
<1>2. Spec => Ledger!Spec
  BY <1>1, LedgerStep, Invariance, PTL DEF Spec, Ledger!Spec
<1> QED
  BY <1>2 DEF LedgerSpec

------------------------------------------------------------------------------
(* One process.                                                            *)

Alone == \A p, q \in Procs : p = q

(* While the only process is in its loop, nobody touches a row it has yet  *)
(* to dial.                                                                *)
LEMMA AheadUntouched ==
  ASSUME Alone, TypeOK, [Next]_vars, NEW p \in Procs, NEW r \in proc[p].todo,
         r # proc[p].cur
  PROVE  rows'[r] = rows[r]
<1> USE DEF history
<1>1. proc[p] \in ProcState /\ r \in Res
  BY DEF TypeOK, ProcState
<1>2. proc[p].pc \in {"row", "mark", "fail"}
  BY <1>1 DEF ProcState
<1>3. ASSUME JobMark(p) \/ JobMarkRaises(p) \/ JobFail(p) \/ JobFailRaises(p)
      PROVE  rows'[r] = rows[r]
  <2>1. PICK y \in Res : y = proc[p].cur /\ Exists(y)
    BY <1>1, <1>3 DEF JobMark, JobMarkRaises, JobFail, JobFailRaises, ProcState, TypeOK, Held
  <2>2. PICK c \in ConfirmationStatus : UpdateConfirmationRaises(y, c)
    BY <1>3, <2>1, WriteIsRaise
    DEF JobMark, JobMarkRaises, JobFail, JobFailRaises, ConfirmationStatus
  <2> QED
    BY <1>1, <2>1, <2>2, WriteTyped
<1>4. \/ rows' = rows
      \/ \E q \in Procs :
           \/ JobMark(q) \/ JobMarkRaises(q) \/ JobFail(q) \/ JobFailRaises(q)
           \/ proc[q].pc \in {"idle", "note"}
  BY NextCases
  DEF Tick, JobStart, JobSkipped, Crash, Restart, JobDial, JobDialRefused,
      JobDialReplyLost, VoiceOutboundDial, VoiceOutboundReplyLost, VoiceOutboundNote,
      VoiceOutboundNoteRaises, CreateReservation, PatchStatus, UpdateConfirmation,
      CancelReservation, vars
<1> QED
  BY <1>2, <1>3, <1>4 DEF Alone

(* A row the loop is done with is no longer ahead of it.                   *)
LEMMA CurLeaves ==
  ASSUME Alone, TypeOK, [Next]_vars, NEW p \in Procs, NEW r \in proc[p].todo,
         r = proc[p].cur, r \in proc'[p].todo
  PROVE  r = proc'[p].cur
<1> USE DEF history
<1>1. proc[p] \in ProcState /\ r \in Res
  BY DEF TypeOK, ProcState
<1>2. proc[p].pc \in {"mark", "fail"} /\ proc[p].todo \in SUBSET Res
  BY <1>1, ConstantsAssumption DEF ProcState
<1>3. ASSUME NEW state \in ProcState, Goto(p, state),
             state \in {Loop(proc[p].todo \ {r}), Job("fail", r, proc[p].todo), Idle, Down}
      PROVE  r = proc'[p].cur
  BY <1>2, <1>3, GotoTyped, LoopTyped, JobTyped, StateTyped
<1>4. \/ proc' = proc
      \/ \E q \in Procs :
           \/ \E state \in {Loop(proc[q].todo \ {proc[q].cur}),
                            Job("fail", proc[q].cur, proc[q].todo), Idle, Down} :
                Goto(q, state)
           \/ proc[q].pc \in {"idle", "row"}
  BY NextCases
  DEF Tick, JobStart, JobSkipped, Crash, Restart, JobDial, JobDialRefused, NextInLoop,
      JobDialReplyLost, VoiceOutboundDial, VoiceOutboundReplyLost, VoiceOutboundNote,
      VoiceOutboundNoteRaises, CreateReservation, PatchStatus, UpdateConfirmation,
      CancelReservation, JobMark, JobMarkRaises, JobFail, JobFailRaises, vars
<1>5. CASE proc' = proc
  BY <1>5
<1>6. CASE \E state \in {Loop(proc[p].todo \ {r}), Job("fail", r, proc[p].todo), Idle, Down} :
             Goto(p, state)
  <2>1. PICK state \in {Loop(proc[p].todo \ {r}), Job("fail", r, proc[p].todo), Idle, Down} :
          Goto(p, state)
    BY <1>6
  <2>2. state \in ProcState
    BY <1>2, <2>1, LoopTyped, JobTyped, StateTyped
  <2> QED
    BY <2>1, <2>2, <1>3
<1> QED
  BY <1>2, <1>4, <1>5, <1>6 DEF Alone

LEMMA OpenNext ==
  ASSUME Alone, IInv, OpenInv, [Next]_vars
  PROVE  OpenInv'
<1> SUFFICES ASSUME NEW p \in Procs, NEW r \in proc'[p].todo, r # proc'[p].cur
             PROVE  rows'[r].status = "confirmed" /\ rows'[r].cs = "pending"
  BY DEF OpenInv
<1>0. TypeOK
  BY DEF IInv
<1>1. CASE r \in proc[p].todo
  <2>1. r # proc[p].cur
    BY <1>0, <1>1, CurLeaves
  <2> QED
    BY <1>0, <1>1, <2>1, AheadUntouched DEF OpenInv
<1>2. CASE r \notin proc[p].todo
  <2>1. JobStart(p) /\ rows[r].status = "confirmed" /\ rows[r].cs = "pending"
    BY <1>0, <1>2, TodoMoves
  <2> QED
    BY <2>1 DEF JobStart
<1> QED
  BY <1>1, <1>2

(* A single process calls nobody whose reservation is no longer open.      *)
THEOREM AloneCallsOnlyOpen ==
  ASSUME Alone
  PROVE  Spec => JobCallsOnlyOpen
<1> DEFINE A == \A p \in Procs, r \in Res :
                  dials'[p][r] > dials[p][r]
                  => rows[r].status = "confirmed" /\ rows[r].cs = "pending"
<1>1. Init => OpenInv
  BY DEF Init, OpenInv, Down
<1>2. IInv /\ OpenInv /\ [Next]_vars => OpenInv'
  BY OpenNext
<1>3. IInv /\ OpenInv /\ [Next]_vars => A
  <2> SUFFICES ASSUME IInv, OpenInv, [Next]_vars, NEW p \in Procs, NEW r \in Res,
                      dials'[p][r] > dials[p][r]
               PROVE  rows[r].status = "confirmed" /\ rows[r].cs = "pending"
    OBVIOUS
  <2>1. dials[p][r] \in Nat
    BY DEF IInv, TypeOK
  <2>2. JobDial(p, r) \/ JobDialReplyLost(p, r)
    BY <2>1, DialIsJob DEF IInv
  <2>3. r \in proc[p].todo /\ proc[p].pc = "row"
    BY <2>2 DEF JobDial, JobDialReplyLost, NextInLoop
  <2>4. r # proc[p].cur
    BY <2>3 DEF IInv, TypeOK, ProcState
  <2> QED
    BY <2>3, <2>4 DEF OpenInv
<1>4. Spec => [][A]_vars
  BY <1>1, <1>2, <1>3, Invariance, PTL DEF Spec
<1> QED
  BY <1>4 DEF JobCallsOnlyOpen
------------------------------------------------------------------------------
(* The same minute.                                                        *)

(* Every listing shows a row with fewer than Limit others as early.        *)
LEMMA ListedIsShown ==
  ASSUME IsFiniteSet(Res), TypeOK, NEW L \in Listing, NEW r \in Confirmed, Listed(r)
  PROVE  r \in L
<1> DEFINE early == {q \in Confirmed \ {r} : rows[q].at <= rows[r].at}
<1>1. SUFFICES ASSUME r \notin L PROVE FALSE
  OBVIOUS
<1>2. Cardinality(L) = Limit
  BY <1>1 DEF Listing
<1>3. L \subseteq early
  <2>1. ASSUME NEW q \in L PROVE q \in early
    <3>1. q \in Confirmed \ {r} /\ q \in Res /\ r \in Res /\ Exists(q) /\ Exists(r)
      BY <1>1, <2>1, ListingIsConfirmed DEF Confirmed
    <3>2. rows[q].at \in Nat /\ rows[r].at \in Nat
      BY <3>1, ConstantsAssumption DEF TypeOK, Row, Exists
    <3>3. ~(rows[r].at < rows[q].at)
      BY <1>1, <2>1 DEF Listing
    <3> QED
      BY <3>1, <3>2, <3>3
  <2> QED
    BY <2>1
<1>4. IsFiniteSet(early)
  <2>1. early \subseteq Res
    BY DEF Confirmed
  <2> QED
    BY <2>1, FS_Subset
<1>5. Cardinality(L) <= Cardinality(early)
  BY <1>3, <1>4, FS_Subset
<1>6. IsFiniteSet(L)
  BY <1>3, <1>4, FS_Subset
<1>7. Cardinality(L) \in Nat /\ Cardinality(early) \in Nat
  BY <1>4, <1>6, FS_CardinalityType
<1>8. Cardinality(early) < Limit
  BY DEF Listed
<1> QED
  BY <1>2, <1>5, <1>7, <1>8

(* Whoever owes a reservation a look still does after a step that is not   *)
(* the clock's, in which nothing fails, and after which it is open.        *)
LEMMA OwedKept ==
  ASSUME TypeOK, IsFiniteSet(Res), [Next]_vars, ~Tick, faults' = faults,
         NEW r \in Res, Open(r), Listed(r), InWindow(r), Open(r)', Owed(r)
  PROVE  Owed(r)'
<1> USE DEF history
<1>1. PICK p \in Configured : due[p] \/ r \in proc[p].todo
  BY DEF Owed
<1>p. p \in Procs
  BY ConstantsAssumption
<1> DEFINE Goal == due'[p] \/ r \in proc'[p].todo
<1> SUFFICES Goal
  BY DEF Owed
<1>2. proc[p] \in ProcState /\ faults \in Nat /\ faults + 1 # faults
  BY <1>p DEF TypeOK
<1>3. \A q \in Procs : proc[q] \in ProcState
  BY DEF TypeOK
<1>a. ASSUME UNCHANGED due, NEW q \in Procs, NEW state \in ProcState, Goto(q, state),
             r \in proc[q].todo => r \in state.todo
      PROVE  Goal
  BY <1>1, <1>p, <1>a, GotoTyped
<1>b. ASSUME UNCHANGED <<due, proc>> PROVE Goal
  BY <1>1, <1>b
<1>4. ASSUME NEW q \in Procs, JobStart(q) PROVE Goal
  <2>1. PICK L \in Listing : Goto(q, Loop(WillCall(q, L)))
    BY <1>4 DEF JobStart
  <2>2. r \in L
    BY ListedIsShown DEF Confirmed, Open
  <2>3. WillCall(q, L) \in SUBSET Res /\ (q \in Configured => r \in WillCall(q, L))
    BY <2>2, ListingIsConfirmed DEF WillCall, ToCall, Confirmed, Open
  <2>4. Loop(WillCall(q, L)) \in ProcState /\ Loop(WillCall(q, L)).todo = WillCall(q, L)
    BY <2>3, LoopTyped
  <2>5. proc'[q].todo = WillCall(q, L) /\ (p # q => proc'[p] = proc[p])
    BY <1>p, <2>1, <2>4, GotoTyped
  <2>6. p # q => due'[p] = due[p]
    BY <1>p, <1>4 DEF JobStart, TypeOK
  <2> QED
    BY <1>1, <2>3, <2>5, <2>6
<1>5. ASSUME NEW q \in Procs, NEW s \in Res, JobDial(q, s) \/ JobDialRefused(q, s)
      PROVE  Goal
  <2>1. proc[q].todo \in SUBSET Res /\ s \in proc[q].todo
    BY <1>3, <1>5 DEF JobDial, JobDialRefused, NextInLoop, ProcState
  <2>2. PICK step \in {"mark", "fail"} : Goto(q, Job(step, s, proc[q].todo))
    BY <1>5 DEF JobDial, JobDialRefused
  <2>3. UNCHANGED due
    BY <1>5 DEF JobDial, JobDialRefused
  <2> QED
    BY <1>a, <2>1, <2>2, <2>3, JobTyped
<1>6. ASSUME NEW q \in Procs, JobMark(q) \/ JobFail(q) PROVE Goal
  <2>1. PICK s \in Res : s = proc[q].cur /\ s \in proc[q].todo /\ Exists(s)
    <3>1. proc[q].pc \in {"mark", "fail"}
      BY <1>6 DEF JobMark, JobFail
    <3>2. proc[q].cur \in Res /\ proc[q].cur \in proc[q].todo
      BY <1>3, <3>1 DEF ProcState
    <3>3. Exists(proc[q].cur)
      BY <3>2 DEF TypeOK, Held
    <3> QED
      BY <3>2, <3>3
  <2>2. proc[q].todo \in SUBSET Res
    BY <1>3 DEF ProcState
  <2>3. PICK c \in ConfirmationStatus : UpdateConfirmationStatus(s, c) /\ c # "pending"
    BY <1>6, <2>1 DEF JobMark, JobFail, ConfirmationStatus
  <2>4. ~Possible(s)'
    BY <2>1, <2>3, WriteIsRaise, WriteImpossible
  <2>5. r # s
    BY <2>4 DEF Possible, Open, Exists
  <2>6. Goto(q, Loop(proc[q].todo \ {s})) /\ UNCHANGED due
    BY <1>6, <2>1 DEF JobMark, JobFail
  <2>7. proc[q].todo \ {s} \in SUBSET Res
    BY <2>2
  <2>8. /\ Loop(proc[q].todo \ {s}) \in ProcState
        /\ Loop(proc[q].todo \ {s}).todo = proc[q].todo \ {s}
    BY <2>7, LoopTyped
  <2> QED
    BY <1>a, <2>5, <2>6, <2>8
<1>7. ASSUME NEW q \in Procs, NEW s \in Res, VoiceOutboundDial(q, s) PROVE Goal
  <2>1. proc[q].pc = "idle" /\ UNCHANGED due /\ Goto(q, Outbound(s))
    BY <1>7 DEF VoiceOutboundDial
  <2>2. proc[q].todo = {}
    BY <1>3, <2>1 DEF ProcState
  <2> QED
    BY <1>a, <2>1, <2>2, OutboundTyped
<1>8. ASSUME NEW q \in Procs, VoiceOutboundNote(q) \/ Restart(q) PROVE Goal
  <2>1. proc[q].pc \in {"note", "down"} /\ UNCHANGED due /\ Goto(q, Idle)
    BY <1>8 DEF VoiceOutboundNote, Restart
  <2>2. proc[q].todo = {}
    BY <1>3, <2>1 DEF ProcState
  <2> QED
    BY <1>a, <2>1, <2>2, StateTyped
<1>9. ASSUME NEW q \in Procs, NEW s \in Res,
             \/ \E t \in Times : CreateReservation(q, s, t)
             \/ \E w \in Status : PatchStatus(q, s, w)
             \/ \E c \in ConfirmationStatus : UpdateConfirmation(q, s, c)
             \/ CancelReservation(q, s)
      PROVE  Goal
  BY <1>b, <1>9 DEF CreateReservation, PatchStatus, UpdateConfirmation, CancelReservation
<1>10. ASSUME NEW q \in Procs,
              \/ JobSkipped(q) \/ JobMarkRaises(q) \/ JobFailRaises(q)
              \/ VoiceOutboundNoteRaises(q) \/ Crash(q)
              \/ \E s \in Res : JobDialReplyLost(q, s) \/ VoiceOutboundReplyLost(q, s)
       PROVE  FALSE
  <2>1. Fault
    BY <1>10 DEF JobSkipped, JobMarkRaises, JobFailRaises, VoiceOutboundNoteRaises, Crash,
                 JobDialReplyLost, VoiceOutboundReplyLost
  <2> QED
    BY <1>2, <2>1 DEF Fault
<1>11. CASE UNCHANGED vars
  BY <1>b, <1>11 DEF vars
<1> QED
  BY <1>4, <1>5, <1>6, <1>7, <1>8, <1>9, <1>10, <1>11, NextCases

(* With minutes that are long enough, for any number of processes one of   *)
(* which has the Twilio settings.                                          *)
LEMMA WaitNext ==
  ASSUME IsFiniteSet(Res), Prompt = TRUE, Configured # {},
         TypeOK, WaitInv, WatchNext, quiet \in [Res -> Nat]
  PROVE  WaitInv' /\ quiet' \in [Res -> Nat]
<1>1. quiet' \in [Res -> Nat]
  BY DEF WatchNext, Watch
<1>2. ASSUME NEW r \in Res, quiet'[r] # 0
      PROVE  quiet'[r] = 1 /\ Waits(r)' /\ InWindow(r)' /\ Owed(r)'
  <2>1. /\ Waits(r)' /\ faults' = faults
        /\ \/ now' = now /\ quiet'[r] = quiet[r]
           \/ now' # now /\ InWindow(r)' /\ quiet'[r] = quiet[r] + 1
    BY <1>2 DEF WatchNext, Watch
  <2>2. CASE Tick
    <3>1. \A p \in Procs : ~due[p] /\ proc[p].todo = {}
      <4>1. \A p \in Procs : proc[p] \in ProcState /\ ~due[p] /\ ~InJob(p)
        BY <2>2 DEF TypeOK, Tick
      <4> QED
        BY <4>1 DEF InJob, ProcState
    <3>2. ~Owed(r)
      BY <3>1, ConstantsAssumption DEF Owed
    <3>3. quiet[r] = 0
      BY <3>2 DEF WaitInv
    <3>4. now' # now
      BY <2>2 DEF Tick, TypeOK
    <3>5. \A p \in Procs : proc[p].pc # "down"
      <4>1. faults \in Nat
        BY DEF TypeOK
      <4> QED
        BY <2>1, <2>2, <4>1 DEF Tick, Fault
    <3>6. Owed(r)'
      <4>1. PICK p \in Configured : TRUE
        OBVIOUS
      <4>2. due'[p]
        BY <2>2, <3>5, ConstantsAssumption DEF Tick
      <4> QED
        BY <4>2 DEF Owed
    <3> QED
      BY <2>1, <3>3, <3>4, <3>6
  <2>3. CASE ~Tick
    <3>1. [Next]_vars /\ now' = now
      BY <2>3, NextKeepsTime DEF WatchNext
    <3>2. quiet[r] = quiet'[r]
      BY <2>1, <3>1
    <3>3. quiet[r] = 1 /\ Open(r) /\ Listed(r) /\ InWindow(r) /\ Owed(r)
      BY <1>2, <3>2 DEF WaitInv, Waits
    <3>4. Owed(r)'
      BY <2>1, <2>3, <3>1, <3>3, OwedKept DEF Waits
    <3>5. rows'[r].at = rows[r].at
      BY <3>1, <3>3, RowsStay DEF Open
    <3>6. InWindow(r)'
      BY <3>1, <3>3, <3>5 DEF InWindow
    <3> QED
      BY <2>1, <3>2, <3>3, <3>4, <3>6
  <2> QED
    BY <2>2, <2>3
<1> QED
  BY <1>1, <1>2 DEF WaitInv

(* If a minute is enough for its work and some process has the Twilio      *)
(* settings, for any number of processes and whatever fails: a reservation *)
(* that is open, in its window and among the Limit earliest when a minute  *)
(* begins is called or marked before the next one, unless something fails  *)
(* or Limit others push it out of the listing in between.                  *)
THEOREM GuestsAreCalledInTime ==
  ASSUME IsFiniteSet(Res), Prompt = TRUE, Configured # {}
  PROVE  WatchSpec => []CalledTheSameMinute
<1> DEFINE J == WaitInv /\ quiet \in [Res -> Nat]
<1>1. WatchInit => Init /\ J
  BY DEF WatchInit, WaitInv
<1>2. [WatchNext]_watchVars => [Next]_vars
  BY DEF WatchNext, watchVars
<1>3. TypeOK /\ J /\ [WatchNext]_watchVars => J'
  <2> SUFFICES ASSUME TypeOK, J, [WatchNext]_watchVars PROVE J'
    OBVIOUS
  <2>1. CASE WatchNext
    BY <2>1, WaitNext
  <2>2. CASE UNCHANGED watchVars
    BY <2>2 DEF watchVars, vars, WaitInv, Owed, Waits, Listed, Confirmed, Open, Exists, InWindow
  <2> QED
    BY <2>1, <2>2
<1>4. J => CalledTheSameMinute
  BY DEF WaitInv, CalledTheSameMinute
<1> QED
  BY <1>1, <1>2, <1>3, <1>4, TypeInit, TypeNext, PTL DEF WatchSpec
=============================================================================
