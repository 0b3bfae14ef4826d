-------------------------- MODULE ConfirmationCalls --------------------------
(***************************************************************************)
(* The reservations table and everything that telephones a guest or writes *)
(* a reservation's status: the scheduled job _run_outbound_confirmations   *)
(* (src/src/main.py), the REST handlers of src/src/api/routes.py and the   *)
(* queries of src/src/services/db.py they call.                            *)
(*                                                                         *)
(* Every handler and the job are coroutines without an await between their *)
(* database and Twilio calls, so inside one API process each of them runs  *)
(* to its end before another starts: a process is idle, or in the middle   *)
(* of one of them.  Each query is a transaction of its own and each Twilio *)
(* request an effect of its own, so a crash, an exception or a step of     *)
(* another process (two pods live side by side during a rolling update)    *)
(* may come between two of them.  Each action is one such transaction or   *)
(* request, with the local computation that follows it.                    *)
(*                                                                         *)
(* A definition whose name ends in Slip is the definition below it with a  *)
(* plausible mistake; no action uses it.  It shows what a property catches.*)
(***************************************************************************)
EXTENDS Integers, FiniteSets

CONSTANTS
  Res,         \* reservation ids
  Procs,       \* API processes (pods)
  Configured,  \* the processes started with the Twilio settings
  Times,       \* the minutes a reservation may be booked for
  Lead,        \* confirmation_call_minutes_before
  Slack,       \* half the width of the call window (5 minutes in the code)
  Limit,       \* rows list_reservations returns at most (2000 in the code)
  Prompt,      \* TRUE: a minute is enough for the work of that minute
  MaxTime,     \* bound on the clock
  MaxFaults,   \* bound on crashes, exceptions and lost replies
  MaxResets,   \* bound on how often staff set one row back to "pending"
  None         \* neither a reservation nor a row

VARIABLES
  rows,     \* the reservations table: rows[r] is a row or None
  proc,     \* proc[p]: what process p is doing
  due,      \* due[p]: the scheduler of p owes a run of the job
  now,      \* the clock, in minutes
  placed,   \* placed[r]: the guest's telephone has rung, whoever called
  dials,    \* dials[p][r]: calls the job of p has placed to r
  resets,   \* resets[r]: times staff set r back to "pending"
  lost,     \* lost[p][r]: attempts of p on r whose outcome was not recorded
  faults    \* crashes, exceptions and lost replies so far

vars == <<rows, proc, due, now, placed, dials, resets, lost, faults>>
history == <<dials, resets, lost>>

------------------------------------------------------------------------------
(* The reservations table.                                                 *)

Status == {"confirmed", "seated", "no_show", "cancelled"}
ConfirmationStatus == {"pending", "confirmed", "declined", "no_answer", "failed"}

Row == [at : Times, status : Status, cs : ConfirmationStatus, called : BOOLEAN]

ASSUME ConstantsAssumption ==
  /\ Configured \subseteq Procs
  /\ Times \subseteq Nat
  /\ Lead \in Nat /\ Slack \in Nat /\ Slack <= Lead
  /\ Limit \in Nat
  /\ Prompt \in BOOLEAN
  /\ MaxTime \in Nat /\ MaxFaults \in Nat /\ MaxResets \in Nat
  /\ None \notin Res \cup Row

Exists(r) == rows[r] # None

(* save_reservation: the columns it leaves out take their defaults.        *)
NewRow(t) == [at |-> t, status |-> "confirmed", cs |-> "pending", called |-> FALSE]

ConfirmedSlip == {r \in Res : Exists(r)}
Confirmed == {r \in Res : Exists(r) /\ rows[r].status = "confirmed"}

(* The answers list_reservations("confirmed") may give: the Limit earliest *)
(* confirmed rows.  Rows of the same minute come newest first; the model   *)
(* leaves their order open.                                                *)
ListingSlip ==
  {L \in SUBSET Confirmed :
     \/ L = Confirmed /\ Cardinality(L) <= Limit
     \/ L # Confirmed /\ Cardinality(L) = Limit}
Listing ==
  {L \in SUBSET Confirmed :
     /\ \A r \in L, q \in Confirmed : rows[q].at < rows[r].at => q \in L
     /\ \/ L = Confirmed /\ Cardinality(L) <= Limit
        \/ L # Confirmed /\ Cardinality(L) = Limit}

UpdateReservationStatus(r, s) == rows' = [rows EXCEPT ![r].status = s]

(* update_confirmation_status stamps confirmation_called_at whatever it    *)
(* writes.                                                                 *)
UpdateConfirmationStatus(r, c) ==
  rows' = [rows EXCEPT ![r].cs = c, ![r].called = TRUE]

(* The same update raising: the commit may or may not have reached the     *)
(* database.                                                               *)
UpdateConfirmationRaises(r, c) ==
  UpdateConfirmationStatus(r, c) \/ UNCHANGED rows

------------------------------------------------------------------------------
(* Processes.                                                              *)

Down == [pc |-> "down", cur |-> None, todo |-> {}]
Idle == [pc |-> "idle", cur |-> None, todo |-> {}]

(* pc "row": the job is about to dial the next of todo; "mark"/"fail": it  *)
(* is about to record the outcome for cur, still in todo; "note": the      *)
(* outbound handler is about to record that it called cur.                 *)
Job(step, r, todo) == [pc |-> step, cur |-> r, todo |-> todo]
Outbound(r) == [pc |-> "note", cur |-> r, todo |-> {}]

(* The for loop of the job with the rows of todo still ahead.              *)
Loop(todo) == IF todo = {} THEN Idle ELSE Job("row", None, todo)

Goto(p, state) == proc' = [proc EXCEPT ![p] = state]
InJob(p) == proc[p].pc \in {"row", "mark", "fail"}

Fault ==
  /\ faults < MaxFaults
  /\ faults' = faults + 1

Interrupted(p) ==
  lost' = IF proc[p].pc \in {"mark", "fail"}
          THEN [lost EXCEPT ![p][proc[p].cur] = @ + 1]
          ELSE lost

Init ==
  /\ rows = [r \in Res |-> None]
  /\ proc = [p \in Procs |-> Down]
  /\ due = [p \in Procs |-> FALSE]
  /\ now = 0
  /\ placed = [r \in Res |-> FALSE]
  /\ dials = [p \in Procs |-> [r \in Res |-> 0]]
  /\ resets = [r \in Res |-> 0]
  /\ lost = [p \in Procs |-> [r \in Res |-> 0]]
  /\ faults = 0

------------------------------------------------------------------------------
(* The scheduled job.                                                      *)

(* window_start <= res_dt <= window_end                                    *)
InWindowLateSlip(r) == now + Lead = rows[r].at
InWindowEarlySlip(r) == now + Lead - Slack <= rows[r].at
InWindow(r) == now + Lead - Slack <= rows[r].at /\ rows[r].at <= now + Lead + Slack

(* The rows of a listing the loop will dial.                               *)
ToCallSlip(L) == {r \in L : InWindow(r)}
ToCall(L) == {r \in L : InWindow(r) /\ rows[r].cs = "pending"}

(* What a run of the job in p makes of a listing; without the Twilio       *)
(* settings it returns before it asks for one.                             *)
WillCall(p, L) == IF p \in Configured THEN ToCall(L) ELSE {}

(* One query lists the confirmed rows; the loop will dial those in the     *)
(* window that the answer shows as "pending".                              *)
JobStart(p) ==
  /\ proc[p].pc = "idle" /\ due[p]
  /\ \E L \in Listing : Goto(p, Loop(WillCall(p, L)))
  /\ due' = [due EXCEPT ![p] = FALSE]
  /\ UNCHANGED <<rows, now, placed, history, faults>>

(* A run that never happens: the query raises, or the scheduler drops the  *)
(* run because the event loop was busy at the firing instant.              *)
JobSkipped(p) ==
  /\ proc[p].pc = "idle" /\ due[p]
  /\ due' = [due EXCEPT ![p] = FALSE]
  /\ Fault
  /\ UNCHANGED <<rows, proc, now, placed, history>>

NextInLoop(p, r) ==
  /\ proc[p].pc = "row" /\ r \in proc[p].todo
  /\ \A q \in proc[p].todo : rows[r].at <= rows[q].at

(* client.calls.create returns: the call is placed.                        *)
JobDial(p, r) ==
  /\ NextInLoop(p, r)
  /\ Goto(p, Job("mark", r, proc[p].todo))
  /\ placed' = [placed EXCEPT ![r] = TRUE]
  /\ dials' = [dials EXCEPT ![p][r] = @ + 1]
  /\ UNCHANGED <<rows, due, now, resets, lost, faults>>

(* client.calls.create raises: Twilio refuses the call ...                 *)
JobDialRefusedSlip(p, r) ==
  /\ NextInLoop(p, r)
  /\ Goto(p, Job("mark", r, proc[p].todo))
  /\ UNCHANGED <<rows, due, now, placed, history, faults>>
JobDialRefused(p, r) ==
  /\ NextInLoop(p, r)
  /\ Goto(p, Job("fail", r, proc[p].todo))
  /\ UNCHANGED <<rows, due, now, placed, history, faults>>

(* ... or places it and the reply is lost.                                 *)
JobDialReplyLost(p, r) ==
  /\ NextInLoop(p, r)
  /\ Goto(p, Job("fail", r, proc[p].todo))
  /\ placed' = [placed EXCEPT ![r] = TRUE]
  /\ dials' = [dials EXCEPT ![p][r] = @ + 1]
  /\ Fault
  /\ UNCHANGED <<rows, due, now, resets, lost>>

JobMarkSlip(p) ==
  /\ proc[p].pc = "mark"
  /\ Goto(p, Loop(proc[p].todo \ {proc[p].cur}))
  /\ UNCHANGED <<rows, due, now, placed, history, faults>>
JobMark(p) ==
  /\ proc[p].pc = "mark"
  /\ UpdateConfirmationStatus(proc[p].cur, "confirmed")
  /\ Goto(p, Loop(proc[p].todo \ {proc[p].cur}))
  /\ UNCHANGED <<due, now, placed, history, faults>>

(* An exception of the update is handled like an exception of the call.    *)
JobMarkRaises(p) ==
  /\ proc[p].pc = "mark"
  /\ UpdateConfirmationRaises(proc[p].cur, "confirmed")
  /\ Goto(p, Job("fail", proc[p].cur, proc[p].todo))
  /\ Fault
  /\ UNCHANGED <<due, now, placed, history>>

JobFailSlip(p) ==
  /\ proc[p].pc = "fail"
  /\ UpdateConfirmationStatus(proc[p].cur, "pending")
  /\ Goto(p, Loop(proc[p].todo \ {proc[p].cur}))
  /\ UNCHANGED <<due, now, placed, history, faults>>
JobFail(p) ==
  /\ proc[p].pc = "fail"
  /\ UpdateConfirmationStatus(proc[p].cur, "failed")
  /\ Goto(p, Loop(proc[p].todo \ {proc[p].cur}))
  /\ UNCHANGED <<due, now, placed, history, faults>>

(* An exception inside the except clause ends the run: the remaining rows  *)
(* are not dialled this minute.                                            *)
JobFailRaises(p) ==
  /\ proc[p].pc = "fail"
  /\ UpdateConfirmationRaises(proc[p].cur, "failed")
  /\ Goto(p, Idle)
  /\ Interrupted(p)
  /\ Fault
  /\ UNCHANGED <<due, now, placed, dials, resets>>

------------------------------------------------------------------------------
(* The REST handlers.  A lookup that finds no row answers 404 and changes  *)
(* nothing; rows are never deleted, so a row found stays there.            *)

CreateReservation(p, r, t) ==
  /\ proc[p].pc = "idle" /\ ~Exists(r)
  /\ rows' = [rows EXCEPT ![r] = NewRow(t)]
  /\ UNCHANGED <<proc, due, now, placed, history, faults>>

(* PATCH .../status: any of the four statuses from any other.              *)
PatchStatus(p, r, s) ==
  /\ proc[p].pc = "idle" /\ Exists(r)
  /\ UpdateReservationStatus(r, s)
  /\ UNCHANGED <<proc, due, now, placed, history, faults>>

CancelReservation(p, r) ==
  /\ proc[p].pc = "idle" /\ Exists(r)
  /\ UpdateReservationStatus(r, "cancelled")
  /\ UNCHANGED <<proc, due, now, placed, history, faults>>

(* PATCH .../confirmation: any of the five values; "pending" asks the job  *)
(* to call again.                                                          *)
UpdateConfirmation(p, r, c) ==
  /\ proc[p].pc = "idle" /\ Exists(r)
  /\ UpdateConfirmationStatus(r, c)
  /\ IF c = "pending"
     THEN resets[r] < MaxResets /\ resets' = [resets EXCEPT ![r] = @ + 1]
     ELSE resets' = resets
  /\ UNCHANGED <<proc, due, now, placed, dials, lost, faults>>

(* POST /voice/outbound: dials whatever the row says; 503 without the      *)
(* Twilio settings.                                                        *)
VoiceOutboundDial(p, r) ==
  /\ proc[p].pc = "idle" /\ Exists(r) /\ p \in Configured
  /\ placed' = [placed EXCEPT ![r] = TRUE]
  /\ Goto(p, Outbound(r))
  /\ UNCHANGED <<rows, due, now, history, faults>>

(* The call is placed and the reply lost: 500, and nothing is recorded.    *)
VoiceOutboundReplyLost(p, r) ==
  /\ proc[p].pc = "idle" /\ Exists(r) /\ p \in Configured
  /\ placed' = [placed EXCEPT ![r] = TRUE]
  /\ Fault
  /\ UNCHANGED <<rows, proc, due, now, history>>

VoiceOutboundNote(p) ==
  /\ proc[p].pc = "note"
  /\ UpdateConfirmationStatus(proc[p].cur, "confirmed")
  /\ Goto(p, Idle)
  /\ UNCHANGED <<due, now, placed, history, faults>>

VoiceOutboundNoteRaises(p) ==
  /\ proc[p].pc = "note"
  /\ UpdateConfirmationRaises(proc[p].cur, "confirmed")
  /\ Goto(p, Idle)
  /\ Fault
  /\ UNCHANGED <<due, now, placed, history>>

------------------------------------------------------------------------------
(* The environment.                                                        *)

Crash(p) ==
  /\ proc[p].pc # "down"
  /\ Goto(p, Down)
  /\ due' = [due EXCEPT ![p] = FALSE]
  /\ Interrupted(p)
  /\ Fault
  /\ UNCHANGED <<rows, now, placed, dials, resets>>

(* lifespan: the scheduler starts; its first run is due a minute later.    *)
Restart(p) ==
  /\ proc[p].pc = "down"
  /\ Goto(p, Idle)
  /\ UNCHANGED <<rows, due, now, placed, history, faults>>

(* A minute passes and the interval trigger of every running process       *)
(* fires; a run not started yet is coalesced with the new one.  When       *)
(* Prompt, the runs of a minute are over before the next one, and a minute *)
(* that finds a process down counts as a fault.                            *)
Tick ==
  /\ now < MaxTime
  /\ now' = now + 1
  /\ due' = [p \in Procs |-> proc[p].pc # "down"]
  /\ Prompt => \A p \in Procs : ~due[p] /\ ~InJob(p)
  /\ IF Prompt /\ \E p \in Procs : proc[p].pc = "down"
     THEN Fault
     ELSE faults' = faults
  /\ UNCHANGED <<rows, proc, placed, history>>

JobStep(p) ==
  \/ JobMark(p) \/ JobMarkRaises(p) \/ JobFail(p) \/ JobFailRaises(p)
  \/ \E r \in Res : JobDial(p, r) \/ JobDialRefused(p, r) \/ JobDialReplyLost(p, r)

RestStep(p) ==
  \/ VoiceOutboundNote(p) \/ VoiceOutboundNoteRaises(p)
  \/ \E r \in Res :
       \/ \E t \in Times : CreateReservation(p, r, t)
       \/ \E s \in Status : PatchStatus(p, r, s)
       \/ \E c \in ConfirmationStatus : UpdateConfirmation(p, r, c)
       \/ CancelReservation(p, r)
       \/ VoiceOutboundDial(p, r)
       \/ VoiceOutboundReplyLost(p, r)

Next ==
  \/ Tick
  \/ \E p \in Procs :
       \/ JobStart(p) \/ JobSkipped(p) \/ JobStep(p)
       \/ RestStep(p)
       \/ Crash(p) \/ Restart(p)

Spec == Init /\ [][Next]_vars

(* The event loop serves what is ready in order, so a due run starts even  *)
(* if requests keep arriving (strong fairness); a handler once begun goes  *)
(* on; Kubernetes restarts a pod that died; time passes.                   *)
Fairness ==
  /\ WF_vars(Tick)
  /\ \A p \in Procs :
       /\ SF_vars(JobStart(p))
       /\ WF_vars(JobStep(p))
       /\ WF_vars(VoiceOutboundNote(p) \/ VoiceOutboundNoteRaises(p))
       /\ WF_vars(Restart(p))

FairSpec == Spec /\ Fairness

------------------------------------------------------------------------------
(* Properties.                                                             *)

(* A process holds a reservation exactly when its handler is between a     *)
(* call and the update that follows it, and rows ahead only in the job.    *)
ProcState ==
  {st \in [pc : {"down", "idle", "row", "mark", "fail", "note"},
            cur : Res \cup {None}, todo : SUBSET Res] :
     /\ st.cur \in Res <=> st.pc \in {"mark", "fail", "note"}
     /\ st.pc \in {"mark", "fail"} => st.cur \in st.todo
     /\ st.pc \notin {"row", "mark", "fail"} => st.todo = {}}

(* The reservations a handler in this state has looked up or listed.       *)
Held(st) == {st.cur} \cup st.todo

(* Every variable has its type, and a handler only holds rows it found.    *)
TypeOK ==
  /\ rows \in [Res -> Row \cup {None}]
  /\ proc \in [Procs -> ProcState]
  /\ due \in [Procs -> BOOLEAN]
  /\ now \in Nat
  /\ placed \in [Res -> BOOLEAN]
  /\ dials \in [Procs -> [Res -> Nat]]
  /\ resets \in [Res -> Nat]
  /\ lost \in [Procs -> [Res -> Nat]]
  /\ faults \in Nat
  /\ \A p \in Procs, r \in Res : r \in Held(proc[p]) => Exists(r)

(* The job of one process calls a guest again only with a cause: staff set *)
(* the row back to "pending", or an earlier attempt of that process was    *)
(* cut short before its outcome reached the table.  Whatever the other     *)
(* processes, the staff and the faults do, nothing else makes the          *)
(* telephone ring twice from there.                                        *)
NoRedialWithoutCause ==
  \A p \in Procs, r \in Res : dials[p][r] <= 1 + resets[r] + lost[p][r]

(* The row of a call the job is about to place is not further ahead than   *)
(* the window allows, however long the loop has been at work and whatever  *)
(* happened to the row since it was listed: a guest is never called early. *)
NeverTooEarly ==
  [][\A p \in Procs, r \in Res :
       dials'[p][r] > dials[p][r] => rows[r].at <= now + Lead + Slack]_vars

(* When the job or the outbound handler turns confirmation_status to       *)
(* "confirmed", the guest's telephone has rung: no path through the        *)
(* exceptions records a confirmation nobody asked for.                     *)
ConfirmedAfterRinging ==
  [][\A r \in Res :
       (Exists(r) /\ rows[r].cs # "confirmed" /\ rows'[r].cs = "confirmed"
          /\ proc' # proc)
       => placed[r]]_vars

(* A call by the job goes to a guest whose reservation stands and whose    *)
(* confirmation is still open at the very moment of the call.  One process *)
(* promises this, since nothing runs between its query and its calls; two  *)
(* processes do not.                                                       *)
JobCallsOnlyOpen ==
  [][\A p \in Procs, r \in Res :
       dials'[p][r] > dials[p][r]
       => rows[r].status = "confirmed" /\ rows[r].cs = "pending"]_vars

Open(r) == Exists(r) /\ rows[r].status = "confirmed" /\ rows[r].cs = "pending"

(* The job of p may still dial r without a new cause: r is ahead in its    *)
(* loop, or the next listing may show it as "pending".                     *)
MayDial(p, r) ==
  /\ proc[p].pc \in {"mark", "fail"} => proc[p].cur # r
  /\ r \in proc[p].todo \/ ~Exists(r) \/ rows[r].cs = "pending"

(* Whoever may still dial has an unused credit for it.                     *)
CreditInv ==
  \A p \in Procs, r \in Res :
    MayDial(p, r) => dials[p][r] <= resets[r] + lost[p][r]

(* What the loop still holds was inside the window when it was listed, and *)
(* time only brings it nearer.                                             *)
AheadInv ==
  \A p \in Procs : \A r \in proc[p].todo :
    rows[r].at <= now + Lead + Slack

(* A process that is about to record a confirmation has placed the call.   *)
RungInv ==
  \A p \in Procs : proc[p].pc \in {"mark", "note"} => placed[proc[p].cur]

(* The inductive invariant.                                                *)
IInv == TypeOK /\ NoRedialWithoutCause /\ CreditInv /\ AheadInv /\ RungInv

(* With one process, what its loop still holds is still open.              *)
OpenInv ==
  \A p \in Procs : \A r \in proc[p].todo :
    r # proc[p].cur => rows[r].status = "confirmed" /\ rows[r].cs = "pending"

(* The component keeps the ledger of calls.                                *)
Ledger == INSTANCE CallLedger
LedgerSpec == Ledger!Spec
=============================================================================
