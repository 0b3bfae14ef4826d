-------------------------- MODULE AgentConversation --------------------------
(***************************************************************************)
(* The conversational agent: invoke_agent and the supervisor graph of      *)
(* src/src/agents/graph.py, the four sub-agents of agents/sub_agents.py,   *)
(* the SQLite checkpoints of src/src/checkpointing.py, and the two ways    *)
(* in, POST /agent/chat and the Twilio webhook POST /voice/process.        *)
(*                                                                         *)
(* A turn reads the session's checkpoint, lets the supervisor classify the *)
(* message and merge what it says, runs one sub-agent against the          *)
(* reservations table, and writes the checkpoint of the outcome.  The      *)
(* handler has no await, so a process takes one turn at a time; but the    *)
(* table's commit and the checkpoint's are two, and a turn that dies       *)
(* leaves whichever of its checkpoints had reached the disk.  The          *)
(* checkpoint file belongs to one process.                                 *)
(*                                                                         *)
(* A guest's message is abstracted to what the code extracts from it.      *)
(* Definitions named Slip are as in ConfirmationCalls.                     *)
(***************************************************************************)
EXTENDS Integers, FiniteSets

CONSTANTS
  Sessions,    \* conversations
  Voice,       \* those that are telephone calls (session_id = CallSid)
  Procs,       \* API processes (pods)
  Fields,      \* the required fields of a booking
  Ids,         \* reservation ids (UUIDs) that rows may get; bounds the rows
  Stray,       \* a UUID no row has
  Garbled,     \* a reservation number that is not a UUID
  Blank,       \* a reservation number that is there and empty ('', null or 0)
  None,        \* no id, no row, no checkpoint
  Said,        \* what _llm_extract may make of a message
  Given,       \* the reservation_data a request to /agent/chat may carry
  Faulty       \* the kinds of fault that may happen, see Fault

VARIABLES
  rows,     \* the reservations table: the status of each id, or None
  disk,     \* disk[p][s]: the checkpoint of s in the file of p, or None
  turn,     \* turn[p]: the turn process p is in
  over,     \* over[s]: the telephone call s has ended
  heard,    \* heard[s]: the required fields the guest of s has stated
  told,     \* told[s]: the reservation ids the guest of s has given
  booked,   \* booked[s]: the reservations that session s has stored
  dropped   \* dropped[s]: the reservations that session s has cancelled

vars == <<rows, disk, turn, over, heard, told, booked, dropped>>

(* "later" stands for "seated" and "no_show".                              *)
Status == {"confirmed", "later", "cancelled"}

(* What _llm_extract may return as intent: also a word that is no intent.  *)
(* A null, and the None before the first turn, act like "unknown".         *)
Named == {"make", "cancel", "query", "unknown"}
Intent == Named \cup {"other"}

(* A reservation_id in reservation_data.                                   *)
Rid == Ids \cup {Stray, Garbled, Blank, None}

(* A checkpoint: intent and reservation_data, with the fields that have a  *)
(* value; blank: it also has a key with an empty one, or a key that no     *)
(* sub-agent asks for.                                                     *)
Snapshot == [intent : Intent, known : SUBSET Fields, rid : Rid, blank : BOOLEAN]

(* What is laid over reservation_data: the fields with a value and those   *)
(* with an empty one, and the reservation number.                          *)
Data ==
  {d \in [known : SUBSET Fields, lost : SUBSET Fields, rid : Rid] : d.known \cap d.lost = {}}
Nothing == [known |-> {}, lost |-> {}, rid |-> None]

(* kw: what _keyword_classify makes of the text; intent and data: what     *)
(* _llm_extract makes of it, which drops a null and keeps '' and 0.  Its   *)
(* fallback _regex_fallback returns the keywords' intent and no id.        *)
Message == [kw : Named, intent : Intent, data : Said]

ASSUME ConstantsAssumption ==
  /\ Voice \subseteq Sessions
  /\ Stray \notin Ids /\ Garbled \notin Ids /\ Blank \notin Ids /\ None \notin Ids
  /\ Stray # Garbled /\ Stray # Blank /\ Stray # None
  /\ Garbled # Blank /\ Garbled # None /\ Blank # None
  /\ None \notin Snapshot \cup Status \cup Sessions
  /\ Said \subseteq Data /\ Given \subseteq Data /\ Nothing \in Given
  /\ Faulty \subseteq {"db", "read", "raise", "crash", "wipe", "empty"}

Exists(id) == id \in Ids /\ rows[id] # None

------------------------------------------------------------------------------
(* Turns.                                                                  *)

(* pc "agent": the supervisor has routed to the sub-agent of cur.intent;   *)
(* "end": the sub-agent has returned.  kept: the checkpoints the graph     *)
(* writes before the sub-agent's, with the turn's input and with the       *)
(* supervisor's update; asked: the message asked for a booking or stated   *)
(* a field that was missing; spared: the fields the turn has no reason to  *)
(* lose; owed: these and the ones the message states.                      *)
Quiet(pc) == [pc |-> pc, s |-> None, cur |-> None, kept |-> {}, asked |-> FALSE,
              spared |-> {}, owed |-> {}, reply |-> "none"]
Down == Quiet("down")
Idle == Quiet("idle")

Busy(p) == turn[p].pc \in {"agent", "end"}

(* Ids bounds the rows: every turn in progress still finds a new id.       *)
Room == Cardinality({id \in Ids : ~Exists(id)}) > Cardinality({p \in Procs : Busy(p)})

(* The kinds of fault: "db" a query raises; "read" get_state raises;       *)
(* "raise" the graph, a checkpoint write or the output guardrail raises;   *)
(* "crash" the process dies; "wipe" it loses its container's file system;  *)
(* "empty" the model answers with an empty value.                          *)
Fault(kind) == kind \in Faulty

Init ==
  /\ rows = [id \in Ids |-> None]
  /\ disk = [p \in Procs |-> [s \in Sessions |-> None]]
  /\ turn = [p \in Procs |-> Idle]
  /\ over = [s \in Sessions |-> FALSE]
  /\ heard = [s \in Sessions |-> {}]
  /\ told = [s \in Sessions |-> {}]
  /\ booked = [s \in Sessions |-> {}]
  /\ dropped = [s \in Sessions |-> {}]

------------------------------------------------------------------------------
(* invoke_agent and node_supervisor.                                       *)

(* {**data, **extracted}: a key of d overwrites the key of x, also with an *)
(* empty value.                                                            *)
MergeSlip(x, d) == [x EXCEPT !.known = d.known, !.rid = d.rid]
Merge(x, d) ==
  [x EXCEPT !.known = (@ \ d.lost) \cup d.known,
            !.rid = IF d.rid = None THEN @ ELSE d.rid,
            !.blank = @ \/ d.lost # {}]

(* The checkpoint the turn starts from, with the reservation_data of the   *)
(* request.  When the read raises, the turn is taken for the first one of  *)
(* the session.                                                            *)
First == [intent |-> "unknown", known |-> {}, rid |-> None, blank |-> FALSE]
ContextSlip(p, s, readable, given) ==
  LET seen == {disk[p][z] : z \in Sessions} \ {None}
  IN  Merge(IF readable /\ seen # {} THEN CHOOSE x \in seen : TRUE ELSE First, given)
Context(p, s, readable, given) ==
  Merge(IF readable /\ disk[p][s] # None THEN disk[p][s] ELSE First, given)

(* node_supervisor keeps to a prior intent unless the keywords name        *)
(* another one; data with nothing but empty values are still data.         *)
HasData(x) == x.known # {} \/ x.rid # None \/ x.blank
KeepsIntent(x, m) ==
  /\ x.intent # "unknown" /\ HasData(x)
  /\ m.kw \in {"unknown", x.intent}
Supervise(x, m) ==
  [Merge(x, m.data) EXCEPT !.intent = IF KeepsIntent(x, m) THEN x.intent ELSE m.intent]

(* The fields of the checkpoint that the turn has read and is not given    *)
(* empty, and what the guest may count on after the turn.                  *)
Spared(p, s, m, readable, given) ==
  {f \in Fields \ (given.lost \cup m.data.lost) :
     readable /\ disk[p][s] # None /\ f \in disk[p][s].known}
Owed(p, s, m, readable, given) ==
  Spared(p, s, m, readable, given) \cup m.data.known \cup (given.known \ m.data.lost)

(* The reservations the guest names.                                       *)
Names(m, given) == {m.data.rid, given.rid} \cap Ids

(* A guest sends one message at a time: the chat panel is disabled and the *)
(* caller listens until the answer comes.                                  *)
TurnStart(p, s, m, readable, given) ==
  /\ turn[p].pc = "idle" /\ ~over[s]
  /\ \A q \in Procs : turn[q].s # s
  /\ readable \/ Fault("read")
  /\ s \in Voice => given = Nothing
  /\ (m.data.lost = {} /\ m.data.rid # Blank) \/ Fault("empty")
  /\ \A id \in Names(m, given) : Exists(id)
  /\ Room
  /\ LET context == Context(p, s, readable, given)
         routed == Supervise(context, m)
     IN  turn' = [turn EXCEPT ![p] =
                    [pc |-> "agent", s |-> s, cur |-> routed,
                     kept |-> {context, routed},
                     asked |-> "make" \in {m.kw, m.intent}
                               \/ ~(given.known \cup m.data.known \subseteq
                                      Context(p, s, readable, Nothing).known),
                     spared |-> Spared(p, s, m, readable, given),
                     owed |-> Owed(p, s, m, readable, given),
                     reply |-> "none"]]
  /\ heard' = [heard EXCEPT ![s] = @ \cup given.known \cup m.data.known]
  /\ told' = [told EXCEPT ![s] = @ \cup Names(m, given)]
  /\ UNCHANGED <<rows, disk, over, booked, dropped>>

------------------------------------------------------------------------------
(* The sub-agents.  Each returns the reply and leaves the turn at its end. *)

Routed(p, intents) == turn[p].pc = "agent" /\ turn[p].cur.intent \in intents
Answer(p, reply, rid) ==
  turn' = [turn EXCEPT ![p].pc = "end", ![p].reply = reply, ![p].cur.rid = rid]
Says(p, reply) == Answer(p, reply, turn[p].cur.rid)
untouched == <<disk, over, heard, told>>

CompleteSlip(p) == HasData(turn[p].cur)
Complete(p) == turn[p].cur.known = Fields

ReservationAsks(p) ==
  /\ Routed(p, {"make"}) /\ ~Complete(p)
  /\ Says(p, "which field")
  /\ UNCHANGED <<rows, booked, dropped, untouched>>

Stores(p, id) ==
  /\ rows' = [rows EXCEPT ![id] = "confirmed"]
  /\ booked' = [booked EXCEPT ![turn[p].s] = @ \cup {id}]

ReservationBooks(p, id) ==
  /\ Routed(p, {"make"}) /\ Complete(p)
  /\ ~Exists(id)
  /\ Stores(p, id)
  /\ Answer(p, "booked", id)
  /\ UNCHANGED <<dropped, untouched>>

(* The insert raises (no database, a date Postgres or a number int() does  *)
(* not take; or the commit went through and its answer did not come back): *)
(* the guest is told the same, with an id made up on the spot.             *)
ReservationInvents(p, id) ==
  /\ Routed(p, {"make"}) /\ Complete(p)
  /\ Fault("db")
  /\ ~Exists(id)
  /\ Stores(p, id) \/ UNCHANGED <<rows, booked>>
  /\ Answer(p, "booked", Stray)
  /\ UNCHANGED <<dropped, untouched>>

(* cancellation_agent and query_agent without a reservation_id, or with an *)
(* empty one.                                                              *)
AsksWhich(p) ==
  /\ Routed(p, {"cancel", "query"}) /\ turn[p].cur.rid \in {Blank, None}
  /\ Says(p, "which reservation")
  /\ UNCHANGED <<rows, booked, dropped, untouched>>

Drops(p, id) ==
  /\ rows' = [rows EXCEPT ![id] = "cancelled"]
  /\ dropped' = [dropped EXCEPT ![turn[p].s] = @ \cup {id}]

CancellationCancels(p) ==
  LET id == turn[p].cur.rid IN
  /\ Routed(p, {"cancel"}) /\ id \in Ids \cup {Stray}
  /\ IF Exists(id)
     THEN Drops(p, id) /\ Says(p, "cancelled")
     ELSE UNCHANGED <<rows, dropped>> /\ Says(p, "not found")
  /\ UNCHANGED <<booked, untouched>>

(* The update raises: always for a number that is no UUID.                 *)
CancellationPromises(p) ==
  LET id == turn[p].cur.rid IN
  /\ Routed(p, {"cancel"}) /\ id \notin {Blank, None}
  /\ id = Garbled \/ Fault("db")
  /\ \/ UNCHANGED <<rows, dropped>>
     \/ Exists(id) /\ Drops(p, id)
  /\ Says(p, "will cancel")
  /\ UNCHANGED <<booked, untouched>>

(* get_reservation_by_uuid finds nothing for a number that is no UUID.     *)
QueryFinds(p) ==
  /\ Routed(p, {"query"}) /\ turn[p].cur.rid \notin {Blank, None}
  /\ Says(p, IF Exists(turn[p].cur.rid) THEN "details" ELSE "not found")
  /\ UNCHANGED <<rows, booked, dropped, untouched>>

QueryReassures(p) ==
  /\ Routed(p, {"query"}) /\ turn[p].cur.rid \in Ids \cup {Stray}
  /\ Fault("db")
  /\ Says(p, "it is confirmed")
  /\ UNCHANGED <<rows, booked, dropped, untouched>>

Clarify(p) ==
  /\ Routed(p, {"unknown", "other"})
  /\ Says(p, "how can I help")
  /\ UNCHANGED <<rows, booked, dropped, untouched>>

------------------------------------------------------------------------------
(* The end of a turn.                                                      *)

(* _is_conversation_done: the replies that hold a goodbye signal ("algo    *)
(* mas", "confirmada") make /voice/process hang up.                        *)
HangsUpSlip(reply) == reply \in {"cancelled", "details", "it is confirmed"}
HangsUp(reply) == reply \in {"booked", "cancelled", "details", "it is confirmed"}

TurnEnd(p) ==
  LET s == turn[p].s IN
  /\ turn[p].pc = "end"
  /\ disk' = [disk EXCEPT ![p][s] = turn[p].cur]
  /\ over' = [over EXCEPT ![s] = s \in Voice /\ HangsUp(turn[p].reply)]
  /\ turn' = [turn EXCEPT ![p] = Idle]
  /\ UNCHANGED <<rows, heard, told, booked, dropped>>

(* What may be on the disk of p when its turn dies.                        *)
Left(p) ==
  {disk[p][turn[p].s]} \cup turn[p].kept
    \cup (IF turn[p].pc = "end" THEN {turn[p].cur} ELSE {})

(* The chat user sees an error and may go on; Twilio ends the call.        *)
CutShort(p) ==
  over' = IF Busy(p) THEN [over EXCEPT ![turn[p].s] = turn[p].s \in Voice] ELSE over

TurnRaises(p) ==
  /\ Busy(p) /\ Fault("raise")
  /\ \E x \in Left(p) : disk' = [disk EXCEPT ![p][turn[p].s] = x]
  /\ CutShort(p)
  /\ turn' = [turn EXCEPT ![p] = Idle]
  /\ UNCHANGED <<rows, heard, told, booked, dropped>>

Crash(p) ==
  /\ turn[p].pc # "down" /\ Fault("crash")
  /\ IF Busy(p)
     THEN \E x \in Left(p) : disk' = [disk EXCEPT ![p][turn[p].s] = x]
     ELSE disk' = disk
  /\ CutShort(p)
  /\ turn' = [turn EXCEPT ![p] = Down]
  /\ UNCHANGED <<rows, heard, told, booked, dropped>>

(* A new container in the place of a dead one has no checkpoint file.      *)
Restart(p, wiped) ==
  /\ turn[p].pc = "down"
  /\ wiped => Fault("wipe")
  /\ turn' = [turn EXCEPT ![p] = Idle]
  /\ disk' = IF wiped THEN [disk EXCEPT ![p] = [s \in Sessions |-> None]] ELSE disk
  /\ UNCHANGED <<rows, over, heard, told, booked, dropped>>

(* The REST handlers of an idle process: a new reservation (always         *)
(* "confirmed") or any change of status.  The staff leave the agent an id. *)
StaffWrites(p, id, status) ==
  /\ turn[p].pc = "idle"
  /\ ~Exists(id) => /\ status = "confirmed"
                    /\ Room /\ \E other \in Ids : other # id /\ ~Exists(other)
  /\ rows' = [rows EXCEPT ![id] = status]
  /\ UNCHANGED <<disk, turn, over, heard, told, booked, dropped>>

AgentStep(p) ==
  \/ ReservationAsks(p)
  \/ \E id \in Ids : ReservationBooks(p, id) \/ ReservationInvents(p, id)
  \/ AsksWhich(p) \/ CancellationCancels(p) \/ CancellationPromises(p)
  \/ QueryFinds(p) \/ QueryReassures(p)
  \/ Clarify(p)

Next ==
  \E p \in Procs :
    \/ \E s \in Sessions, m \in Message, readable \in BOOLEAN, given \in Given :
         TurnStart(p, s, m, readable, given)
    \/ AgentStep(p)
    \/ TurnEnd(p) \/ TurnRaises(p)
    \/ Crash(p)
    \/ \E wiped \in BOOLEAN : Restart(p, wiped)
    \/ \E id \in Ids, status \in Status : StaffWrites(p, id, status)

Spec == Init /\ [][Next]_vars

(* The turn of a session goes on once begun, a process that died is        *)
(* restarted, and a guest who is asked for a field answers with it, in     *)
(* words that name no other intent.                                        *)
Answers(p, s) ==
  /\ disk[p][s] # None
  /\ \E data \in {d \in Said : d.lost = {} /\ ~(d.known \subseteq disk[p][s].known)},
        intent \in Intent :
       TurnStart(p, s, [kw |-> "unknown", intent |-> intent, data |-> data], TRUE, Nothing)

Fairness ==
  \A p \in Procs :
    /\ WF_vars(AgentStep(p))
    /\ WF_vars(TurnEnd(p))
    /\ WF_vars(\E wiped \in BOOLEAN : Restart(p, wiped))
    /\ \A s \in Sessions : SF_vars(Answers(p, s))

FairSpec == Spec /\ Fairness

------------------------------------------------------------------------------
(* Properties.                                                             *)

Replies == {"none", "which field", "booked", "which reservation", "cancelled",
            "not found", "will cancel", "details", "it is confirmed", "how can I help"}

Turn ==
  {t \in [pc : {"down", "idle", "agent", "end"}, s : Sessions \cup {None},
           cur : Snapshot \cup {None}, kept : SUBSET Snapshot,
           asked : BOOLEAN, spared : SUBSET Fields, owed : SUBSET Fields,
           reply : Replies] :
     IF t.pc \in {"agent", "end"}
     THEN t.s \in Sessions /\ t.cur \in Snapshot
     ELSE t = Quiet(t.pc)}

(* Every variable has its type, and a turn in progress has its session.    *)
TypeOK ==
  /\ rows \in [Ids -> Status \cup {None}]
  /\ disk \in [Procs -> [Sessions -> Snapshot \cup {None}]]
  /\ turn \in [Procs -> Turn]
  /\ over \in [Sessions -> BOOLEAN]
  /\ heard \in [Sessions -> SUBSET Fields]
  /\ told \in [Sessions -> SUBSET Ids]
  /\ booked \in [Sessions -> SUBSET Ids]
  /\ dropped \in [Sessions -> SUBSET Ids]

(* Where a snapshot of session s may come from: its fields were stated by  *)
(* the guest of s, its reservation was stored by s or named by that guest. *)
FromGuest(s, x) ==
  x # None => /\ x.known \subseteq heard[s]
              /\ x.rid \in Ids => x.rid \in booked[s] \cup told[s]

(* No session ever works with what another session's guest said or booked, *)
(* on whatever process, from whatever checkpoint a fault has left.         *)
Provenance ==
  /\ \A p \in Procs, s \in Sessions : FromGuest(s, disk[p][s])
  /\ \A p \in Procs : Busy(p) =>
       \A x \in turn[p].kept \cup {turn[p].cur} : FromGuest(turn[p].s, x)

(* The inductive invariant.                                                *)
IInv == TypeOK /\ Provenance

(* The agent implements the booking desk: it books only what the session's *)
(* guest has said in full, and cancels only what is that guest's.          *)
Desk == INSTANCE BookingDesk
DeskSpec == Desk!Spec

(* A telephone call stores at most one reservation, although the booking   *)
(* data stay complete for the rest of the session: the reply to a booking  *)
(* ends the call.                                                          *)
CallBooksOnce == \A s \in Voice : Cardinality(booked[s]) <= 1

(* A session's data accumulate (tests/TEST_CASES.md:714) as far as the     *)
(* code lets them.  An answered turn leaves a checkpoint with every field  *)
(* it owes its guest.  A turn that raises or dies at any point leaves one  *)
(* that lost no field unless the turn was given an empty value for it or   *)
(* could not read the checkpoint.  Only a new container in the place of a  *)
(* dead one loses more.                                                    *)
FieldsKept ==
  [][\A p \in Procs, s \in Sessions :
       /\ TurnEnd(p) /\ turn[p].s = s => turn[p].owed \subseteq disk'[p][s].known
       /\ disk[p][s] # None /\ disk'[p][s] # disk[p][s] =>
            \/ /\ turn[p].s = s /\ disk'[p][s] # None
               /\ turn[p].spared \subseteq disk'[p][s].known
            \/ turn[p].pc = "down" /\ disk'[p] = [z \in Sessions |-> None]]_vars

(* graph.py:333, the supervisor goes on with a prior intent while its data *)
(* are incomplete: a reservation is stored in a turn whose message asked   *)
(* for one or completed the data of one.                                   *)
BooksWhenAsked ==
  [][\A p \in Procs :
       (turn[p].pc = "agent" /\ turn'[p].reply = "booked") => turn[p].asked]_vars

(* A session that is asking for fields.                                    *)
Collecting(s) ==
  /\ ~over[s]
  /\ \E p \in Procs : disk[p][s] # None /\ disk[p][s].intent = "make"
                      /\ disk[p][s].known # Fields

(* A turn starts without a field that the checkpoint holds.                *)
Forgets(p) ==
  \E s \in Sessions : /\ turn'[p].pc = "agent" /\ turn'[p].s = s /\ disk[p][s] # None
                      /\ ~(disk[p][s].known \subseteq turn'[p].spared)

(* The clarification loop ends: a guest who goes on answering the question *)
(* asked is not asked for ever, if at some time turns stop failing and the *)
(* model stops answering with empty values.                                *)
CollectingEnds ==
  <>[][\A p \in Procs : ~TurnRaises(p) /\ ~Crash(p) /\ ~Forgets(p)]_vars
    => \A s \in Sessions : Collecting(s) ~> ~Collecting(s)
=============================================================================
