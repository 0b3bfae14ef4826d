---------------------- MODULE AgentConversation_proofs ----------------------
(***************************************************************************)
(* Proofs about AgentConversation, for any sessions, processes, fields and *)
(* ids, and whatever kinds of fault may happen.                            *)
(***************************************************************************)
EXTENDS AgentConversation, FiniteSetTheorems, TLAPS

LEMMA TypeInit == Init => TypeOK
BY ConstantsAssumption DEF Init, TypeOK, Idle, Quiet, Turn, Replies

LEMMA QuietTyped ==
  ASSUME NEW pc \in {"down", "idle"}
  PROVE  Quiet(pc) \in Turn /\ Quiet(pc).pc = pc
BY DEF Quiet, Turn, Replies

(* Merging keeps the intent, lays the data over the fields and may         *)
(* overwrite the id.                                                       *)
LEMMA MergeTyped ==
  ASSUME NEW x \in Snapshot, NEW d \in Data
  PROVE  /\ Merge(x, d) \in Snapshot
         /\ Merge(x, d).intent = x.intent
         /\ Merge(x, d).known = (x.known \ d.lost) \cup d.known
         /\ Merge(x, d).rid \in {x.rid, d.rid}
<1>1. d.known \in SUBSET Fields /\ d.lost \in SUBSET Fields /\ d.rid \in Rid
  BY DEF Data
<1> QED
  BY <1>1 DEF Merge, Snapshot

LEMMA SuperviseTyped ==
  ASSUME NEW x \in Snapshot, NEW m \in Message
  PROVE  /\ m.data \in Data
         /\ Supervise(x, m) \in Snapshot
         /\ Supervise(x, m).known = (x.known \ m.data.lost) \cup m.data.known
         /\ Supervise(x, m).rid \in {x.rid, m.data.rid}
<1>1. m.data \in Data /\ m.intent \in Intent
  BY ConstantsAssumption DEF Message
<1>2. /\ Merge(x, m.data) \in Snapshot
      /\ Merge(x, m.data).known = (x.known \ m.data.lost) \cup m.data.known
      /\ Merge(x, m.data).rid \in {x.rid, m.data.rid}
  BY <1>1, MergeTyped
<1>3. x.intent \in Intent
  BY DEF Snapshot
<1>4. PICK y \in Snapshot : y = Merge(x, m.data)
  BY <1>2
<1>5. PICK i \in Intent : Supervise(x, m) = [y EXCEPT !.intent = i]
  BY <1>1, <1>3, <1>4 DEF Supervise
<1>6. [y EXCEPT !.intent = i] \in Snapshot
  BY DEF Snapshot
<1>7. Supervise(x, m).known = y.known /\ Supervise(x, m).rid = y.rid
  BY <1>5 DEF Snapshot
<1> QED
  BY <1>1, <1>2, <1>4, <1>5, <1>6, <1>7

LEMMA GivenTyped ==
  ASSUME NEW given \in Given
  PROVE  given \in Data /\ given.known \in SUBSET Fields /\ given.lost \in SUBSET Fields
<1>1. given \in Data
  BY ConstantsAssumption
<1> QED
  BY <1>1 DEF Data

(* The context of a turn comes from the checkpoint of its own session.     *)
LEMMA ContextTyped ==
  ASSUME TypeOK, NEW p \in Procs, NEW s \in Sessions, NEW readable \in BOOLEAN,
         NEW given \in Given
  PROVE  /\ Context(p, s, readable, given) \in Snapshot
         /\ \/ /\ ~(readable /\ disk[p][s] # None)
               /\ Context(p, s, readable, given).known = given.known
               /\ Context(p, s, readable, given).rid \in {None, given.rid}
            \/ /\ readable /\ disk[p][s] # None
               /\ Context(p, s, readable, given).known
                    = (disk[p][s].known \ given.lost) \cup given.known
               /\ Context(p, s, readable, given).rid \in {disk[p][s].rid, given.rid}
<1>1. First \in Snapshot /\ First.known = {} /\ First.rid = None
  BY DEF Snapshot, Intent, Named, Rid, First
<1>2. given \in Data
  BY GivenTyped
<1>3. CASE readable /\ disk[p][s] # None
  <2>1. PICK x \in Snapshot : x = disk[p][s]
    BY <1>3 DEF TypeOK
  <2>2. Context(p, s, readable, given) = Merge(x, given)
    BY <1>3, <2>1 DEF Context
  <2> QED
    BY <1>2, <1>3, <2>1, <2>2, MergeTyped
<1>4. CASE ~(readable /\ disk[p][s] # None)
  <2>1. Context(p, s, readable, given) = Merge(First, given)
    BY <1>4 DEF Context
  <2>2. /\ Merge(First, given) \in Snapshot
        /\ Merge(First, given).known = ({} \ given.lost) \cup given.known
        /\ Merge(First, given).rid \in {None, given.rid}
    BY <1>1, <1>2, MergeTyped
  <2> QED
    BY <1>4, <2>1, <2>2
<1> QED
  BY <1>3, <1>4

LEMMA BusyTyped ==
  ASSUME NEW t \in Turn, t.pc \in {"agent", "end"}
  PROVE  /\ t.s \in Sessions /\ t.cur \in Snapshot /\ t.kept \in SUBSET Snapshot
         /\ t.asked \in BOOLEAN /\ t.spared \in SUBSET Fields /\ t.owed \in SUBSET Fields
BY DEF Turn

LEMMA AnswerTyped ==
  ASSUME TypeOK, NEW p \in Procs, turn[p].pc = "agent", NEW reply \in Replies,
         NEW rid \in Rid, Answer(p, reply, rid)
  PROVE  /\ turn' \in [Procs -> Turn]
         /\ turn'[p].pc = "end" /\ turn'[p].s = turn[p].s /\ turn'[p].kept = turn[p].kept
         /\ turn'[p].spared = turn[p].spared /\ turn'[p].owed = turn[p].owed
         /\ turn'[p].cur.known = turn[p].cur.known /\ turn'[p].cur.rid = rid
         /\ turn'[p].reply = reply
         /\ \A q \in Procs : q # p => turn'[q] = turn[q]
<1>1. turn[p] \in Turn
  BY DEF TypeOK
<1>2. turn[p].s \in Sessions /\ turn[p].cur \in Snapshot /\ turn[p].kept \in SUBSET Snapshot
      /\ turn[p].asked \in BOOLEAN
  BY <1>1, BusyTyped
<1> DEFINE cur == [turn[p].cur EXCEPT !.rid = rid]
           new == [turn[p] EXCEPT !.pc = "end", !.reply = reply, !.cur = cur]
<1>3. cur \in Snapshot /\ cur.known = turn[p].cur.known /\ cur.rid = rid
  BY <1>2 DEF Snapshot
<1>4. /\ new \in [pc : {"down", "idle", "agent", "end"}, s : Sessions \cup {None},
                 cur : Snapshot \cup {None}, kept : SUBSET Snapshot,
                 asked : BOOLEAN, spared : SUBSET Fields, owed : SUBSET Fields,
                 reply : Replies]
      /\ new.pc = "end" /\ new.s = turn[p].s /\ new.kept = turn[p].kept /\ new.cur = cur
      /\ new.spared = turn[p].spared /\ new.owed = turn[p].owed /\ new.reply = reply
  <2>1. turn[p] \in [pc : {"down", "idle", "agent", "end"}, s : Sessions \cup {None},
                     cur : Snapshot \cup {None}, kept : SUBSET Snapshot,
                     asked : BOOLEAN, spared : SUBSET Fields, owed : SUBSET Fields,
                     reply : Replies]
    BY <1>1 DEF Turn
  <2> QED
    BY <1>3, <2>1
<1>5. new \in Turn
  BY <1>2, <1>3, <1>4 DEF Turn
<1>6. turn' = [turn EXCEPT ![p] = new]
  BY <1>1 DEF Answer, TypeOK, Turn
<1> QED
  BY <1>3, <1>4, <1>5, <1>6 DEF TypeOK

(* What the step of a sub-agent can do to the table and to the turn.       *)
LEMMA AgentDoes ==
  ASSUME TypeOK, NEW p \in Procs, AgentStep(p)
  PROVE  /\ turn[p].pc = "agent"
         /\ UNCHANGED untouched
         /\ \E reply \in Replies, rid \in Rid :
              /\ Answer(p, reply, rid)
              /\ \/ /\ UNCHANGED <<rows, booked, dropped>>
                    /\ rid \in {turn[p].cur.rid, Stray}
                 \/ \E id \in Ids : /\ ~Exists(id) /\ Complete(p)
                                    /\ Stores(p, id) /\ UNCHANGED dropped
                                    /\ rid \in {id, Stray} /\ reply = "booked"
                 \/ /\ Exists(turn[p].cur.rid) /\ Drops(p, turn[p].cur.rid)
                    /\ UNCHANGED booked
                    /\ rid = turn[p].cur.rid
<1> USE DEF untouched, Routed, Says
<1>1. turn[p].pc = "agent"
  BY DEF AgentStep, ReservationAsks, ReservationBooks, ReservationInvents, AsksWhich,
         CancellationCancels, CancellationPromises, QueryFinds, QueryReassures, Clarify
<1>2. turn[p].cur.rid \in Rid
  BY <1>1 DEF TypeOK, Turn, Snapshot
<1>3. CASE \E id \in Ids : ReservationBooks(p, id) \/ ReservationInvents(p, id)
  BY <1>1, <1>2, <1>3 DEF ReservationBooks, ReservationInvents, Replies, Rid
<1>4. CASE CancellationCancels(p)
  BY <1>1, <1>2, <1>4 DEF CancellationCancels, Replies
<1>5. CASE CancellationPromises(p)
  BY <1>1, <1>2, <1>5 DEF CancellationPromises, Replies
<1>6. CASE ReservationAsks(p) \/ AsksWhich(p) \/ QueryFinds(p) \/ QueryReassures(p) \/ Clarify(p)
  BY <1>1, <1>2, <1>6
  DEF ReservationAsks, AsksWhich, QueryFinds, QueryReassures, Clarify, Replies
<1> QED
  BY <1>3, <1>4, <1>5, <1>6 DEF AgentStep

(* Every action, the sub-agents' summed up in AgentStep.                   *)
LEMMA NextCases ==
  ASSUME [Next]_vars
  PROVE  \/ \E p \in Procs :
              \/ \E s \in Sessions, m \in Message, readable \in BOOLEAN,
                    given \in Given : TurnStart(p, s, m, readable, given)
              \/ AgentStep(p) \/ TurnEnd(p) \/ TurnRaises(p) \/ Crash(p)
              \/ \E wiped \in BOOLEAN : Restart(p, wiped)
              \/ \E id \in Ids, status \in Status : StaffWrites(p, id, status)
         \/ UNCHANGED vars
BY DEF Next

(* The new turn, the context it starts from and the supervisor's update.   *)
LEMMA StartDoes ==
  ASSUME TypeOK, NEW p \in Procs, NEW s \in Sessions, NEW m \in Message,
         NEW readable \in BOOLEAN, NEW given \in Given,
         TurnStart(p, s, m, readable, given)
  PROVE  \E context \in Snapshot, routed \in Snapshot :
           /\ turn' \in [Procs -> Turn]
           /\ turn'[p].s = s /\ turn'[p].cur = routed /\ turn'[p].kept = {context, routed}
           /\ turn'[p].spared = Spared(p, s, m, readable, given)
           /\ turn'[p].owed = Owed(p, s, m, readable, given)
           /\ \A q \in Procs : q # p => turn'[q] = turn[q]
           /\ context = Context(p, s, readable, given)
           /\ routed = Supervise(context, m)
<1> DEFINE context == Context(p, s, readable, given)
           routed == Supervise(context, m)
           asked == "make" \in {m.kw, m.intent}
                    \/ ~(given.known \cup m.data.known
                          \subseteq Context(p, s, readable, Nothing).known)
           spared == Spared(p, s, m, readable, given)
           owed == Owed(p, s, m, readable, given)
           new == [pc |-> "agent", s |-> s, cur |-> routed, kept |-> {context, routed},
                   asked |-> asked, spared |-> spared, owed |-> owed, reply |-> "none"]
<1>1. context \in Snapshot
  BY ContextTyped
<1>2. routed \in Snapshot
  BY <1>1, SuperviseTyped
<1>3. asked \in BOOLEAN
  OBVIOUS
<1>a. spared \in SUBSET Fields /\ owed \in SUBSET Fields
  <2>1. m.data \in Data
    BY <1>1, SuperviseTyped
  <2> QED
    BY <2>1, GivenTyped DEF Spared, Owed, Data
<1> HIDE DEF context, routed, asked, spared, owed
<1>4. new \in Turn
  BY <1>1, <1>2, <1>3, <1>a DEF Turn, Replies
<1>5. turn' = [turn EXCEPT ![p] = new]
  BY DEF TurnStart, context, routed, asked, spared, owed
<1>6. turn' \in [Procs -> Turn] /\ turn'[p] = new
      /\ \A q \in Procs : q # p => turn'[q] = turn[q]
  BY <1>4, <1>5 DEF TypeOK
<1>7. /\ context = Context(p, s, readable, given) /\ routed = Supervise(context, m)
      /\ spared = Spared(p, s, m, readable, given) /\ owed = Owed(p, s, m, readable, given)
  BY DEF context, routed, spared, owed
<1> QED
  BY <1>1, <1>2, <1>6, <1>7

(* What a turn that dies may leave.                                        *)
LEMMA LeftTyped ==
  ASSUME TypeOK, NEW p \in Procs, Busy(p)
  PROVE  Left(p) \subseteq Snapshot \cup {None} /\ turn[p].s \in Sessions
         /\ Left(p) \subseteq {disk[p][turn[p].s]} \cup turn[p].kept \cup {turn[p].cur}
<1>1. turn[p] \in Turn
  BY DEF TypeOK
<1>2. turn[p].s \in Sessions /\ turn[p].cur \in Snapshot /\ turn[p].kept \in SUBSET Snapshot
  BY <1>1, BusyTyped DEF Busy
<1>3. disk[p][turn[p].s] \in Snapshot \cup {None}
  BY <1>2 DEF TypeOK
<1> QED
  BY <1>2, <1>3 DEF Left

LEMMA TypeNext == TypeOK /\ [Next]_vars => TypeOK'
<1> SUFFICES ASSUME TypeOK, [Next]_vars PROVE TypeOK'
  OBVIOUS
<1>1. ASSUME NEW p \in Procs, NEW s \in Sessions, NEW m \in Message,
             NEW readable \in BOOLEAN, NEW given \in Given,
             TurnStart(p, s, m, readable, given)
      PROVE  TypeOK'
  <2>1. turn' \in [Procs -> Turn]
    BY <1>1, StartDoes
  <2>2. m.data.known \in SUBSET Fields /\ given.known \in SUBSET Fields
    BY ConstantsAssumption, GivenTyped DEF Message, Data
  <2>3. Names(m, given) \in SUBSET Ids
    BY DEF Names
  <2> QED
    BY <1>1, <2>1, <2>2, <2>3 DEF TypeOK, TurnStart
<1>2. ASSUME NEW p \in Procs, AgentStep(p) PROVE TypeOK'
  <2>1. turn[p].pc = "agent" /\ UNCHANGED untouched
    BY <1>2, AgentDoes
  <2>2. turn[p].s \in Sessions
    BY <2>1 DEF TypeOK, Turn
  <2>3. turn' \in [Procs -> Turn]
    BY <1>2, <2>1, AgentDoes, AnswerTyped
  <2>4. \/ UNCHANGED <<rows, booked, dropped>>
        \/ \E id \in Ids : Stores(p, id) /\ UNCHANGED dropped
        \/ Exists(turn[p].cur.rid) /\ Drops(p, turn[p].cur.rid) /\ UNCHANGED booked
    BY <1>2, AgentDoes
  <2>5. /\ rows' \in [Ids -> Status \cup {None}]
        /\ booked' \in [Sessions -> SUBSET Ids]
        /\ dropped' \in [Sessions -> SUBSET Ids]
    <3>1. CASE UNCHANGED <<rows, booked, dropped>>
      BY <3>1 DEF TypeOK
    <3>2. CASE \E id \in Ids : Stores(p, id) /\ UNCHANGED dropped
      BY <2>2, <3>2 DEF TypeOK, Stores, Status
    <3>3. CASE Exists(turn[p].cur.rid) /\ Drops(p, turn[p].cur.rid) /\ UNCHANGED booked
      BY <2>2, <3>3 DEF TypeOK, Drops, Status, Exists
    <3> QED
      BY <2>4, <3>1, <3>2, <3>3
  <2> QED
    BY <2>1, <2>3, <2>5 DEF TypeOK, untouched
<1>3. ASSUME NEW p \in Procs, TurnEnd(p) PROVE TypeOK'
  <2>1. turn[p].s \in Sessions /\ turn[p].cur \in Snapshot
    BY <1>3, BusyTyped DEF TypeOK, TurnEnd
  <2>2. turn' \in [Procs -> Turn]
    BY <1>3, QuietTyped DEF TypeOK, TurnEnd, Idle
  <2>3. over' \in [Sessions -> BOOLEAN]
    BY <1>3, <2>1 DEF TypeOK, TurnEnd, HangsUp
  <2> QED
    BY <1>3, <2>1, <2>2, <2>3 DEF TypeOK, TurnEnd
<1>4. ASSUME NEW p \in Procs, TurnRaises(p) \/ Crash(p) PROVE TypeOK'
  <2>1. turn' \in [Procs -> Turn]
    BY <1>4, QuietTyped DEF TypeOK, TurnRaises, Crash, Idle, Down
  <2>2. disk' \in [Procs -> [Sessions -> Snapshot \cup {None}]]
    <3>1. CASE disk' = disk
      BY <3>1 DEF TypeOK
    <3>2. CASE Busy(p) /\ \E x \in Left(p) : disk' = [disk EXCEPT ![p][turn[p].s] = x]
      BY <3>2, LeftTyped DEF TypeOK
    <3> QED
      BY <1>4, <3>1, <3>2 DEF TurnRaises, Crash
  <2>3. over' \in [Sessions -> BOOLEAN]
    <3>1. CASE Busy(p)
      <4>1. over' = [over EXCEPT ![turn[p].s] = turn[p].s \in Voice]
        BY <1>4, <3>1 DEF TurnRaises, Crash, CutShort
      <4>2. turn[p].s \in Sessions
        BY <3>1, LeftTyped
      <4> QED
        BY <4>1, <4>2 DEF TypeOK
    <3>2. CASE ~Busy(p)
      BY <1>4, <3>2 DEF TypeOK, TurnRaises, Crash, CutShort
    <3> QED
      BY <3>1, <3>2
  <2> QED
    BY <1>4, <2>1, <2>2, <2>3 DEF TypeOK, TurnRaises, Crash
<1>5. ASSUME NEW p \in Procs, NEW wiped \in BOOLEAN, Restart(p, wiped) PROVE TypeOK'
  <2>1. turn' \in [Procs -> Turn]
    BY <1>5, QuietTyped DEF TypeOK, Restart, Idle
  <2>2. disk' \in [Procs -> [Sessions -> Snapshot \cup {None}]]
    BY <1>5 DEF TypeOK, Restart
  <2> QED
    BY <1>5, <2>1, <2>2 DEF TypeOK, Restart
<1>6. ASSUME NEW p \in Procs, NEW id \in Ids, NEW status \in Status,
             StaffWrites(p, id, status)
      PROVE  TypeOK'
  BY <1>6 DEF TypeOK, StaffWrites
<1>7. CASE UNCHANGED vars
  BY <1>7 DEF TypeOK, vars
<1> QED
  BY <1>1, <1>2, <1>3, <1>4, <1>5, <1>6, <1>7, NextCases

(* Every reachable state is well typed.                                    *)
THEOREM TypeCorrect == Spec => []TypeOK
BY TypeInit, TypeNext, PTL DEF Spec

------------------------------------------------------------------------------
(* Provenance.                                                             *)

(* What a guest has said and a session has booked is never forgotten, so a *)
(* snapshot keeps its provenance.                                          *)
LEMMA Grows ==
  ASSUME TypeOK, [Next]_vars, NEW s \in Sessions
  PROVE  /\ heard[s] \subseteq heard'[s]
         /\ told[s] \subseteq told'[s]
         /\ booked[s] \subseteq booked'[s]
<1> DEFINE G == /\ heard[s] \subseteq heard'[s]
                /\ told[s] \subseteq told'[s]
                /\ booked[s] \subseteq booked'[s]
<1>1. ASSUME NEW p \in Procs, NEW z \in Sessions, NEW m \in Message,
             NEW readable \in BOOLEAN, NEW given \in Given,
             TurnStart(p, z, m, readable, given)
      PROVE  G
  BY <1>1 DEF TypeOK, TurnStart
<1>2. ASSUME NEW p \in Procs, AgentStep(p) PROVE G
  <2>1. UNCHANGED untouched /\ (UNCHANGED booked \/ \E id \in Ids : Stores(p, id))
    BY <1>2, AgentDoes
  <2> QED
    BY <2>1 DEF TypeOK, Stores, untouched
<1>3. CASE UNCHANGED <<heard, told, booked>>
  BY <1>3
<1> QED
  BY <1>1, <1>2, <1>3, NextCases
  DEF TurnEnd, TurnRaises, Crash, Restart, StaffWrites, vars

LEMMA GuestStays ==
  ASSUME TypeOK, [Next]_vars, NEW s \in Sessions, NEW x, FromGuest(s, x)
  PROVE  FromGuest(s, x)'
BY Grows DEF FromGuest

LEMMA ProvenanceInit == Init => Provenance
BY DEF Init, Provenance, FromGuest, Busy, Idle, Quiet

(* The snapshots of a new turn come from the checkpoint and the message.   *)
LEMMA StartFromGuest ==
  ASSUME TypeOK, Provenance, NEW p \in Procs, NEW s \in Sessions, NEW m \in Message,
         NEW readable \in BOOLEAN, NEW given \in Given,
         TurnStart(p, s, m, readable, given),
         NEW context \in Snapshot, context = Context(p, s, readable, given),
         NEW routed \in Snapshot, routed = Supervise(context, m)
  PROVE  FromGuest(s, context)' /\ FromGuest(s, routed)'
<1>1. /\ heard'[s] = heard[s] \cup given.known \cup m.data.known
      /\ told'[s] = told[s] \cup Names(m, given)
      /\ booked' = booked
  BY DEF TypeOK, TurnStart
<1>2. disk[p][s] # None
      => /\ disk[p][s].known \subseteq heard[s]
         /\ disk[p][s].rid \in Ids => disk[p][s].rid \in booked[s] \cup told[s]
  BY DEF Provenance, FromGuest
<1>3. /\ context.known \subseteq heard[s] \cup given.known
      /\ context.rid \in Ids => context.rid \in booked[s] \cup told[s] \cup {given.rid}
  BY <1>2, ContextTyped, ConstantsAssumption
<1>4. /\ routed.known \subseteq heard[s] \cup given.known \cup m.data.known
      /\ routed.rid \in {context.rid, m.data.rid}
  BY <1>3, SuperviseTyped
<1> QED
  BY <1>1, <1>3, <1>4 DEF FromGuest, Names

LEMMA ProvenanceNext ==
  ASSUME TypeOK, TypeOK', Provenance, [Next]_vars
  PROVE  Provenance'
<1>a. ASSUME \A q \in Procs, s \in Sessions :
               \/ disk'[q][s] = disk[q][s] \/ disk'[q][s] = None
               \/ Busy(q) /\ s = turn[q].s
                  /\ disk'[q][s] \in {disk[q][s]} \cup turn[q].kept \cup {turn[q].cur}
      PROVE  \A q \in Procs, s \in Sessions : FromGuest(s, disk[q][s])'
  <2> SUFFICES ASSUME NEW q \in Procs, NEW s \in Sessions PROVE FromGuest(s, disk[q][s])'
    OBVIOUS
  <2>1. PICK y : y = disk'[q][s]
    OBVIOUS
  <2>2. FromGuest(s, y) \/ y = None
    BY <1>a, <2>1 DEF Provenance
  <2>3. FromGuest(s, y)'
    BY <2>2, GuestStays DEF FromGuest
  <2> QED
    BY <2>1, <2>3 DEF FromGuest
<1>b. ASSUME NEW q \in Procs, turn'[q] = turn[q], Busy(q),
             NEW x \in turn'[q].kept \cup {turn'[q].cur}
      PROVE  \E s \in Sessions : s = turn'[q].s /\ FromGuest(s, x)'
  <2>1. PICK s \in Sessions : s = turn[q].s
    BY <1>b, BusyTyped DEF TypeOK, Busy
  <2>2. FromGuest(s, x)
    BY <1>b, <2>1 DEF Provenance
  <2> QED
    BY <1>b, <2>1, <2>2, GuestStays
<1>c. ASSUME \A q \in Procs : turn'[q] = turn[q] \/ turn'[q].pc \in {"idle", "down"},
             \A q \in Procs, s \in Sessions : FromGuest(s, disk[q][s])'
      PROVE  Provenance'
  <2>1. ASSUME NEW q \in Procs, Busy(q)', NEW x \in turn'[q].kept \cup {turn'[q].cur}
        PROVE  FromGuest(turn[q].s, x)'
    <3>1. turn'[q] = turn[q] /\ Busy(q)
      BY <1>c, <2>1 DEF Busy
    <3>2. PICK s \in Sessions : s = turn'[q].s /\ FromGuest(s, x)'
      BY <1>b, <2>1, <3>1
    <3> QED
      BY <3>2 DEF FromGuest
  <2> QED
    BY <1>c, <2>1 DEF Provenance, Busy
<1>1. ASSUME NEW p \in Procs, NEW s \in Sessions, NEW m \in Message,
             NEW readable \in BOOLEAN, NEW given \in Given,
             TurnStart(p, s, m, readable, given)
      PROVE  Provenance'
  <2>1. PICK context \in Snapshot, routed \in Snapshot :
          /\ turn'[p].s = s /\ turn'[p].cur = routed /\ turn'[p].kept = {context, routed}
          /\ \A q \in Procs : q # p => turn'[q] = turn[q]
          /\ context = Context(p, s, readable, given)
          /\ routed = Supervise(context, m)
    BY <1>1, StartDoes
  <2>2. FromGuest(s, context)' /\ FromGuest(s, routed)'
    BY <1>1, <2>1, StartFromGuest
  <2>3. disk' = disk
    BY <1>1 DEF TurnStart
  <2>4. \A q \in Procs, z \in Sessions : FromGuest(z, disk[q][z])'
    BY <2>3, <1>a
  <2>5. ASSUME NEW q \in Procs, Busy(q)', NEW x \in turn'[q].kept \cup {turn'[q].cur}
        PROVE  FromGuest(turn[q].s, x)'
    <3>1. CASE q = p
      BY <2>1, <2>2, <2>5, <3>1 DEF FromGuest
    <3>2. CASE q # p
      <4>1. turn'[q] = turn[q] /\ Busy(q)
        BY <2>1, <2>5, <3>2 DEF Busy
      <4>2. PICK z \in Sessions : z = turn'[q].s /\ FromGuest(z, x)'
        BY <1>b, <2>5, <4>1
      <4> QED
        BY <4>2 DEF FromGuest
    <3> QED
      BY <3>1, <3>2
  <2> QED
    BY <2>4, <2>5 DEF Provenance, Busy
<1>2. ASSUME NEW p \in Procs, AgentStep(p) PROVE Provenance'
  <2>1. turn[p].pc = "agent" /\ disk' = disk /\ Busy(p)
    BY <1>2, AgentDoes DEF untouched, Busy
  <2>2. PICK reply \in Replies, rid \in Rid :
          /\ Answer(p, reply, rid)
          /\ \/ rid \in {turn[p].cur.rid, Stray}
             \/ \E id \in Ids : Stores(p, id) /\ rid = id
    BY <1>2, AgentDoes
  <2>3. /\ turn'[p].s = turn[p].s /\ turn'[p].kept = turn[p].kept
        /\ turn'[p].cur.known = turn[p].cur.known /\ turn'[p].cur.rid = rid
        /\ \A q \in Procs : q # p => turn'[q] = turn[q]
    BY <2>1, <2>2, AnswerTyped
  <2>4. \A q \in Procs, z \in Sessions : FromGuest(z, disk[q][z])'
    BY <2>1, <1>a
  <2>5. PICK s \in Sessions : s = turn[p].s
    BY <2>1, BusyTyped DEF TypeOK
  <2>6. FromGuest(s, turn[p].cur) /\ turn[p].cur \in Snapshot
    BY <2>1, <2>5, BusyTyped DEF Provenance, TypeOK
  <2>7. turn[p].cur.known \subseteq heard'[s] /\ (rid \in Ids => rid \in booked'[s] \cup told'[s])
    <3>1. /\ turn[p].cur.known \subseteq heard[s]
          /\ turn[p].cur.rid \in Ids => turn[p].cur.rid \in booked[s] \cup told[s]
      BY <2>6, ConstantsAssumption DEF FromGuest
    <3>2. CASE rid \in {turn[p].cur.rid, Stray}
      BY <3>1, <3>2, Grows, ConstantsAssumption
    <3>3. CASE \E id \in Ids : Stores(p, id) /\ rid = id
      BY <2>5, <3>1, <3>3, Grows DEF Stores, TypeOK
    <3> QED
      BY <2>2, <3>2, <3>3
  <2>8. ASSUME NEW q \in Procs, Busy(q)', NEW x \in turn'[q].kept \cup {turn'[q].cur}
        PROVE  FromGuest(turn[q].s, x)'
    <3>1. CASE q = p /\ x = turn'[q].cur
      BY <2>3, <2>5, <2>7, <3>1 DEF FromGuest
    <3>2. CASE q = p /\ x \in turn'[q].kept
      <4>1. FromGuest(s, x)
        BY <2>1, <2>3, <2>5, <3>2 DEF Provenance
      <4> QED
        BY <2>3, <2>5, <3>2, <4>1, GuestStays DEF FromGuest
    <3>3. CASE q # p
      <4>1. turn'[q] = turn[q] /\ Busy(q)
        BY <2>3, <2>8, <3>3 DEF Busy
      <4>2. PICK z \in Sessions : z = turn'[q].s /\ FromGuest(z, x)'
        BY <1>b, <2>8, <4>1
      <4> QED
        BY <4>2 DEF FromGuest
    <3> QED
      BY <2>8, <3>1, <3>2, <3>3
  <2> QED
    BY <2>4, <2>8 DEF Provenance, Busy
<1>3. ASSUME NEW p \in Procs, TurnEnd(p) \/ TurnRaises(p) \/ Crash(p) PROVE Provenance'
  <2>1. \A q \in Procs : turn'[q] = turn[q] \/ turn'[q].pc \in {"idle", "down"}
    BY <1>3 DEF TypeOK, TurnEnd, TurnRaises, Crash, Idle, Down, Quiet
  <2>2. \/ disk' = disk
        \/ /\ Busy(p)
           /\ \E y \in {disk[p][turn[p].s]} \cup turn[p].kept \cup {turn[p].cur} :
                disk' = [disk EXCEPT ![p][turn[p].s] = y]
    BY <1>3, LeftTyped DEF TurnEnd, TurnRaises, Crash, Busy
  <2>3. \A q \in Procs, s \in Sessions :
               \/ disk'[q][s] = disk[q][s] \/ disk'[q][s] = None
               \/ Busy(q) /\ s = turn[q].s
                  /\ disk'[q][s] \in {disk[q][s]} \cup turn[q].kept \cup {turn[q].cur}
    <3>1. CASE disk' = disk
      BY <3>1
    <3>2. CASE disk' # disk
      <4>1. Busy(p)
        BY <2>2, <3>2
      <4>2. PICK z \in Sessions : z = turn[p].s
        BY <4>1, LeftTyped
      <4>3. PICK y \in {disk[p][z]} \cup turn[p].kept \cup {turn[p].cur} :
              disk' = [disk EXCEPT ![p][z] = y]
        BY <2>2, <3>2, <4>2
      <4>4. disk'[p][z] = y
            /\ \A q \in Procs, s \in Sessions : q # p \/ s # z => disk'[q][s] = disk[q][s]
        BY <4>2, <4>3 DEF TypeOK
      <4> QED
        BY <4>1, <4>2, <4>3, <4>4
    <3> QED
      BY <3>1, <3>2
  <2> QED
    BY <2>1, <2>3, <1>a, <1>c
<1>4. ASSUME NEW p \in Procs, NEW wiped \in BOOLEAN, Restart(p, wiped) PROVE Provenance'
  <2>1. \A q \in Procs : turn'[q] = turn[q] \/ turn'[q].pc \in {"idle", "down"}
    BY <1>4 DEF TypeOK, Restart, Idle, Quiet
  <2>2. \A q \in Procs, s \in Sessions : disk'[q][s] = disk[q][s] \/ disk'[q][s] = None
    BY <1>4 DEF TypeOK, Restart
  <2> QED
    BY <2>1, <2>2, <1>a, <1>c
<1>5. ASSUME turn' = turn, disk' = disk PROVE Provenance'
  BY <1>5, <1>a, <1>c
<1> QED
  BY <1>1, <1>2, <1>3, <1>4, <1>5, NextCases DEF StaffWrites, vars

(* In every reachable state all variables have their types, and no session *)
(* works with what another one said or booked.                             *)
THEOREM Invariance == Spec => []IInv
<1>1. Init => IInv
  BY TypeInit, ProvenanceInit DEF IInv
<1>2. IInv /\ [Next]_vars => IInv'
  BY TypeNext, ProvenanceNext DEF IInv
<1> QED
  BY <1>1, <1>2, PTL DEF Spec

(* No session works with what another session's guest said or booked.      *)
THEOREM SessionsApart == Spec => []Provenance
<1>1. IInv => Provenance
  BY DEF IInv
<1> QED
  BY <1>1, Invariance, PTL

------------------------------------------------------------------------------
(* The refinement: every step is a step of the booking desk or none of its *)
(* business.                                                               *)

LEMMA DeskNext ==
  ASSUME IInv, [Next]_vars
  PROVE  [Desk!Next]_(Desk!deskVars)
<1> USE DEF IInv
<1>1. ASSUME NEW p \in Procs, NEW s \in Sessions, NEW m \in Message,
             NEW readable \in BOOLEAN, NEW given \in Given,
             TurnStart(p, s, m, readable, given)
      PROVE  Desk!Listen(s)
  <2>1. given.known \cup m.data.known \in SUBSET Fields /\ Names(m, given) \in SUBSET Ids
    BY ConstantsAssumption, GivenTyped DEF Message, Data, Names
  <2>2. /\ heard' = [heard EXCEPT ![s] = @ \cup (given.known \cup m.data.known)]
        /\ told' = [told EXCEPT ![s] = @ \cup Names(m, given)]
        /\ UNCHANGED <<rows, booked, dropped>>
    BY <1>1 DEF TurnStart, TypeOK
  <2> QED
    BY <2>1, <2>2 DEF Desk!Listen
<1>2. ASSUME NEW p \in Procs, AgentStep(p)
      PROVE  \/ UNCHANGED Desk!deskVars
             \/ \E s \in Sessions, id \in Ids : Desk!Book(s, id) \/ Desk!Cancel(s, id)
  <2>1. /\ turn[p].pc = "agent" /\ UNCHANGED <<heard, told>>
        /\ \/ UNCHANGED <<rows, booked, dropped>>
           \/ \E id \in Ids : ~Exists(id) /\ Complete(p) /\ Stores(p, id) /\ UNCHANGED dropped
           \/ Exists(turn[p].cur.rid) /\ Drops(p, turn[p].cur.rid) /\ UNCHANGED booked
    BY <1>2, AgentDoes DEF untouched
  <2>2. turn[p].s \in Sessions /\ turn[p].cur \in Snapshot /\ FromGuest(turn[p].s, turn[p].cur)
    BY <2>1, BusyTyped DEF TypeOK, Provenance, Busy
  <2>3. /\ turn[p].cur.known \subseteq heard[turn[p].s]
        /\ turn[p].cur.rid \in Ids
           => turn[p].cur.rid \in booked[turn[p].s] \cup told[turn[p].s]
    BY <2>2, ConstantsAssumption DEF FromGuest
  <2>4. CASE UNCHANGED <<rows, booked, dropped>>
    BY <2>1, <2>4 DEF Desk!deskVars
  <2>5. ASSUME NEW id \in Ids, ~Exists(id), Complete(p), Stores(p, id), UNCHANGED dropped
        PROVE  Desk!Book(turn[p].s, id)
    BY <2>1, <2>2, <2>3, <2>5 DEF Desk!Book, Stores, Exists, Complete, TypeOK
  <2>6. CASE Exists(turn[p].cur.rid) /\ Drops(p, turn[p].cur.rid) /\ UNCHANGED booked
    <3>1. Desk!Cancel(turn[p].s, turn[p].cur.rid)
      BY <2>1, <2>3, <2>6 DEF Desk!Cancel, Drops, Exists
    <3> QED
      BY <2>2, <2>6, <3>1 DEF Exists
  <2> QED
    BY <2>1, <2>2, <2>4, <2>5, <2>6
<1>3. ASSUME NEW p \in Procs, NEW id \in Ids, NEW status \in Status,
             StaffWrites(p, id, status)
      PROVE  Desk!Elsewhere(id)
  BY <1>3 DEF StaffWrites, Desk!Elsewhere
<1>4. ASSUME NEW p \in Procs,
             TurnEnd(p) \/ TurnRaises(p) \/ Crash(p) \/ \E wiped \in BOOLEAN : Restart(p, wiped)
      PROVE  UNCHANGED Desk!deskVars
  BY <1>4 DEF TurnEnd, TurnRaises, Crash, Restart, Desk!deskVars
<1>5. CASE UNCHANGED vars
  BY <1>5 DEF vars, Desk!deskVars
<1> QED
  BY <1>1, <1>2, <1>3, <1>4, <1>5, NextCases DEF Desk!Next

(* A booking is made of what its guest has said, all of it, and a session  *)
(* cancels only what it booked or its guest named.                         *)
THEOREM AgentKeepsTheDesk == Spec => DeskSpec
<1>1. Init => Desk!Init
  BY DEF Init, Desk!Init
<1>2. IInv /\ [Next]_vars => [Desk!Next]_(Desk!deskVars)
  BY DeskNext
<1> QED
  BY <1>1, <1>2, Invariance, PTL DEF Spec, DeskSpec, Desk!Spec

------------------------------------------------------------------------------
(* A call books once.                                                      *)

(* A session has one turn at a time, a call that is over has none, and one *)
(* that has booked is over or about to be.                                 *)
OnceInv ==
  /\ \A p, q \in Procs : Busy(p) /\ Busy(q) /\ turn[p].s = turn[q].s => p = q
  /\ \A p \in Procs : Busy(p) => ~over[turn[p].s]
  /\ \A s \in Voice : booked[s] = {} \/
       /\ \E id \in Ids : booked[s] = {id}
       /\ over[s] \/ \E p \in Procs : /\ turn[p].pc = "end" /\ turn[p].s = s
                                      /\ turn[p].reply = "booked"

LEMMA OnceInit == Init => OnceInv
BY ConstantsAssumption DEF Init, OnceInv, Busy, Idle, Quiet

LEMMA OnceStart ==
  ASSUME TypeOK, OnceInv, NEW p \in Procs, NEW s \in Sessions, NEW m \in Message,
         NEW readable \in BOOLEAN, NEW given \in Given,
         TurnStart(p, s, m, readable, given)
  PROVE  OnceInv'
<1>1. /\ turn'[p].s = s
      /\ \A q \in Procs : q # p => turn'[q] = turn[q]
  BY StartDoes
<1>2. /\ turn[p].pc = "idle" /\ ~over[s] /\ UNCHANGED <<over, booked>>
      /\ \A q \in Procs : turn[q].s # s
  BY DEF TurnStart
<1>3. \A q, r \in Procs : Busy(q)' /\ Busy(r)' /\ turn'[q].s = turn'[r].s => q = r
  BY <1>1, <1>2 DEF OnceInv, Busy
<1>4. \A q \in Procs : Busy(q)' => ~over'[turn'[q].s]
  BY <1>1, <1>2 DEF OnceInv, Busy
<1>5. \A q \in Procs : turn[q].pc = "end" => turn'[q] = turn[q]
  BY <1>1, <1>2
<1>6. \A z \in Voice : booked'[z] = {} \/
       /\ \E id \in Ids : booked'[z] = {id}
       /\ over'[z] \/ \E q \in Procs : /\ turn'[q].pc = "end" /\ turn'[q].s = z
                                       /\ turn'[q].reply = "booked"
  BY <1>2, <1>5 DEF OnceInv
<1> QED
  BY <1>3, <1>4, <1>6 DEF OnceInv

(* A call whose sub-agent is at work has not booked before.                *)
LEMMA OnceAgent ==
  ASSUME TypeOK, OnceInv, NEW p \in Procs, AgentStep(p)
  PROVE  OnceInv'
<1>1. turn[p].pc = "agent" /\ over' = over
  BY AgentDoes DEF untouched
<1>2. PICK reply \in Replies, rid \in Rid :
        /\ Answer(p, reply, rid)
        /\ \/ UNCHANGED booked
           \/ \E id \in Ids : Stores(p, id) /\ reply = "booked"
  BY AgentDoes
<1>3. /\ turn'[p].pc = "end" /\ turn'[p].s = turn[p].s /\ turn'[p].reply = reply
      /\ \A q \in Procs : q # p => turn'[q] = turn[q]
  BY <1>1, <1>2, AnswerTyped
<1>4. Busy(p) /\ turn[p].s \in Sessions
  BY <1>1, BusyTyped DEF TypeOK, Busy
<1>5. \A q \in Procs : (Busy(q)' <=> Busy(q)) /\ turn'[q].s = turn[q].s
  BY <1>3, <1>4 DEF Busy
<1>6. \A q, r \in Procs : Busy(q)' /\ Busy(r)' /\ turn'[q].s = turn'[r].s => q = r
  BY <1>5 DEF OnceInv
<1>7. \A q \in Procs : Busy(q)' => ~over'[turn'[q].s]
  BY <1>1, <1>5 DEF OnceInv
<1>8. ASSUME NEW z \in Voice
      PROVE  booked'[z] = {} \/
               /\ \E id \in Ids : booked'[z] = {id}
               /\ over'[z] \/ \E q \in Procs : /\ turn'[q].pc = "end" /\ turn'[q].s = z
                                               /\ turn'[q].reply = "booked"
  <2>1. CASE booked'[z] = booked[z]
    <3>1. \A q \in Procs : turn[q].pc = "end" => turn'[q] = turn[q]
      BY <1>1, <1>3
    <3> QED
      BY <1>1, <2>1, <3>1 DEF OnceInv
  <2>2. CASE booked'[z] # booked[z]
    <3>1. PICK id \in Ids : Stores(p, id) /\ reply = "booked"
      BY <1>2, <2>2
    <3>2. z = turn[p].s /\ booked'[z] = booked[z] \cup {id}
      BY <1>4, <2>2, <3>1 DEF Stores, TypeOK
    <3>3. ~over[z]
      BY <1>4, <3>2 DEF OnceInv
    <3>4. \A q \in Procs : ~(turn[q].pc = "end" /\ turn[q].s = z)
      BY <1>1, <1>4, <3>2 DEF OnceInv, Busy
    <3>5. booked[z] = {}
      BY <3>3, <3>4 DEF OnceInv
    <3> QED
      BY <1>3, <3>1, <3>2, <3>5
  <2> QED
    BY <2>1, <2>2
<1> QED
  BY <1>6, <1>7, <1>8 DEF OnceInv

(* A turn that ends: the call is over if it has booked.                    *)
LEMMA OnceEnds ==
  ASSUME TypeOK, OnceInv, NEW p \in Procs, Busy(p), NEW pc \in {"idle", "down"},
         turn' = [turn EXCEPT ![p] = Quiet(pc)],
         NEW hung, over' = [over EXCEPT ![turn[p].s] = hung],
         turn[p].s \in Voice /\ turn[p].pc = "end" /\ turn[p].reply = "booked" => hung,
         UNCHANGED booked
  PROVE  OnceInv'
<1>1. turn[p].s \in Sessions /\ ~over[turn[p].s]
  BY BusyTyped DEF TypeOK, Busy, OnceInv
<1>2. ~Busy(p)' /\ \A q \in Procs : q # p => turn'[q] = turn[q]
  BY DEF TypeOK, Busy, Quiet
<1>3. \A q \in Procs : Busy(q) /\ turn[q].s = turn[p].s => q = p
  BY DEF OnceInv
<1>4. /\ over'[turn[p].s] = hung
      /\ \A z \in Sessions : z # turn[p].s => over'[z] = over[z]
  BY <1>1 DEF TypeOK
<1>5. \A q, r \in Procs : Busy(q)' /\ Busy(r)' /\ turn'[q].s = turn'[r].s => q = r
  BY <1>2 DEF OnceInv, Busy
<1>6. ASSUME NEW q \in Procs, Busy(q)'
      PROVE  ~over'[turn'[q].s]
  <2>1. q # p /\ turn'[q] = turn[q] /\ Busy(q)
    BY <1>2, <1>6 DEF Busy
  <2>2. turn[q].s \in Sessions /\ turn[q].s # turn[p].s
    BY <1>3, <2>1, BusyTyped DEF TypeOK, Busy
  <2> QED
    BY <1>4, <2>1, <2>2 DEF OnceInv
<1>7. ASSUME NEW z \in Voice
      PROVE  booked'[z] = {} \/
               /\ \E id \in Ids : booked'[z] = {id}
               /\ over'[z] \/ \E q \in Procs : /\ turn'[q].pc = "end" /\ turn'[q].s = z
                                               /\ turn'[q].reply = "booked"
  <2>1. CASE z = turn[p].s
    <3>1. \A q \in Procs : turn[q].pc = "end" /\ turn[q].s = z => q = p
      BY <1>3, <2>1 DEF Busy
    <3> QED
      BY <1>1, <1>4, <2>1, <3>1 DEF OnceInv
  <2>2. CASE z # turn[p].s
    <3>1. \A q \in Procs : turn[q].s = z => turn'[q] = turn[q]
      BY <1>2, <2>2
    <3>2. over'[z] = over[z]
      BY <1>4, <2>2, ConstantsAssumption
    <3> QED
      BY <3>1, <3>2 DEF OnceInv
  <2> QED
    BY <2>1, <2>2
<1> QED
  BY <1>5, <1>6, <1>7 DEF OnceInv

(* Idle processes go down and come back, rows change.                      *)
LEMMA OnceElse ==
  ASSUME TypeOK, OnceInv, UNCHANGED <<over, booked>>,
         \A q \in Procs : \/ turn'[q] = turn[q]
                          \/ ~Busy(q) /\ turn'[q].pc \in {"idle", "down"}
  PROVE  OnceInv'
<1>1. \A q \in Procs : (Busy(q)' <=> Busy(q)) /\ (Busy(q) => turn'[q] = turn[q])
  BY DEF Busy
<1>2. \A q \in Procs : turn[q].pc = "end" => turn'[q] = turn[q]
  BY <1>1 DEF Busy
<1>3. \A q, r \in Procs : Busy(q)' /\ Busy(r)' /\ turn'[q].s = turn'[r].s => q = r
  BY <1>1 DEF OnceInv
<1>4. \A q \in Procs : Busy(q)' => ~over'[turn'[q].s]
  BY <1>1 DEF OnceInv
<1>5. \A z \in Voice : booked'[z] = {} \/
       /\ \E id \in Ids : booked'[z] = {id}
       /\ over'[z] \/ \E q \in Procs : /\ turn'[q].pc = "end" /\ turn'[q].s = z
                                       /\ turn'[q].reply = "booked"
  BY <1>2 DEF OnceInv
<1> QED
  BY <1>3, <1>4, <1>5 DEF OnceInv

LEMMA OnceNext == TypeOK /\ OnceInv /\ [Next]_vars => OnceInv'
<1> SUFFICES ASSUME TypeOK, OnceInv, [Next]_vars PROVE OnceInv'
  OBVIOUS
<1>1. ASSUME NEW p \in Procs, TurnEnd(p) PROVE OnceInv'
  BY <1>1, OnceEnds DEF TurnEnd, Busy, Idle, HangsUp
<1>2. ASSUME NEW p \in Procs, TurnRaises(p) PROVE OnceInv'
  BY <1>2, OnceEnds DEF TurnRaises, CutShort, Idle
<1>3. ASSUME NEW p \in Procs, Crash(p) PROVE OnceInv'
  <2>1. CASE Busy(p)
    BY <1>3, <2>1, OnceEnds DEF Crash, CutShort, Down
  <2>2. CASE ~Busy(p)
    BY <1>3, <2>2, OnceElse DEF Crash, CutShort, Down, Quiet, TypeOK
  <2> QED
    BY <2>1, <2>2
<1>4. ASSUME NEW p \in Procs, NEW wiped \in BOOLEAN, Restart(p, wiped) PROVE OnceInv'
  BY <1>4, OnceElse DEF Restart, Idle, Quiet, TypeOK, Busy
<1>5. CASE UNCHANGED <<turn, over, booked>>
  BY <1>5, OnceElse
<1> QED
  BY <1>1, <1>2, <1>3, <1>4, <1>5, OnceStart, OnceAgent, NextCases DEF StaffWrites, vars

(* However many calls and processes: a telephone call stores at most one   *)
(* reservation.                                                            *)
THEOREM CallsBookOnce == Spec => []CallBooksOnce
<1>1. OnceInv => CallBooksOnce
  <2> SUFFICES ASSUME OnceInv, NEW s \in Voice PROVE Cardinality(booked[s]) <= 1
    BY DEF CallBooksOnce
  <2>1. CASE booked[s] = {}
    BY <2>1, FS_EmptySet
  <2>2. CASE \E id \in Ids : booked[s] = {id}
    <3>1. PICK id \in Ids : booked[s] = {id}
      BY <2>2
    <3>2. Cardinality({id}) = 1
      BY FS_Singleton
    <3> QED
      BY <3>1, <3>2
  <2> QED
    BY <2>1, <2>2 DEF OnceInv
<1> QED
  BY <1>1, OnceInit, OnceNext, TypeCorrect, PTL DEF Spec

------------------------------------------------------------------------------
(* Fields are kept.                                                        *)

(* What a turn may leave behind holds the fields it has no reason to lose, *)
(* and what it ends with holds those it owes.                              *)
KeptInv ==
  \A p \in Procs :
    Busy(p) => /\ turn[p].owed \subseteq turn[p].cur.known
               /\ \A x \in turn[p].kept \cup {turn[p].cur} : turn[p].spared \subseteq x.known

LEMMA KeptStart ==
  ASSUME TypeOK, KeptInv, NEW p \in Procs, NEW s \in Sessions, NEW m \in Message,
         NEW readable \in BOOLEAN, NEW given \in Given,
         TurnStart(p, s, m, readable, given)
  PROVE  KeptInv'
<1>1. PICK context \in Snapshot, routed \in Snapshot :
        /\ turn'[p].cur = routed /\ turn'[p].kept = {context, routed}
        /\ turn'[p].spared = Spared(p, s, m, readable, given)
        /\ turn'[p].owed = Owed(p, s, m, readable, given)
        /\ \A q \in Procs : q # p => turn'[q] = turn[q]
        /\ context = Context(p, s, readable, given)
        /\ routed = Supervise(context, m)
  BY StartDoes
<1>2. m.data \in Data /\ routed.known = (context.known \ m.data.lost) \cup m.data.known
  BY <1>1, SuperviseTyped
<1>3. m.data.known \cap m.data.lost = {} /\ given.known \cap given.lost = {}
  BY <1>2, GivenTyped DEF Data
<1>4. /\ given.known \subseteq context.known
      /\ Spared(p, s, m, readable, given) \subseteq context.known
  BY <1>1, ContextTyped DEF Spared
<1>5. Spared(p, s, m, readable, given) \subseteq routed.known
  BY <1>2, <1>4 DEF Spared
<1>6. Owed(p, s, m, readable, given) \subseteq routed.known
  BY <1>2, <1>4, <1>5 DEF Owed
<1>7. \A q \in Procs : q # p /\ Busy(q)' => Busy(q)
  BY <1>1 DEF Busy
<1> QED
  BY <1>1, <1>4, <1>5, <1>6, <1>7 DEF KeptInv

LEMMA KeptAgent ==
  ASSUME TypeOK, KeptInv, NEW p \in Procs, AgentStep(p)
  PROVE  KeptInv'
<1>1. turn[p].pc = "agent" /\ Busy(p)
  BY AgentDoes DEF Busy
<1>2. PICK reply \in Replies, rid \in Rid : Answer(p, reply, rid)
  BY AgentDoes
<1>3. /\ turn'[p].kept = turn[p].kept /\ turn'[p].cur.known = turn[p].cur.known
      /\ turn'[p].spared = turn[p].spared /\ turn'[p].owed = turn[p].owed
      /\ \A r \in Procs : r # p => turn'[r] = turn[r]
  BY <1>1, <1>2, AnswerTyped
<1>4. /\ turn[p].owed \subseteq turn[p].cur.known
      /\ \A x \in turn[p].kept \cup {turn[p].cur} : turn[p].spared \subseteq x.known
  BY <1>1 DEF KeptInv
<1>5. \A q \in Procs : q # p /\ Busy(q)' => Busy(q)
  BY <1>3 DEF Busy
<1> QED
  BY <1>3, <1>4, <1>5 DEF KeptInv

LEMMA KeptNext ==
  ASSUME TypeOK, KeptInv, [Next]_vars
  PROVE  KeptInv'
<1>a. ASSUME \A q \in Procs : turn'[q] = turn[q] \/ ~Busy(q)' PROVE KeptInv'
  BY <1>a DEF KeptInv, Busy
<1>1. ASSUME NEW p \in Procs, NEW pc \in {"idle", "down"}, turn' = [turn EXCEPT ![p] = Quiet(pc)]
      PROVE  KeptInv'
  <2>1. \A q \in Procs : turn'[q] = turn[q] \/ ~Busy(q)'
    BY <1>1 DEF TypeOK, Busy, Quiet
  <2> QED
    BY <2>1, <1>a
<1>2. ASSUME NEW p \in Procs,
             TurnEnd(p) \/ TurnRaises(p) \/ Crash(p) \/ \E wiped \in BOOLEAN : Restart(p, wiped)
      PROVE  KeptInv'
  BY <1>1, <1>2 DEF TurnEnd, TurnRaises, Crash, Restart, Idle, Down
<1>3. CASE UNCHANGED turn
  BY <1>3, <1>a
<1> QED
  BY <1>2, <1>3, KeptStart, KeptAgent, NextCases DEF StaffWrites, vars

(* What a step does to a checkpoint.                                       *)
LEMMA DiskKeeps ==
  ASSUME TypeOK, KeptInv, [Next]_vars, NEW p \in Procs, NEW s \in Sessions
  PROVE  /\ TurnEnd(p) /\ turn[p].s = s => turn[p].owed \subseteq disk'[p][s].known
         /\ disk[p][s] # None /\ disk'[p][s] # disk[p][s] =>
              \/ /\ turn[p].s = s /\ disk'[p][s] # None
                 /\ turn[p].spared \subseteq disk'[p][s].known
              \/ turn[p].pc = "down" /\ disk'[p] = [z \in Sessions |-> None]
<1>1. ASSUME TurnEnd(p), turn[p].s = s PROVE turn[p].owed \subseteq disk'[p][s].known
  <2>1. disk'[p][s] = turn[p].cur
    BY <1>1 DEF TurnEnd, TypeOK
  <2> QED
    BY <1>1, <2>1 DEF KeptInv, TurnEnd, Busy
<1>2. ASSUME NEW q \in Procs, Busy(q), disk'[p][s] # disk[p][s],
             NEW x \in {disk[q][turn[q].s]} \cup turn[q].kept \cup {turn[q].cur},
             disk' = [disk EXCEPT ![q][turn[q].s] = x]
      PROVE  /\ turn[p].s = s /\ disk'[p][s] # None
             /\ turn[p].spared \subseteq disk'[p][s].known
  <2>1. /\ turn[q].s \in Sessions /\ turn[q].cur \in Snapshot
        /\ turn[q].kept \in SUBSET Snapshot
    BY <1>2, BusyTyped DEF TypeOK, Busy
  <2>2. q = p /\ turn[q].s = s /\ disk'[p][s] = x /\ x # disk[p][s]
    BY <1>2, <2>1 DEF TypeOK
  <2>3. x \in turn[p].kept \cup {turn[p].cur} /\ x \in Snapshot
    BY <1>2, <2>1, <2>2
  <2>4. turn[p].spared \subseteq x.known
    BY <1>2, <2>2, <2>3 DEF KeptInv
  <2> QED
    BY <2>2, <2>3, <2>4, ConstantsAssumption
<1>3. ASSUME NEW q \in Procs, TurnEnd(q) \/ TurnRaises(q) \/ Crash(q), disk' # disk
      PROVE  /\ Busy(q)
             /\ \E x \in {disk[q][turn[q].s]} \cup turn[q].kept \cup {turn[q].cur} :
                  disk' = [disk EXCEPT ![q][turn[q].s] = x]
  BY <1>3, LeftTyped DEF TurnEnd, TurnRaises, Crash, Busy
<1>4. ASSUME NEW q \in Procs, NEW wiped \in BOOLEAN, Restart(q, wiped),
             disk'[p][s] # disk[p][s]
      PROVE  turn[p].pc = "down" /\ disk'[p] = [z \in Sessions |-> None]
  BY <1>4 DEF Restart, TypeOK
<1>5. ASSUME NEW q \in Procs, AgentStep(q) PROVE disk' = disk
  BY <1>5, AgentDoes DEF untouched
<1>6. ASSUME disk[p][s] # None, disk'[p][s] # disk[p][s]
      PROVE  \/ /\ turn[p].s = s /\ disk'[p][s] # None
                /\ turn[p].spared \subseteq disk'[p][s].known
             \/ turn[p].pc = "down" /\ disk'[p] = [z \in Sessions |-> None]
  <2>1. disk' # disk
    BY <1>6
  <2>2. \/ \E q \in Procs : TurnEnd(q) \/ TurnRaises(q) \/ Crash(q)
        \/ \E q \in Procs, wiped \in BOOLEAN : Restart(q, wiped)
    BY <1>5, <2>1, NextCases DEF TurnStart, StaffWrites, vars
  <2> QED
    BY <1>2, <1>3, <1>4, <1>6, <2>1, <2>2
<1> QED
  BY <1>1, <1>6

(* Whatever turns raise, processes crash and checkpoints cannot be read:   *)
(* an answered turn keeps what it owes its guest, and a checkpoint loses a *)
(* field only for a reason.                                                *)
THEOREM FieldsStay == Spec => FieldsKept
<1>1. Init => KeptInv
  BY DEF Init, KeptInv, Busy, Idle, Quiet
<1>2. TypeOK /\ KeptInv /\ [Next]_vars => KeptInv'
  BY KeptNext
<1>3. TypeOK /\ KeptInv /\ [Next]_vars =>
        [\A p \in Procs, s \in Sessions :
           /\ TurnEnd(p) /\ turn[p].s = s => turn[p].owed \subseteq disk'[p][s].known
           /\ disk[p][s] # None /\ disk'[p][s] # disk[p][s] =>
                \/ /\ turn[p].s = s /\ disk'[p][s] # None
                   /\ turn[p].spared \subseteq disk'[p][s].known
                \/ turn[p].pc = "down" /\ disk'[p] = [z \in Sessions |-> None]]_vars
  BY DiskKeeps
<1> QED
  BY <1>1, <1>2, <1>3, TypeCorrect, PTL DEF Spec, FieldsKept
=============================================================================
