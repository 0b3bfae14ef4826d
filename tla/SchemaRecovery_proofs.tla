------------------------ MODULE SchemaRecovery_proofs ------------------------
(***************************************************************************)
(* Proofs about SchemaRecovery: SchemaInv is inductive, and what goes      *)
(* through the steps undisturbed finds all its tables.                     *)
(***************************************************************************)
EXTENDS SchemaRecovery, TLAPS

(* The three steps create three tables, in order, and end.                 *)
LEMMA StepFacts ==
  /\ \A step \in Steps : TableOf(step) \in Tables /\ After(step) \in Steps \cup {"ready"}
                         /\ After(step) # "init_db" /\ After(step) # "down"
  /\ \A a, b \in Steps : TableOf(a) = TableOf(b) => a = b
  /\ \A step \in Steps : TableOf(step) = "app_users" <=> step = "ensure_default_users"
  /\ "ready" \notin Steps /\ "down" \notin Steps /\ "init_db" \in Steps
BY DEF Steps, TableOf, After, Tables

LEMMA DefaultTyped ==
  ASSUME NEW n \in DOMAIN DefaultRole
  PROVE  DefaultAccount(n) \in Account /\ DefaultAccount(n) # None
<1>1. DefaultRole[n] \in Roles /\ "1234" \in Passwords /\ None \notin Account
  BY SchemaAssumption
<1>2. DefaultAccount(n) \in Account
  BY <1>1 DEF DefaultAccount, Account
<1> QED
  BY <1>1, <1>2

(* Seeding adds the default accounts and changes none that is there.       *)
LEMMA SeededKeeps ==
  ASSUME NEW us \in [Names -> Account \cup {None}]
  PROVE  /\ Seeded(us) \in [Names -> Account \cup {None}]
         /\ \A n \in DOMAIN DefaultRole : Seeded(us)[n] # None
         /\ \A n \in Names : us[n] # None => Seeded(us)[n] = us[n]
BY SchemaAssumption, DefaultTyped DEF Seeded

LEMMA NoUsersTyped == NoUsers \in [Names -> Account \cup {None}]
BY DEF NoUsers

LEMMA SchemaInitially == SchemaInit => SchemaInv
<1> SUFFICES ASSUME SchemaInit PROVE SchemaInv
  OBVIOUS
<1>1. users \in [Names -> Account \cup {None}] /\ AccountsSeeded /\ tables \subseteq Tables
  <2>1. CASE tables = {} /\ users = NoUsers
    BY <2>1, NoUsersTyped DEF AccountsSeeded
  <2>2. CASE tables = Tables /\ users = Seeded(NoUsers)
    BY <2>2, NoUsersTyped, SeededKeeps DEF AccountsSeeded, Tables
  <2> QED
    BY <2>1, <2>2 DEF SchemaInit
<1>2. SchemaTypeOK
  BY <1>1, SchemaAssumption DEF SchemaInit, SchemaTypeOK, Transaction
<1> QED
  BY <1>1, <1>2 DEF SchemaInit, SchemaInv, TransactionsHonest, FlagHonest

------------------------------------------------------------------------------
(* One lemma per action.                                                   *)

(* A process that leaves its transaction behind, or has none.              *)
LEMMA GoToHonest ==
  ASSUME SchemaInv, NEW p \in Procs, NEW step \in Steps \cup {"down", "ready"},
         proc' = GoTo(p, step), UNCHANGED <<up, tables>>
  PROVE  /\ proc' \in [Procs -> [pc : Steps \cup {"down", "ready"}, tx : Transaction]]
         /\ TransactionsHonest'
         /\ proc'[p].pc = step
         /\ \A q \in Procs : q # p => proc'[q] = proc[q]
<1> USE DEF SchemaInv, SchemaTypeOK
<1>1. /\ proc'[p] = [pc |-> step, tx |-> "none"]
      /\ \A q \in Procs : q # p => proc'[q] = proc[q]
      /\ proc' \in [Procs -> [pc : Steps \cup {"down", "ready"}, tx : Transaction]]
  BY DEF GoTo, Transaction
<1> QED
  BY <1>1 DEF TransactionsHonest

LEMMA StartKeeps == ASSUME SchemaInv, NEW p \in Procs, Start(p) PROVE SchemaInv'
<1>1. proc' = GoTo(p, "init_db") /\ UNCHANGED <<up, tables, users, flag, faults>>
      /\ proc[p].pc = "down"
  BY DEF Start
<1>2. /\ proc' \in [Procs -> [pc : Steps \cup {"down", "ready"}, tx : Transaction]]
      /\ TransactionsHonest'
      /\ proc'[p].pc = "init_db" /\ \A q \in Procs : q # p => proc'[q] = proc[q]
  BY <1>1, GoToHonest, StepFacts
<1> QED
  BY <1>1, <1>2 DEF SchemaInv, SchemaTypeOK, AccountsSeeded, FlagHonest

LEMMA BeginKeeps == ASSUME SchemaInv, NEW p \in Procs, Begin(p) PROVE SchemaInv'
<1> USE DEF SchemaInv, SchemaTypeOK
<1>1. UNCHANGED <<up, tables, users, flag, faults>> /\ up /\ proc[p].pc \in Steps
  BY DEF Begin
<1>2. /\ proc' \in [Procs -> [pc : Steps \cup {"down", "ready"}, tx : Transaction]]
      /\ \A q \in Procs : proc'[q].pc = proc[q].pc
      /\ \A q \in Procs : q # p => proc'[q] = proc[q]
      /\ proc'[p].tx = IF TableOf(proc[p].pc) \in tables THEN "found" ELSE "creating"
  BY DEF Begin, Transaction
<1>3. TransactionsHonest'
  BY <1>1, <1>2 DEF TransactionsHonest
<1> QED
  BY <1>1, <1>2, <1>3 DEF AccountsSeeded, FlagHonest

(* What a commit does to the tables, the accounts and the others.          *)
LEMMA CommittedKeeps ==
  ASSUME SchemaInv, NEW p \in Procs, Committed(p)
  PROVE  /\ tables' \subseteq Tables /\ UNCHANGED up
         /\ users' \in [Names -> Account \cup {None}]
         /\ proc' \in [Procs -> [pc : Steps \cup {"down", "ready"}, tx : Transaction]]
         /\ AccountsSeeded' /\ TransactionsHonest'
         /\ proc[p].pc \in Steps /\ proc'[p].pc = After(proc[p].pc)
         /\ \A q \in Procs : q # p => proc'[q].pc = proc[q].pc
<1> USE DEF SchemaInv, SchemaTypeOK
<1>1. /\ proc[p].pc \in Steps /\ up
      /\ UNCHANGED up /\ tables' = tables \cup {TableOf(proc[p].pc)}
      /\ users' = IF proc[p].pc = "ensure_default_users" THEN Seeded(users) ELSE users
  BY DEF Committed, TransactionsHonest
<1>2. /\ proc' \in [Procs -> [pc : Steps \cup {"down", "ready"}, tx : Transaction]]
      /\ proc'[p] = [pc |-> After(proc[p].pc), tx |-> "none"]
      /\ \A q \in Procs : q # p =>
           proc'[q] = IF proc[q].pc = proc[p].pc /\ proc[q].tx = "creating"
                      THEN [pc |-> proc[q].pc, tx |-> "broken"] ELSE proc[q]
  <2>1. proc' = [q \in Procs |->
                   IF q = p THEN [pc |-> After(proc[p].pc), tx |-> "none"]
                   ELSE IF proc[q].pc = proc[p].pc /\ proc[q].tx = "creating"
                        THEN [pc |-> proc[q].pc, tx |-> "broken"] ELSE proc[q]]
    BY DEF Committed
  <2> QED
    BY <2>1, <1>1, StepFacts DEF Transaction
<1>3. tables' \subseteq Tables /\ users' \in [Names -> Account \cup {None}]
  BY <1>1, StepFacts, SeededKeeps
<1>4. AccountsSeeded'
  <2>1. CASE proc[p].pc = "ensure_default_users"
    BY <2>1, <1>1, SeededKeeps DEF AccountsSeeded, TableOf
  <2>2. CASE proc[p].pc # "ensure_default_users"
    BY <2>2, <1>1, StepFacts DEF AccountsSeeded
  <2> QED
    BY <2>1, <2>2
<1>5. TransactionsHonest'
  <2>1. ASSUME NEW q \in Procs, q # p, proc[q].pc = proc[p].pc, proc[q].tx = "creating"
        PROVE  proc'[q].tx = "broken" /\ proc'[q].pc \in Steps
    BY <2>1, <1>1, <1>2
  <2>2. ASSUME NEW q \in Procs, q # p, ~(proc[q].pc = proc[p].pc /\ proc[q].tx = "creating")
        PROVE  /\ proc'[q].tx # "none" => proc'[q].pc \in Steps
               /\ proc'[q].tx = "found" => up' /\ TableOf(proc'[q].pc) \in tables'
               /\ proc'[q].tx = "creating" => up' /\ TableOf(proc'[q].pc) \notin tables'
    BY <2>2, <1>1, <1>2, StepFacts DEF TransactionsHonest
  <2> QED
    BY <2>1, <2>2, <1>2 DEF TransactionsHonest
<1> QED
  BY <1>1, <1>2, <1>3, <1>4, <1>5

LEMMA CommitKeeps ==
  ASSUME SchemaInv, NEW p \in Procs, Commit(p) \/ CommitUnheard(p) PROVE SchemaInv'
<1> USE DEF SchemaInv, SchemaTypeOK
<1>1. Committed(p)
  BY DEF Commit, CommitUnheard
<1>2. /\ flag' \in [Procs -> BOOLEAN]
      /\ \A q \in Procs : q # p => flag'[q] = flag[q]
      /\ faults' \in 0..MaxFaults
  <2>1. CASE Commit(p)
    <3>1. flag' = [flag EXCEPT ![p] = flag[p] \/ proc[p].pc = "init_db"] /\ faults' = faults
      BY <2>1 DEF Commit
    <3>2. (flag[p] \/ proc[p].pc = "init_db") \in BOOLEAN
      OBVIOUS
    <3> QED
      BY <3>1, <3>2, Zenon
  <2>2. CASE CommitUnheard(p)
    <3>1. flag' = flag /\ faults' = faults + 1 /\ faults < MaxFaults
      BY <2>2 DEF CommitUnheard
    <3> QED
      BY <3>1, SchemaAssumption
  <2> QED
    BY <2>1, <2>2, <1>1 DEF CommitUnheard, Commit
<1>3. FlagHonest'
  BY <1>1, <1>2, CommittedKeeps, StepFacts DEF FlagHonest
<1> QED
  BY <1>1, <1>2, <1>3, CommittedKeeps

LEMMA FailKeeps == ASSUME SchemaInv, NEW p \in Procs, Fail(p) PROVE SchemaInv'
<1>1. proc' = GoTo(p, After(proc[p].pc)) /\ UNCHANGED <<up, tables, users, flag, faults>>
      /\ proc[p].pc \in Steps
  BY DEF Fail
<1>2. /\ proc' \in [Procs -> [pc : Steps \cup {"down", "ready"}, tx : Transaction]]
      /\ TransactionsHonest'
      /\ proc'[p].pc = After(proc[p].pc) /\ \A q \in Procs : q # p => proc'[q] = proc[q]
  BY <1>1, GoToHonest, StepFacts
<1> QED
  BY <1>1, <1>2, StepFacts DEF SchemaInv, SchemaTypeOK, AccountsSeeded, FlagHonest

LEMMA NoticeKeeps == ASSUME SchemaInv, NEW p \in Procs, Notice(p) PROVE SchemaInv'
<1>1. proc' = GoTo(p, "init_db") /\ UNCHANGED <<up, tables, users, faults>>
      /\ flag' = [flag EXCEPT ![p] = FALSE]
  BY DEF Notice
<1>2. /\ proc' \in [Procs -> [pc : Steps \cup {"down", "ready"}, tx : Transaction]]
      /\ TransactionsHonest' /\ \A q \in Procs : q # p => proc'[q] = proc[q]
  BY <1>1, GoToHonest, StepFacts
<1> QED
  BY <1>1, <1>2 DEF SchemaInv, SchemaTypeOK, AccountsSeeded, FlagHonest

LEMMA CrashKeeps == ASSUME SchemaInv, NEW p \in Procs, Crash(p) PROVE SchemaInv'
<1>1. proc' = GoTo(p, "down") /\ UNCHANGED <<up, tables, users>>
      /\ flag' = [flag EXCEPT ![p] = FALSE] /\ faults' = faults + 1 /\ faults < MaxFaults
  BY DEF Crash
<1>2. /\ proc' \in [Procs -> [pc : Steps \cup {"down", "ready"}, tx : Transaction]]
      /\ TransactionsHonest' /\ \A q \in Procs : q # p => proc'[q] = proc[q]
  BY <1>1, GoToHonest, StepFacts
<1>3. faults' \in 0..MaxFaults
  BY <1>1, SchemaAssumption DEF SchemaInv, SchemaTypeOK
<1> QED
  BY <1>1, <1>2, <1>3 DEF SchemaInv, SchemaTypeOK, AccountsSeeded, FlagHonest

LEMMA WriteUserKeeps == ASSUME SchemaInv, NEW n \in Names, WriteUser(n) PROVE SchemaInv'
<1>1. PICK a \in Account : users' = [users EXCEPT ![n] = a]
  BY DEF WriteUser
<1>2. UNCHANGED <<up, tables, proc, flag, faults>> /\ "app_users" \in tables /\ a # None
  BY SchemaAssumption DEF WriteUser
<1> QED
  BY <1>1, <1>2, SchemaAssumption
  DEF SchemaInv, SchemaTypeOK, AccountsSeeded, TransactionsHonest, FlagHonest

LEMMA PgKeeps ==
  ASSUME SchemaInv, PgStart \/ \E lost \in BOOLEAN : PgStop(lost) PROVE SchemaInv'
<1> USE DEF SchemaInv, SchemaTypeOK
<1>1. CASE PgStart
  BY <1>1 DEF PgStart, AccountsSeeded, TransactionsHonest, FlagHonest
<1>2. ASSUME NEW lost \in BOOLEAN, PgStop(lost) PROVE SchemaInv'
  <2>1. /\ proc' \in [Procs -> [pc : Steps \cup {"down", "ready"}, tx : Transaction]]
        /\ \A q \in Procs : proc'[q].pc = proc[q].pc
        /\ \A q \in Procs : proc'[q].tx \notin {"found", "creating"}
        /\ \A q \in Procs : proc'[q].tx # "none" => proc[q].tx # "none"
    <3>1. proc' = [p \in Procs |-> IF proc[p].tx = "none" THEN proc[p]
                                   ELSE [pc |-> proc[p].pc, tx |-> "broken"]]
      BY <1>2 DEF PgStop
    <3> QED
      BY <3>1 DEF Transaction
  <2>2. AccountsSeeded' /\ tables' \subseteq Tables
        /\ users' \in [Names -> Account \cup {None}]
    BY <1>2, NoUsersTyped DEF PgStop, AccountsSeeded
  <2>3. up' \in BOOLEAN /\ UNCHANGED flag /\ faults' \in 0..MaxFaults
    <3>1. up' = FALSE /\ UNCHANGED flag /\ faults' = faults + 1 /\ faults < MaxFaults
      BY <1>2 DEF PgStop
    <3>2. faults' \in 0..MaxFaults
      BY <3>1, SchemaAssumption
    <3> QED
      BY <3>1, <3>2
  <2> QED
    BY <2>1, <2>2, <2>3 DEF TransactionsHonest, FlagHonest
<1> QED
  BY <1>1, <1>2

LEMMA SchemaKeeps == SchemaInv /\ [SchemaNext]_schemaVars => SchemaInv'
<1> SUFFICES ASSUME SchemaInv, [SchemaNext]_schemaVars PROVE SchemaInv'
  OBVIOUS
<1>1. CASE UNCHANGED schemaVars
  BY <1>1 DEF schemaVars, SchemaInv, SchemaTypeOK, AccountsSeeded, TransactionsHonest,
              FlagHonest
<1>2. CASE SchemaNext
  BY <1>2, StartKeeps, BeginKeeps, CommitKeeps, FailKeeps, NoticeKeeps, CrashKeeps,
     WriteUserKeeps, PgKeeps DEF SchemaNext, Proceed
<1> QED
  BY <1>1, <1>2

(* Whatever stops, crashes, is lost or races, for any number of processes  *)
(* and accounts: the table of accounts never exists without the default    *)
(* accounts, no transaction acts on a stale view of its table, and a       *)
(* process holds its schema for created only after init_db.                *)
THEOREM SchemaIsSound == SchemaSpec => []SchemaInv
BY SchemaInitially, SchemaKeeps, PTL DEF SchemaSpec
------------------------------------------------------------------------------
(* What goes through the steps finds its tables.                           *)

(* While nothing has failed since there were k faults: PostgreSQL answers, *)
(* p runs, and the tables of the steps p has behind it exist, as does that *)
(* of a step that another process has broken.                              *)
OnTheWay(p, k) ==
  /\ faults >= k
  /\ faults = k =>
       /\ up /\ proc[p].pc # "down"
       /\ proc[p].pc # "init_db" => "reservations" \in tables
       /\ proc[p].pc \in {"ensure_assignments_table", "ready"} => "app_users" \in tables
       /\ proc[p].pc = "ready" => "floor_plan_assignments" \in tables
       /\ proc[p].tx = "broken" => TableOf(proc[p].pc) \in tables

(* A step that ends with its table there leaves p on its way.              *)
LEMMA StepDone ==
  ASSUME SchemaInv, NEW p \in Procs, NEW k \in Nat, OnTheWay(p, k), faults = k,
         proc[p].pc \in Steps, UNCHANGED <<up, faults>>, tables \subseteq tables',
         TableOf(proc[p].pc) \in tables',
         proc'[p] = [pc |-> After(proc[p].pc), tx |-> "none"]
  PROVE  OnTheWay(p, k)'
<1>1. proc'[p].pc = After(proc[p].pc) /\ proc'[p].tx = "none"
  OBVIOUS
<1>2. CASE proc[p].pc = "init_db"
  BY <1>1, <1>2 DEF OnTheWay, After, TableOf
<1>3. CASE proc[p].pc = "ensure_default_users"
  BY <1>1, <1>3 DEF OnTheWay, After, TableOf
<1>4. CASE proc[p].pc = "ensure_assignments_table"
  BY <1>1, <1>4 DEF OnTheWay, After, TableOf
<1> QED
  BY <1>2, <1>3, <1>4 DEF Steps

LEMMA OnTheWayKept ==
  ASSUME SchemaInv, [SchemaNext]_schemaVars, NEW p \in Procs, NEW k \in Nat, OnTheWay(p, k)
  PROVE  OnTheWay(p, k)'
<1> USE DEF SchemaInv, SchemaTypeOK
<1>0. faults \in Nat /\ faults >= k
  BY SchemaAssumption DEF OnTheWay
<1>1. ASSUME faults' = faults + 1 PROVE OnTheWay(p, k)'
  BY <1>0, <1>1 DEF OnTheWay
<1>2. ASSUME UNCHANGED <<up, tables, faults>>, proc'[p] = proc[p]
      PROVE  OnTheWay(p, k)'
  BY <1>2 DEF OnTheWay
<1>3. CASE faults # k
  <2>1. faults' \in {faults, faults + 1}
    BY DEF SchemaNext, Start, Proceed, Begin, Commit, Fail, Notice, CommitUnheard, Crash,
           WriteUser, PgStop, PgStart, schemaVars
  <2> QED
    BY <1>0, <1>3, <2>1 DEF OnTheWay
<1> SUFFICES ASSUME faults = k PROVE OnTheWay(p, k)'
  BY <1>3
<1>4. ASSUME NEW q \in Procs, Start(q) PROVE OnTheWay(p, k)'
  BY <1>2, <1>4 DEF Start, GoTo, OnTheWay
<1>5. ASSUME NEW q \in Procs, Begin(q) PROVE OnTheWay(p, k)'
  <2>1. UNCHANGED <<up, tables, faults>>
    BY <1>5 DEF Begin
  <2>2. CASE q = p
    <3>1. proc'[p].pc = proc[p].pc /\ proc'[p].tx # "broken"
      BY <1>5, <2>2 DEF Begin
    <3> QED
      BY <2>1, <3>1 DEF OnTheWay
  <2>3. CASE q # p
    BY <1>2, <1>5, <2>1, <2>3 DEF Begin
  <2> QED
    BY <2>2, <2>3
<1>6. ASSUME NEW q \in Procs, Committed(q), UNCHANGED faults PROVE OnTheWay(p, k)'
  <2>1. UNCHANGED up /\ tables' = tables \cup {TableOf(proc[q].pc)} /\ proc[q].pc \in Steps
    BY <1>6 DEF Committed, TransactionsHonest
  <2>2. proc'[p] = IF p = q THEN [pc |-> After(proc[q].pc), tx |-> "none"]
                   ELSE IF proc[p].pc = proc[q].pc /\ proc[p].tx = "creating"
                        THEN [pc |-> proc[p].pc, tx |-> "broken"] ELSE proc[p]
    BY <1>6 DEF Committed
  <2>3. CASE q = p
    <3>1. proc'[p] = [pc |-> After(proc[p].pc), tx |-> "none"]
      BY <2>2, <2>3
    <3> QED
      BY <1>6, <2>1, <2>3, <3>1, StepDone
  <2>4. CASE q # p /\ proc[p].pc = proc[q].pc /\ proc[p].tx = "creating"
    <3>1. proc'[p].pc = proc[p].pc /\ TableOf(proc[p].pc) \in tables'
      BY <2>1, <2>2, <2>4
    <3> QED
      BY <1>6, <2>1, <3>1 DEF OnTheWay
  <2>5. CASE q # p /\ ~(proc[p].pc = proc[q].pc /\ proc[p].tx = "creating")
    <3>1. proc'[p] = proc[p]
      BY <2>2, <2>5
    <3> QED
      BY <1>6, <2>1, <3>1 DEF OnTheWay
  <2> QED
    BY <2>3, <2>4, <2>5
<1>7. ASSUME NEW q \in Procs, Fail(q) PROVE OnTheWay(p, k)'
  <2>1. UNCHANGED <<up, tables, faults>> /\ proc[q].pc \in Steps
        /\ proc' = GoTo(q, After(proc[q].pc))
    BY <1>7 DEF Fail
  <2>2. CASE q = p
    <3>1. proc'[p] = [pc |-> After(proc[p].pc), tx |-> "none"]
      BY <2>1, <2>2 DEF GoTo
    <3>2. TableOf(proc[p].pc) \in tables
      <4>1. up
        BY DEF OnTheWay
      <4>2. CASE proc[p].tx = "broken"
        BY <4>2 DEF OnTheWay
      <4>3. CASE Deadlocked(p)
        <5>1. proc[p] = [pc |-> "init_db", tx |-> "found"]
          BY <4>3 DEF Deadlocked
        <5> QED
          BY <5>1 DEF TransactionsHonest
      <4> QED
        BY <1>7, <2>2, <4>1, <4>2, <4>3 DEF Fail
    <3> QED
      BY <2>1, <2>2, <3>1, <3>2, StepDone
  <2>3. CASE q # p
    BY <1>2, <2>1, <2>3 DEF GoTo
  <2> QED
    BY <2>2, <2>3
<1>8. ASSUME NEW q \in Procs, Notice(q) PROVE OnTheWay(p, k)'
  <2>1. UNCHANGED <<up, tables, faults>> /\ proc' = GoTo(q, "init_db")
    BY <1>8 DEF Notice
  <2>2. CASE q = p
    <3>1. proc'[p].pc = "init_db" /\ proc'[p].tx = "none"
      BY <2>1, <2>2 DEF GoTo
    <3> QED
      BY <2>1, <3>1 DEF OnTheWay
  <2>3. CASE q # p
    BY <1>2, <2>1, <2>3 DEF GoTo
  <2> QED
    BY <2>2, <2>3
<1>9. ASSUME NEW n \in Names, WriteUser(n) PROVE OnTheWay(p, k)'
  BY <1>2, <1>9 DEF WriteUser
<1>10. CASE PgStart
  BY <1>10 DEF PgStart, OnTheWay
<1>11. CASE UNCHANGED schemaVars
  BY <1>2, <1>11 DEF schemaVars
<1>12. ASSUME NEW q \in Procs, CommitUnheard(q) \/ Crash(q) PROVE OnTheWay(p, k)'
  BY <1>1, <1>12 DEF CommitUnheard, Crash
<1>13. ASSUME NEW lost \in BOOLEAN, PgStop(lost) PROVE OnTheWay(p, k)'
  BY <1>1, <1>13 DEF PgStop
<1>14. ASSUME NEW q \in Procs, Commit(q) PROVE OnTheWay(p, k)'
  BY <1>6, <1>14 DEF Commit
<1> QED
  BY <1>4, <1>5, <1>7, <1>8, <1>9, <1>10, <1>11, <1>12, <1>13, <1>14
  DEF SchemaNext, Proceed

(* For any number of processes: one that goes through the steps while      *)
(* PostgreSQL answers serves with all tables as long as nothing fails, in  *)
(* whatever way the others interfere with it.                              *)
THEOREM WhoeverHealsIsHealed == SchemaSpec => HealedWhenReady
<1>1. ASSUME NEW p \in Procs, NEW k \in 0..MaxFaults
      PROVE  SchemaSpec =>
               []((faults = k /\ up /\ proc[p] = [pc |-> "init_db", tx |-> "none"])
                  => [](faults = k /\ proc[p].pc = "ready" => tables = Tables))
  <2>0. k \in Nat
    BY SchemaAssumption
  <2>1. SchemaInv /\ (faults = k /\ up /\ proc[p] = [pc |-> "init_db", tx |-> "none"])
          => OnTheWay(p, k)
    BY <2>0 DEF OnTheWay
  <2>2. SchemaInv /\ OnTheWay(p, k) /\ [SchemaNext]_schemaVars => OnTheWay(p, k)'
    BY <2>0, OnTheWayKept
  <2>3. SchemaInv /\ OnTheWay(p, k)
          => (faults = k /\ proc[p].pc = "ready" => tables = Tables)
    BY DEF OnTheWay, SchemaInv, SchemaTypeOK, Tables
  <2> QED
    BY <2>1, <2>2, <2>3, SchemaIsSound, PTL DEF SchemaSpec
<1> QED
  BY <1>1 DEF HealedWhenReady
=============================================================================
